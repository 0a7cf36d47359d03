--------------------------- MODULE AgentLoopProofs ---------------------------
(***************************************************************************)
(* The agent loop, for any messages, modes, limits and bounds: it          *)
(* implements the steering mailbox, the three copies of the history agree  *)
(* whenever the model is asked, and every tool call the provider is shown  *)
(* is answered.                                                            *)
(***************************************************************************)
EXTENDS AgentLoop, ListsProofs

CallIds == Nat \X Nat
Texts == Prompts \cup Steers \cup FollowUps \cup {"restored"}
UserMessages == [role : {"user"}, text : Texts]
Answered == [role : {"assistant"}, stop : {"stop", "failed"}, calls : Seq(CallIds)]
Results == [role : {"toolResult"}, call : CallIds]
Message == UserMessages \cup Answered \cup Results

\* What can be said of a message by its role.
LEMMA MessageKinds ==
  ASSUME NEW m \in Message
  PROVE  /\ m.role = "user" => m \in UserMessages
         /\ m.role = "assistant" =>
              /\ m \in Answered /\ m.calls \in Seq(CallIds) /\ m.stop \in {"stop", "failed"}
              /\ m = Assistant(m.stop, m.calls)
         /\ m.role = "toolResult" =>
              m \in Results /\ m.call \in CallIds /\ m = ToolResult(m.call)
         /\ m.role \in {"user", "assistant", "toolResult"}
<1>1. CASE m \in UserMessages
  BY <1>1 DEF UserMessages
<1>2. CASE m \in Answered
  BY <1>2 DEF Answered, Assistant
<1>3. CASE m \in Results
  BY <1>3 DEF Results, ToolResult
<1>4. QED
  BY <1>1, <1>2, <1>3 DEF Message

LEMMA MessageRoles ==
  /\ \A u \in Texts : User(u) \in Message /\ User(u).role = "user" /\ User(u).text = u
  /\ \A stop \in {"stop", "failed"}, calls \in Seq(CallIds) :
       /\ Assistant(stop, calls) \in Message
       /\ Assistant(stop, calls).role = "assistant"
       /\ Assistant(stop, calls).calls = calls /\ Assistant(stop, calls).stop = stop
  /\ \A c \in CallIds : /\ ToolResult(c) \in Message /\ ToolResult(c).role = "toolResult"
                        /\ ToolResult(c).call = c
  /\ FailedAnswer \in Message /\ FailedAnswer.role = "assistant"
  /\ FailedAnswer.stop = "failed" /\ FailedAnswer.calls = <<>>
  /\ \A m \in Message : Entry(m) \in Message /\ Entry(m).role = m.role
<1>1. /\ \A u : User(u).role = "user" /\ User(u).text = u
      /\ \A stop, calls : /\ Assistant(stop, calls).role = "assistant"
                          /\ Assistant(stop, calls).calls = calls
                          /\ Assistant(stop, calls).stop = stop
      /\ \A c : ToolResult(c).role = "toolResult" /\ ToolResult(c).call = c
  BY DEF User, Assistant, ToolResult
<1>2. <<>> \in Seq(CallIds)
  BY EmptySeq
<1>3. FailedAnswer \in Message
  BY <1>2 DEF FailedAnswer, Message, Answered, Assistant
<1>4. \A m \in Message : Entry(m) \in Message /\ Entry(m).role = m.role
  <2>1. Assistant("stop", <<>>) \in Message
    BY <1>2 DEF Message, Answered, Assistant
  <2>2. QED
    BY <1>1, <2>1 DEF Entry, FailedAnswer
<1>5. QED
  <2>1. /\ \A u \in Texts : User(u) \in UserMessages
        /\ \A stop \in {"stop", "failed"}, calls \in Seq(CallIds) :
             Assistant(stop, calls) \in Answered
        /\ \A c \in CallIds : ToolResult(c) \in Results
    BY DEF UserMessages, Answered, Results, User, Assistant, ToolResult
  <2>2. QED
    BY <1>1, <1>3, <1>4, <2>1 DEF Message, FailedAnswer

-----------------------------------------------------------------------------
(***************************************************************************)
(* transformMessages, message by message.                                  *)
(***************************************************************************)
Acc == [out : Seq(Message), open : Seq(CallIds), seen : SUBSET CallIds]

Start == [out |-> <<>>, open |-> <<>>, seen |-> {}]

LEMMA StartType == Start \in Acc
<1>1. <<>> \in Seq(Message) /\ <<>> \in Seq(CallIds) /\ {} \in SUBSET CallIds
  BY EmptySeq
<1>2. QED
  BY <1>1 DEF Start, Acc

LEMMA OrphansType ==
  ASSUME NEW acc \in Acc
  PROVE  /\ Orphans(acc) \in Seq(Results)
         /\ Orphans(acc) \in Seq(Message)
         /\ \A c \in Range(acc.open) \ acc.seen :
              \E i \in DOMAIN Orphans(acc) : Orphans(acc)[i] = ToolResult(c)
         /\ Range(acc.open) \subseteq acc.seen => Orphans(acc) = <<>>
<1> DEFINE T == Range(acc.open) \ acc.seen
           missing == Only(acc.open, T)
<1>1. /\ missing \in Seq(CallIds)
      /\ \A j \in DOMAIN acc.open : acc.open[j] \in T =>
           \E i \in DOMAIN missing : acc.open[j] = missing[i]
  <2>1. acc.open \in Seq(CallIds)
    BY DEF Acc
  <2>2. \A S : /\ Only(acc.open, S) \in Seq(CallIds)
               /\ \A j \in DOMAIN acc.open : acc.open[j] \in S =>
                    \E i \in DOMAIN Only(acc.open, S) : acc.open[j] = Only(acc.open, S)[i]
    BY <2>1, OnlyType
  <2>3. QED
    BY <2>2, Zenon
<1>2. Orphans(acc) = [i \in DOMAIN missing |-> ToolResult(missing[i])]
  BY DEF Orphans
<1>3. T = {} => missing = <<>>
  BY OnlyNone DEF Acc
<1> HIDE DEF missing
<1>4. Orphans(acc) = [i \in 1 .. Len(missing) |-> ToolResult(missing[i])]
  BY <1>1, <1>2
<1>5. \A i \in 1 .. Len(missing) : ToolResult(missing[i]) \in Results
  BY <1>1 DEF Results, ToolResult
<1>6. Orphans(acc) \in Seq(Results)
  BY <1>1, <1>4, <1>5
<1>7. \A c \in T : \E i \in DOMAIN Orphans(acc) : Orphans(acc)[i] = ToolResult(c)
  <2>1. ASSUME NEW c \in T PROVE \E i \in DOMAIN Orphans(acc) : Orphans(acc)[i] = ToolResult(c)
    <3>1. PICK j \in DOMAIN acc.open : acc.open[j] = c
      BY DEF Range
    <3>2. PICK i \in DOMAIN missing : c = missing[i]
      BY <1>1, <3>1
    <3>3. QED
      BY <1>2, <3>2
  <2>2. QED
    BY <2>1
<1>8. T = {} => Orphans(acc) = <<>>
  <2>1. SUFFICES ASSUME T = {} PROVE Orphans(acc) = <<>>
    OBVIOUS
  <2>2. missing = <<>>
    BY <1>3, <2>1
  <2>3. Len(Orphans(acc)) = 0
    BY <1>1, <1>4, <2>2
  <2>4. QED
    BY <1>6, <2>3
<1>9. Results \subseteq Message
  BY DEF Message
<1>10. QED
  BY <1>6, <1>7, <1>8, <1>9

LEMMA TransformOneType ==
  ASSUME NEW acc \in Acc, NEW m \in Message
  PROVE  TransformOne(acc, m) \in Acc
<1>1. Orphans(acc) \in Seq(Message) /\ <<>> \in Seq(CallIds)
  BY OrphansType, EmptySeq
<1>2. acc.out \in Seq(Message) /\ acc.open \in Seq(CallIds) /\ acc.seen \subseteq CallIds
  BY DEF Acc
<1>3. acc.out \o Orphans(acc) \in Seq(Message)
  BY <1>1, <1>2
<1>4. CASE m.role = "user"
  <2>1. TransformOne(acc, m) = [out |-> acc.out \o Orphans(acc) \o <<m>>, open |-> <<>>, seen |-> {}]
    BY <1>4 DEF TransformOne
  <2>2. acc.out \o Orphans(acc) \o <<m>> \in Seq(Message)
    BY <1>3
  <2>3. QED
    BY <1>1, <2>1, <2>2 DEF Acc
<1>5. CASE m.role = "toolResult"
  <2>1. TransformOne(acc, m) = [acc EXCEPT !.out = Append(@, m), !.seen = @ \cup {m.call}]
    BY <1>5 DEF TransformOne
  <2>2. Append(acc.out, m) \in Seq(Message) /\ m.call \in CallIds
    BY <1>2, <1>5, MessageKinds
  <2>3. QED
    BY <1>2, <2>1, <2>2 DEF Acc
<1>6. CASE m.role = "assistant"
  <2>1. TransformOne(acc, m) =
          IF m.stop = "failed"
            THEN [out |-> acc.out \o Orphans(acc), open |-> <<>>, seen |-> {}]
            ELSE [out |-> Append(acc.out \o Orphans(acc), m), open |-> m.calls, seen |-> {}]
    BY <1>6 DEF TransformOne
  <2>2. Append(acc.out \o Orphans(acc), m) \in Seq(Message) /\ m.calls \in Seq(CallIds)
    BY <1>3, <1>6, MessageKinds
  <2>3. QED
    BY <1>1, <1>3, <2>1, <2>2 DEF Acc
<1>7. QED
  BY <1>4, <1>5, <1>6, MessageKinds

\* f is the accumulator after each of the first k messages of ms.
Transforms(f, ms, k) ==
  f = [n \in 0 .. k |-> IF n = 0 THEN Start ELSE TransformOne(f[n - 1], ms[n])]

LEMMA TransformsExist ==
  ASSUME NEW ms
  PROVE  \A k \in Nat : \E f : Transforms(f, ms, k)
<1> DEFINE N == {k \in Nat : \E f : Transforms(f, ms, k)}
<1>1. 0 \in N
  <2>1. Transforms([n \in 0 .. 0 |-> Start], ms, 0)
    BY DEF Transforms
  <2>2. QED
    BY <2>1
<1>2. ASSUME NEW k \in Nat, k \in N PROVE k + 1 \in N
  <2>1. PICK f : Transforms(f, ms, k)
    BY <1>2
  <2> DEFINE x == TransformOne(f[k], ms[k + 1])
             g == [n \in 0 .. k + 1 |-> IF n = k + 1 THEN x ELSE f[n]]
  <2>2. ASSUME NEW n \in 0 .. k + 1
        PROVE  g[n] = IF n = 0 THEN Start ELSE TransformOne(g[n - 1], ms[n])
    <3>1. CASE n = k + 1
      BY <3>1
    <3>2. CASE n # k + 1
      <4>1. n \in 0 .. k /\ (n # 0 => n - 1 \in 0 .. k + 1 /\ n - 1 # k + 1)
        BY <3>2
      <4>2. f[n] = IF n = 0 THEN Start ELSE TransformOne(f[n - 1], ms[n])
        BY <2>1, <4>1 DEF Transforms
      <4>3. QED
        BY <3>2, <4>1, <4>2
    <3>3. QED
      BY <3>1, <3>2
  <2>3. Transforms(g, ms, k + 1)
    BY <2>2, Zenon DEF Transforms
  <2>4. QED
    BY <2>3
<1>3. QED
  <2> HIDE DEF N
  <2>1. \A k \in Nat : k \in N
    BY <1>1, <1>2, NatInduct
  <2>2. QED
    BY <2>1 DEF N

LEMMA TransformsAgree ==
  ASSUME NEW s, NEW t, NEW k \in Nat, \A n \in 1 .. k : s[n] = t[n],
         NEW f, Transforms(f, s, k), NEW g, Transforms(g, t, k + 1)
  PROVE  f[k] = g[k]
<1> DEFINE N == {n \in Nat : n <= k => f[n] = g[n]}
<1>1. 0 \in N
  BY DEF Transforms
<1>2. ASSUME NEW n \in Nat, n \in N PROVE n + 1 \in N
  <2>1. SUFFICES ASSUME n + 1 <= k PROVE f[n + 1] = g[n + 1]
    OBVIOUS
  <2>2. /\ n + 1 \in 0 .. k /\ n + 1 \in 0 .. k + 1 /\ n + 1 # 0
        /\ (n + 1) - 1 = n /\ n + 1 \in 1 .. k
    BY <2>1
  <2>3. f[n] = g[n] /\ s[n + 1] = t[n + 1]
    BY <1>2, <2>1, <2>2
  <2>4. f[n + 1] = TransformOne(f[n], s[n + 1])
    BY <2>2 DEF Transforms
  <2>5. g[n + 1] = TransformOne(g[n], t[n + 1])
    BY <2>2 DEF Transforms
  <2>6. QED
    BY <2>3, <2>4, <2>5
<1>3. QED
  <2> HIDE DEF N
  <2>1. k \in N
    BY <1>1, <1>2, NatInduct
  <2>2. QED
    BY <2>1 DEF N

LEMMA TransformedIs ==
  ASSUME NEW ms \in Seq(Message)
  PROVE  \E f : Transforms(f, ms, Len(ms)) /\ Transformed(ms) = f[Len(ms)]
<1>1. \E f : Transforms(f, ms, Len(ms))
  BY TransformsExist, LenProperties
<1>2. Transformed(ms) = (CHOOSE f : Transforms(f, ms, Len(ms)))[Len(ms)]
  BY DEF Transformed, Transforms, Start
<1>3. QED
  BY <1>1, <1>2

LEMMA TransformedEmpty == Transformed(<<>>) = Start
<1>1. <<>> \in Seq(Message) /\ Len(<<>>) = 0
  BY EmptySeq
<1>2. PICK f : Transforms(f, <<>>, 0) /\ Transformed(<<>>) = f[0]
  BY <1>1, TransformedIs
<1>3. QED
  BY <1>2 DEF Transforms

LEMMA TransformedAppend ==
  ASSUME NEW ms \in Seq(Message), NEW m \in Message
  PROVE  Transformed(Append(ms, m)) = TransformOne(Transformed(ms), m)
<1> DEFINE r == Append(ms, m)
           l == Len(ms)
<1>1. /\ l \in Nat /\ r \in Seq(Message) /\ Len(r) = l + 1 /\ r[l + 1] = m
      /\ \A n \in 1 .. l : ms[n] = r[n]
  BY AppendProperties, LenProperties
<1>2. PICK f : Transforms(f, ms, l) /\ Transformed(ms) = f[l]
  BY TransformedIs
<1> HIDE DEF r, l
<1>3. PICK g : Transforms(g, r, l + 1) /\ Transformed(r) = g[l + 1]
  BY <1>1, TransformedIs
<1>4. f[l] = g[l]
  BY <1>1, <1>2, <1>3, TransformsAgree
<1>5. g[l + 1] = TransformOne(g[l], r[l + 1])
  <2>1. l + 1 \in 0 .. l + 1 /\ l + 1 # 0 /\ (l + 1) - 1 = l
    BY <1>1
  <2>2. g = [n \in 0 .. l + 1 |-> IF n = 0 THEN Start ELSE TransformOne(g[n - 1], r[n])]
    BY <1>3 DEF Transforms
  <2>3. QED
    BY <2>1, <2>2
<1>6. QED
  BY <1>1, <1>2, <1>3, <1>4, <1>5 DEF r

LEMMA TransformedType ==
  ASSUME NEW ms \in Seq(Message)
  PROVE  Transformed(ms) \in Acc
<1> DEFINE S == {l \in Seq(Message) : Transformed(l) \in Acc}
<1>1. <<>> \in S
  <2>1. <<>> \in Seq(Message) /\ <<>> \in Seq(CallIds)
    BY EmptySeq
  <2>2. QED
    BY <2>1, TransformedEmpty, StartType
<1>2. ASSUME NEW l \in Seq(Message), NEW m \in Message, l \in S PROVE Append(l, m) \in S
  BY <1>2, TransformedAppend, TransformOneType
<1>3. ms \in S
  <2> HIDE DEF S
  <2>1. QED
    BY <1>1, <1>2, ListInduct
<1>4. QED
  BY <1>3

-----------------------------------------------------------------------------
(***************************************************************************)
(* Two histories that transformMessages shows alike stay alike.  A failed  *)
(* answer is where the copies of the history differ: with no call left     *)
(* open, it makes no difference.                                           *)
(***************************************************************************)
Complete(acc) == Range(acc.open) \subseteq acc.seen

Alike(a, b) ==
  /\ a.out = b.out
  /\ \/ a.open = b.open /\ a.seen = b.seen
     \/ Complete(a) /\ Complete(b)

LEMMA AlikeOrphans ==
  ASSUME NEW a \in Acc, NEW b \in Acc, Alike(a, b)
  PROVE  Orphans(a) = Orphans(b) /\ (Complete(a) <=> Complete(b))
<1>1. CASE a.open = b.open /\ a.seen = b.seen
  BY <1>1 DEF Orphans, Complete
<1>2. CASE Complete(a) /\ Complete(b)
  BY <1>2, OrphansType DEF Complete
<1>3. QED
  BY <1>1, <1>2 DEF Alike

LEMMA AlikeStep ==
  ASSUME NEW a \in Acc, NEW b \in Acc, Alike(a, b), NEW m \in Message
  PROVE  Alike(TransformOne(a, m), TransformOne(b, m))
<1>1. a.out = b.out /\ Orphans(a) = Orphans(b)
  BY AlikeOrphans DEF Alike
<1>2. CASE m.role # "toolResult"
  <2>1. TransformOne(a, m) = TransformOne(b, m)
    BY <1>1, <1>2, MessageKinds DEF TransformOne
  <2>2. QED
    BY <2>1 DEF Alike
<1>3. CASE m.role = "toolResult"
  <2>1. /\ TransformOne(a, m) = [a EXCEPT !.out = Append(@, m), !.seen = @ \cup {m.call}]
        /\ TransformOne(b, m) = [b EXCEPT !.out = Append(@, m), !.seen = @ \cup {m.call}]
    BY <1>3 DEF TransformOne
  <2>2. /\ TransformOne(a, m).out = Append(a.out, m) /\ TransformOne(a, m).open = a.open
        /\ TransformOne(a, m).seen = a.seen \cup {m.call}
        /\ TransformOne(b, m).out = Append(b.out, m) /\ TransformOne(b, m).open = b.open
        /\ TransformOne(b, m).seen = b.seen \cup {m.call}
    BY <2>1 DEF Acc
  <2>3. QED
    BY <1>1, <2>2 DEF Alike, Complete
<1>4. QED
  BY <1>2, <1>3

\* After a user message, a failed answer or one without calls, none is open.
LEMMA NoneOpen ==
  ASSUME NEW acc \in Acc, NEW m \in Message,
         m.role = "user" \/ (m.role = "assistant" /\ (m.stop = "failed" \/ m.calls = <<>>))
  PROVE  Complete(TransformOne(acc, m))
<1>1. TransformOne(acc, m).open = <<>>
  BY DEF TransformOne
<1>2. QED
  BY <1>1 DEF Complete, Range

LEMMA FailedAlike ==
  ASSUME NEW a \in Acc, NEW b \in Acc, Alike(a, b), Complete(a)
  PROVE  Alike(a, TransformOne(b, FailedAnswer))
<1>1. Complete(b) /\ Orphans(b) = <<>> /\ a.out = b.out
  BY AlikeOrphans, OrphansType DEF Alike, Complete
<1>2. TransformOne(b, FailedAnswer) = [out |-> b.out \o Orphans(b), open |-> <<>>, seen |-> {}]
  BY MessageRoles DEF TransformOne
<1>3. b.out \o <<>> = b.out
  BY ConcatEmptySeq DEF Acc
<1>4. Complete(TransformOne(b, FailedAnswer))
  BY MessageRoles, NoneOpen
<1>5. QED
  BY <1>1, <1>2, <1>3, <1>4 DEF Alike

-----------------------------------------------------------------------------
(***************************************************************************)
(* What transformMessages shows of any history: from the last answer on,   *)
(* whose calls may be open, results only; every other call is answered     *)
(* before the next user message or answer.                                 *)
(***************************************************************************)
ResultAfter(h, i, c) ==
  \E j \in i + 1 .. Len(h) :
    h[j] = ToolResult(c) /\ \A n \in i + 1 .. j : h[n].role = "toolResult"

Served(acc) ==
  \E b \in 0 .. Len(acc.out) :
    /\ \A n \in b + 1 .. Len(acc.out) : acc.out[n].role = "toolResult"
    /\ \A c \in Range(acc.open) \cap acc.seen :
         \E j \in b + 1 .. Len(acc.out) : acc.out[j] = ToolResult(c)
    /\ \A i \in 1 .. b : acc.out[i].role = "assistant" =>
         \A k \in DOMAIN acc.out[i].calls :
           \/ ResultAfter(acc.out, i, acc.out[i].calls[k])
           \/ i = b /\ acc.out[i].calls[k] \in Range(acc.open)

LEMMA ResultAfterConcat ==
  ASSUME NEW h \in Seq(Message), NEW t \in Seq(Message), NEW i \in 1 .. Len(h), NEW c,
         ResultAfter(h, i, c)
  PROVE  ResultAfter(h \o t, i, c)
<1>1. PICK j \in i + 1 .. Len(h) :
        h[j] = ToolResult(c) /\ \A n \in i + 1 .. j : h[n].role = "toolResult"
  BY DEF ResultAfter
<1>2. Len(h) \in Nat /\ Len(h \o t) >= Len(h) /\ \A n \in 1 .. Len(h) : (h \o t)[n] = h[n]
  BY ConcatProperties
<1>3. j \in i + 1 .. Len(h \o t) /\ \A n \in i + 1 .. j : n \in 1 .. Len(h)
  BY <1>1, <1>2
<1>4. QED
  BY <1>1, <1>2, <1>3 DEF ResultAfter

\* With the synthetic results, every call is answered.
LEMMA Flushed ==
  ASSUME NEW acc \in Acc, Served(acc),
         NEW h, h = acc.out \o Orphans(acc),
         NEW i \in 1 .. Len(h), h[i].role = "assistant",
         NEW k \in DOMAIN h[i].calls
  PROVE  ResultAfter(h, i, h[i].calls[k])
<1> DEFINE o == acc.out
           x == Orphans(acc)
<1>1. /\ o \in Seq(Message) /\ x \in Seq(Results) /\ x \in Seq(Message)
      /\ acc.open \in Seq(CallIds)
  BY OrphansType DEF Acc
<1>2. \A c \in Range(acc.open) \ acc.seen : \E q \in DOMAIN x : x[q] = ToolResult(c)
  BY OrphansType
<1>3. PICK b \in 0 .. Len(o) :
        /\ \A n \in b + 1 .. Len(o) : o[n].role = "toolResult"
        /\ \A c \in Range(acc.open) \cap acc.seen :
             \E j \in b + 1 .. Len(o) : o[j] = ToolResult(c)
        /\ \A p \in 1 .. b : o[p].role = "assistant" =>
             \A q \in DOMAIN o[p].calls :
               \/ ResultAfter(o, p, o[p].calls[q])
               \/ p = b /\ o[p].calls[q] \in Range(acc.open)
  BY DEF Served
<1> HIDE DEF o, x
<1>4. /\ Len(o) \in Nat /\ Len(x) \in Nat /\ Len(h) = Len(o) + Len(x)
      /\ \A n \in 1 .. Len(o) : h[n] = o[n]
      /\ \A q \in 1 .. Len(x) : h[Len(o) + q] = x[q]
  <2>1. h = o \o x
    BY DEF o, x
  <2>2. QED
    BY <1>1, <2>1
<1>5. \A q \in 1 .. Len(x) : x[q].role = "toolResult"
  <2>1. \A q \in 1 .. Len(x) : x[q] \in Results
    BY <1>1
  <2>2. QED
    BY <2>1 DEF Results
<1>6. ASSUME NEW n \in b + 1 .. Len(h) PROVE h[n].role = "toolResult"
  <2>1. CASE n <= Len(o)
    BY <1>3, <1>4, <2>1
  <2>2. CASE n > Len(o)
    <3>1. n - Len(o) \in 1 .. Len(x) /\ Len(o) + (n - Len(o)) = n
      BY <1>3, <1>4, <2>2
    <3>2. QED
      BY <1>4, <1>5, <3>1
  <2>3. QED
    BY <1>4, <2>1, <2>2
<1>7. i \in 1 .. b /\ i \in 1 .. Len(o) /\ h[i] = o[i]
  <2>1. ~ (i > b)
    <3>1. SUFFICES ASSUME i > b PROVE FALSE
      OBVIOUS
    <3>2. i \in b + 1 .. Len(h)
      BY <1>3, <1>4, <3>1
    <3>3. QED
      BY <1>6, <3>2
  <2>2. QED
    BY <1>3, <1>4, <2>1
<1>8. CASE ResultAfter(o, i, o[i].calls[k])
  <2>1. ResultAfter(o \o x, i, o[i].calls[k])
    BY <1>1, <1>7, <1>8, ResultAfterConcat
  <2>2. QED
    BY <1>7, <2>1 DEF o, x
<1>9. CASE i = b /\ o[i].calls[k] \in Range(acc.open)
  <2> DEFINE c == o[i].calls[k]
  <2>1. \E j \in b + 1 .. Len(h) : h[j] = ToolResult(c)
    <3>1. CASE c \in acc.seen
      <4>1. PICK j \in b + 1 .. Len(o) : o[j] = ToolResult(c)
        BY <1>3, <1>9, <3>1
      <4>2. j \in 1 .. Len(o) /\ j \in b + 1 .. Len(h)
        BY <1>3, <1>4
      <4>3. QED
        BY <1>4, <4>1, <4>2
    <3>2. CASE c \notin acc.seen
      <4>1. PICK q \in 1 .. Len(x) : x[q] = ToolResult(c)
        BY <1>1, <1>2, <1>9, <3>2
      <4>2. Len(o) + q \in b + 1 .. Len(h)
        BY <1>3, <1>4
      <4>3. QED
        BY <1>4, <4>1, <4>2
    <3>3. QED
      BY <3>1, <3>2
  <2>2. PICK j \in b + 1 .. Len(h) : h[j] = ToolResult(c)
    BY <2>1
  <2>3. \A n \in i + 1 .. j : n \in b + 1 .. Len(h)
    BY <1>3, <1>4, <1>9
  <2>4. QED
    BY <1>6, <1>7, <1>9, <2>2, <2>3 DEF ResultAfter
<1>10. QED
  BY <1>3, <1>7, <1>8, <1>9

LEMMA ServedStep ==
  ASSUME NEW acc \in Acc, Served(acc), NEW m \in Message
  PROVE  Served(TransformOne(acc, m))
<1> DEFINE o == acc.out
           h == acc.out \o Orphans(acc)
<1>1. /\ o \in Seq(Message) /\ h \in Seq(Message)
      /\ acc.open \in Seq(CallIds) /\ acc.seen \subseteq CallIds
  BY OrphansType DEF Acc
<1>2. \A i \in 1 .. Len(h) : h[i].role = "assistant" =>
        \A k \in DOMAIN h[i].calls : ResultAfter(h, i, h[i].calls[k])
  BY Flushed
<1>3. CASE m.role = "toolResult"
  <2> DEFINE r == TransformOne(acc, m)
             g == Append(o, m)
  <2>1. r = [acc EXCEPT !.out = Append(@, m), !.seen = @ \cup {m.call}]
    BY <1>3 DEF TransformOne
  <2>2. r.out = g /\ r.open = acc.open /\ r.seen = acc.seen \cup {m.call}
    BY <2>1 DEF Acc
  <2>3. m = ToolResult(m.call)
    BY <1>3, MessageKinds
  <2>4. PICK b \in 0 .. Len(o) :
        /\ \A n \in b + 1 .. Len(o) : o[n].role = "toolResult"
        /\ \A c \in Range(acc.open) \cap acc.seen :
             \E j \in b + 1 .. Len(o) : o[j] = ToolResult(c)
        /\ \A i \in 1 .. b : o[i].role = "assistant" =>
             \A k \in DOMAIN o[i].calls :
               \/ ResultAfter(o, i, o[i].calls[k])
               \/ i = b /\ o[i].calls[k] \in Range(acc.open)
    BY DEF Served
  <2>5. /\ Len(o) \in Nat /\ g \in Seq(Message) /\ Len(g) = Len(o) + 1 /\ g[Len(o) + 1] = m
        /\ \A n \in 1 .. Len(o) : g[n] = o[n]
    BY <1>1
  <2>6. g = o \o <<m>> /\ <<m>> \in Seq(Message)
    BY <1>1
  <2> HIDE DEF r, g, o
  <2>7. b \in 0 .. Len(g)
    BY <2>5
  <2>8. \A n \in b + 1 .. Len(g) : g[n].role = "toolResult"
    <3>1. ASSUME NEW n \in b + 1 .. Len(g) PROVE g[n].role = "toolResult"
      <4>1. CASE n = Len(g)
        BY <1>3, <2>5, <4>1
      <4>2. CASE n # Len(g)
        BY <2>4, <2>5, <4>2
      <4>3. QED
        BY <4>1, <4>2
    <3>2. QED
      BY <3>1
  <2>9. \A c \in Range(acc.open) \cap (acc.seen \cup {m.call}) :
          \E j \in b + 1 .. Len(g) : g[j] = ToolResult(c)
    <3>1. ASSUME NEW c \in Range(acc.open) \cap (acc.seen \cup {m.call})
          PROVE  \E j \in b + 1 .. Len(g) : g[j] = ToolResult(c)
      <4>1. CASE c = m.call
        BY <2>3, <2>4, <2>5, <4>1
      <4>2. CASE c \in acc.seen
        <5>1. PICK j \in b + 1 .. Len(o) : o[j] = ToolResult(c)
          BY <2>4, <3>1, <4>2
        <5>2. j \in 1 .. Len(o) /\ j \in b + 1 .. Len(g)
          BY <2>4, <2>5
        <5>3. QED
          BY <2>5, <5>1, <5>2
      <4>3. QED
        BY <3>1, <4>1, <4>2
    <3>2. QED
      BY <3>1
  <2>10. \A i \in 1 .. b : g[i].role = "assistant" =>
           \A k \in DOMAIN g[i].calls :
             \/ ResultAfter(g, i, g[i].calls[k])
             \/ i = b /\ g[i].calls[k] \in Range(acc.open)
    <3>1. ASSUME NEW i \in 1 .. b, g[i].role = "assistant", NEW k \in DOMAIN g[i].calls
          PROVE  \/ ResultAfter(g, i, g[i].calls[k])
                 \/ i = b /\ g[i].calls[k] \in Range(acc.open)
      <4>1. i \in 1 .. Len(o) /\ g[i] = o[i]
        BY <2>4, <2>5
      <4>2. CASE ResultAfter(o, i, o[i].calls[k])
        BY <1>1, <2>6, <4>1, <4>2, ResultAfterConcat
      <4>3. QED
        BY <2>4, <3>1, <4>1, <4>2
    <3>2. QED
      BY <3>1
  <2>11. Served(r)
    BY <2>2, <2>7, <2>8, <2>9, <2>10 DEF Served
  <2>12. QED
    BY <2>11 DEF r
<1>4. CASE m.role # "toolResult"
  <2> DEFINE r == TransformOne(acc, m)
  <2>1. r.seen = {}
    BY <1>4, MessageKinds DEF TransformOne
  <2>2. CASE m.role = "assistant" /\ m.stop = "failed"
    <3>1. r.out = h /\ r.open = <<>>
      BY <2>2 DEF TransformOne
    <3>2. Len(h) \in 0 .. Len(h) /\ Len(h) + 1 .. Len(h) = {}
      BY <1>1
    <3> HIDE DEF h, r
    <3>3. Served(r)
      BY <1>2, <2>1, <3>1, <3>2 DEF Served
    <3>4. QED
      BY <3>3 DEF r
  <2>3. CASE ~ (m.role = "assistant" /\ m.stop = "failed")
    <3> DEFINE g == Append(h, m)
    <3>1. /\ r.out = g
          /\ m.role = "assistant" => r.open = m.calls
      <4>1. h \o <<m>> = Append(h, m)
        BY <1>1
      <4>2. QED
        BY <1>4, <2>3, <4>1, MessageKinds DEF TransformOne
    <3>2. /\ Len(h) \in Nat /\ g \in Seq(Message) /\ Len(g) = Len(h) + 1 /\ g[Len(h) + 1] = m
          /\ \A n \in 1 .. Len(h) : g[n] = h[n]
      BY <1>1
    <3>3. g = h \o <<m>> /\ <<m>> \in Seq(Message)
      BY <1>1
    <3> HIDE DEF h, r, g
    <3>4. Len(g) \in 0 .. Len(g) /\ Len(g) + 1 .. Len(g) = {}
      BY <3>2
    <3>5. ASSUME NEW i \in 1 .. Len(g), g[i].role = "assistant", NEW k \in DOMAIN g[i].calls
          PROVE  \/ ResultAfter(g, i, g[i].calls[k])
                 \/ i = Len(g) /\ g[i].calls[k] \in Range(r.open)
      <4>1. CASE i = Len(g)
        <5>1. g[i] = m
          BY <3>2, <4>1
        <5>2. r.open = m.calls
          BY <3>1, <3>5, <5>1
        <5>3. QED
          BY <3>5, <4>1, <5>1, <5>2 DEF Range
      <4>2. CASE i # Len(g)
        <5>1. i \in 1 .. Len(h) /\ g[i] = h[i]
          BY <3>2, <4>2
        <5>2. ResultAfter(h, i, h[i].calls[k])
          BY <1>2, <3>5, <5>1
        <5>3. QED
          BY <1>1, <3>3, <5>1, <5>2, ResultAfterConcat
      <4>3. QED
        BY <4>1, <4>2
    <3>6. Served(r)
      BY <2>1, <3>1, <3>4, <3>5 DEF Served
    <3>7. QED
      BY <3>6 DEF r
  <2>4. QED
    BY <2>2, <2>3
<1>5. QED
  BY <1>3, <1>4

\* Of any history whatever.
LEMMA TransformedServed ==
  ASSUME NEW ms \in Seq(Message)
  PROVE  Served(Transformed(ms))
<1> DEFINE S == {l \in Seq(Message) : Served(Transformed(l))}
<1>1. <<>> \in S
  <2>1. <<>> \in Seq(Message) /\ Len(<<>>) = 0
    BY EmptySeq
  <2>2. 0 \in 0 .. 0 /\ 1 .. 0 = {} /\ 0 + 1 .. 0 = {}
    OBVIOUS
  <2>3. Served(Start)
    BY <2>1, <2>2 DEF Served, Start
  <2>4. QED
    BY <2>1, <2>3, TransformedEmpty
<1>2. ASSUME NEW l \in Seq(Message), NEW m \in Message, l \in S PROVE Append(l, m) \in S
  BY <1>2, TransformedAppend, TransformedType, ServedStep
<1>3. ms \in S
  <2> HIDE DEF S
  <2>1. QED
    BY <1>1, <1>2, ListInduct
<1>4. QED
  BY <1>3

-----------------------------------------------------------------------------
(***************************************************************************)
(* The queues.                                                             *)
(***************************************************************************)
LEMMA PollType ==
  ASSUME NEW S, NEW q \in Seq(S)
  PROVE  /\ Poll(q).taken \in Seq(S) /\ Poll(q).left \in Seq(S)
         /\ Poll(q).taken \o Poll(q).left = q
         /\ Poll(q).taken = <<>> => q = <<>> /\ Poll(q).left = <<>>
<1>1. CASE q = <<>>
  <2>1. Poll(q) = [taken |-> <<>>, left |-> <<>>]
    BY <1>1 DEF Poll
  <2>2. <<>> \in Seq(S) /\ <<>> \o q = q
    BY <1>1, EmptySeq, ConcatEmptySeq
  <2>3. Poll(q).taken = <<>> /\ Poll(q).left = <<>>
    BY <2>1
  <2>4. QED
    BY <1>1, <2>2, <2>3, Zenon
<1>2. CASE q # <<>> /\ OneAtATime
  <2>1. Poll(q) = [taken |-> <<Head(q)>>, left |-> Tail(q)]
    BY <1>2 DEF Poll
  <2>2. /\ Head(q) \in S /\ Tail(q) \in Seq(S) /\ <<Head(q)>> \in Seq(S)
        /\ <<Head(q)>> \o Tail(q) = q /\ <<Head(q)>> # <<>>
    BY <1>2
  <2>3. QED
    BY <2>1, <2>2
<1>3. CASE q # <<>> /\ ~OneAtATime
  <2>1. Poll(q) = [taken |-> q, left |-> <<>>]
    BY <1>3 DEF Poll
  <2>2. <<>> \in Seq(S) /\ q \o <<>> = q
    BY EmptySeq
  <2>3. QED
    BY <1>3, <2>1, <2>2
<1>4. QED
  BY <1>1, <1>2, <1>3

LEMMA UsersType ==
  ASSUME NEW us \in Seq(Texts)
  PROVE  /\ Users(us) \in Seq(UserMessages) /\ Users(us) \in Seq(Message)
         /\ Len(Users(us)) = Len(us)
         /\ \A i \in 1 .. Len(us) : Users(us)[i] = User(us[i])
<1>1. Users(us) = [i \in 1 .. Len(us) |-> User(us[i])]
  BY DEF Users
<1>2. \A i \in 1 .. Len(us) : User(us[i]) \in UserMessages /\ User(us[i]) \in Message
  BY DEF User, UserMessages, Message
<1>3. Len(us) \in Nat
  OBVIOUS
<1>4. QED
  BY <1>1, <1>2, <1>3

LEMMA UsersConcat ==
  ASSUME NEW us \in Seq(Texts), NEW vs \in Seq(Texts)
  PROVE  Users(us \o vs) = Users(us) \o Users(vs)
<1>1. us \o vs \in Seq(Texts) /\ Len(us \o vs) = Len(us) + Len(vs)
  OBVIOUS
<1>2. /\ Users(us \o vs) \in Seq(Message) /\ Len(Users(us \o vs)) = Len(us) + Len(vs)
      /\ \A i \in 1 .. Len(us) + Len(vs) : Users(us \o vs)[i] = User((us \o vs)[i])
  BY <1>1, UsersType
<1>3. /\ Users(us) \in Seq(Message) /\ Len(Users(us)) = Len(us)
      /\ Users(vs) \in Seq(Message) /\ Len(Users(vs)) = Len(vs)
      /\ \A i \in 1 .. Len(us) : Users(us)[i] = User(us[i])
      /\ \A i \in 1 .. Len(vs) : Users(vs)[i] = User(vs[i])
  BY UsersType
<1>4. Users(us) \o Users(vs) \in Seq(Message)
      /\ Len(Users(us) \o Users(vs)) = Len(us) + Len(vs)
  BY <1>3
<1>5. ASSUME NEW i \in 1 .. Len(us) + Len(vs)
      PROVE  Users(us \o vs)[i] = (Users(us) \o Users(vs))[i]
  <2>1. CASE i <= Len(us)
    <3>1. (us \o vs)[i] = us[i] /\ (Users(us) \o Users(vs))[i] = Users(us)[i]
      BY <1>3, <2>1
    <3>2. QED
      BY <1>2, <1>3, <2>1, <3>1
  <2>2. CASE i > Len(us)
    <3>1. /\ (us \o vs)[i] = vs[i - Len(us)]
          /\ (Users(us) \o Users(vs))[i] = Users(vs)[i - Len(us)]
          /\ i - Len(us) \in 1 .. Len(vs)
      BY <1>3, <2>2
    <3>2. QED
      BY <1>2, <1>3, <3>1
  <2>3. i <= Len(us) \/ i > Len(us)
    BY LenProperties
  <2>4. QED
    BY <2>1, <2>2, <2>3
<1>6. QED
  BY <1>2, <1>4, <1>5

LEMMA UsersEmpty == Users(<<>>) = <<>>
<1>1. <<>> \in Seq(Texts) /\ Len(<<>>) = 0
  BY EmptySeq
<1>2. Users(<<>>) \in Seq(Message) /\ Len(Users(<<>>)) = 0
  BY <1>1, UsersType
<1>3. QED
  BY <1>2

LEMMA UsersAppend ==
  ASSUME NEW us \in Seq(Texts), NEW u \in Texts
  PROVE  Users(Append(us, u)) = Append(Users(us), User(u))
<1>1. <<u>> \in Seq(Texts) /\ Append(us, u) = us \o <<u>>
  OBVIOUS
<1>2. Users(<<u>>) \in Seq(Message) /\ Len(Users(<<u>>)) = 1 /\ Users(<<u>>)[1] = User(u)
  BY <1>1, UsersType
<1>3. Users(<<u>>) = <<User(u)>>
  BY <1>2
<1>4. Users(us \o <<u>>) = Users(us) \o <<User(u)>>
  BY <1>1, <1>3, UsersConcat
<1>5. Users(us) \o <<User(u)>> = Append(Users(us), User(u))
  <2>1. Users(us) \in Seq(Message) /\ User(u) \in Message
    BY UsersType, MessageRoles
  <2>2. QED
    BY <2>1
<1>6. QED
  BY <1>1, <1>4, <1>5

-----------------------------------------------------------------------------
(***************************************************************************)
(* Types and phases.                                                       *)
(***************************************************************************)
TypeOK ==
  /\ isStreaming \in BOOLEAN
  /\ log \in Seq(Message) /\ stored \in Seq(Message) /\ ctx \in Seq(Message)
  /\ steering \in Seq(Steers) /\ followUp \in Seq(FollowUps)
  /\ pending \in Seq(Steers) \cup Seq(FollowUps)
  /\ phase \in {"idle", "evicted", "iterate", "model", "backoff", "tools"}
  /\ todo \in Seq(CallIds) /\ runnable \in Seq(CallIds)
  /\ results \in Seq(Results)

Phases ==
  /\ isStreaming <=> phase \in {"iterate", "model", "backoff", "tools"}
  /\ phase # "iterate" => pending = <<>>
  /\ phase # "tools" => todo = <<>> /\ runnable = <<>> /\ results = <<>>
  /\ phase = "backoff" => ctx # <<>>

\* The loop's copy of the history is shown as the agent's is.  While tools run
\* their results are in the agent's copy only, and the calls still open are
\* those not yet prepared or not yet finalized; else none is.
Copies ==
  /\ phase = "idle" => Complete(Transformed(log))
  /\ phase \in {"iterate", "model"} =>
       /\ Alike(Transformed(ctx), Transformed(log))
       /\ Complete(Transformed(ctx))
  /\ phase = "backoff" =>
       /\ Alike(Transformed(Front(ctx)), Transformed(log))
       /\ Complete(Transformed(Front(ctx)))
  /\ phase = "tools" =>
       /\ Alike(Transformed(ctx \o results), Transformed(log))
       /\ Elements(Transformed(log).open) \subseteq
            Transformed(log).seen \cup Elements(todo) \cup Elements(runnable)

\* What the session log has, or need not have.
Known == Elements(stored) \cup {FailedAnswer} \cup {User(u) : u \in FollowUps}

Kept ==
  /\ Elements(log) \subseteq Known /\ Elements(ctx) \subseteq Known
  /\ Elements(results) \subseteq Known
  /\ Elements(Users(steering)) \subseteq Known
  /\ Elements(Users(pending)) \subseteq Known

LEMMA SubTexts ==
  /\ Seq(Steers) \subseteq Seq(Texts) /\ Seq(FollowUps) \subseteq Seq(Texts)
  /\ Prompts \subseteq Texts /\ Steers \subseteq Texts /\ FollowUps \subseteq Texts
  /\ Seq(Results) \subseteq Seq(Message) /\ Seq(UserMessages) \subseteq Seq(Message)
<1>1. /\ Prompts \subseteq Texts /\ Steers \subseteq Texts /\ FollowUps \subseteq Texts
      /\ Results \subseteq Message /\ UserMessages \subseteq Message
  BY DEF Texts, Message
<1>2. QED
  BY <1>1

\* Only Discard and the actions of tools touch the tool lists.
LEMMA DiscardType ==
  ASSUME Discard
  PROVE  /\ isStreaming' = FALSE /\ ctx' = <<>> /\ pending' = <<>>
         /\ todo' = <<>> /\ runnable' = <<>> /\ results' = <<>>
         /\ \A S : <<>> \in Seq(S)
BY EmptySeq DEF Discard

LEMMA EmitType ==
  ASSUME TypeOK, NEW m \in Message, Emit(m)
  PROVE  log' \in Seq(Message) /\ stored' \in Seq(Message)
BY MessageRoles DEF Emit, TypeOK

LEMMA AfterTurnType ==
  ASSUME TypeOK, NEW more, NEW c \in Seq(Message), AfterTurn(more, c)
  PROVE  /\ steering' \in Seq(Steers) /\ followUp' \in Seq(FollowUps)
         /\ \/ /\ phase' = "iterate" /\ ctx' = c /\ results' = <<>>
               /\ pending' \in Seq(Steers) \cup Seq(FollowUps)
               /\ UNCHANGED <<isStreaming, todo, runnable>>
            \/ EndRun
<1>1. /\ Poll(steering).taken \in Seq(Steers) /\ Poll(steering).left \in Seq(Steers)
      /\ Poll(followUp).taken \in Seq(FollowUps) /\ Poll(followUp).left \in Seq(FollowUps)
  BY PollType DEF TypeOK
<1>2. followUp \in Seq(FollowUps)
  BY DEF TypeOK
<1>3. QED
  BY <1>1, <1>2 DEF AfterTurn

\* What a model may answer.
LEMMA AnswersType ==
  ASSUME TypeOK, NEW m \in Answers
  PROVE  /\ m \in Message /\ m.calls \in Seq(CallIds) /\ m.role = "assistant"
         /\ m.stop = "stop" /\ m # FailedAnswer
<1>1. PICK n \in 0 .. MaxCalls : m = Assistant("stop", [i \in 1 .. n |-> <<Len(log) + 1, i>>])
  BY DEF Answers
<1>2. n \in Nat /\ Len(log) + 1 \in Nat
  BY DEF TypeOK
<1>3. [i \in 1 .. n |-> <<Len(log) + 1, i>>] \in Seq(CallIds)
  BY <1>2 DEF CallIds
<1>4. m.stop = "stop" /\ FailedAnswer.stop = "failed"
  BY <1>1, MessageRoles DEF Assistant
<1>5. QED
  BY <1>1, <1>3, <1>4, MessageRoles

LEMMA OutcomeType ==
  ASSUME TypeOK, NEW c \in CallIds, Outcome(c)
  PROVE  /\ log' = Append(log, ToolResult(c)) /\ log' \in Seq(Message)
         /\ stored' = Append(stored, ToolResult(c)) /\ stored' \in Seq(Message)
         /\ results' = Append(results, ToolResult(c)) /\ results' \in Seq(Results)
<1>1. ToolResult(c) \in Message /\ ToolResult(c) \in Results
  BY MessageRoles DEF Results, ToolResult
<1>2. Entry(ToolResult(c)) = ToolResult(c)
  BY MessageRoles DEF Entry
<1>3. QED
  BY <1>1, <1>2 DEF Outcome, Emit, TypeOK

LEMMA FrontIs ==
  ASSUME NEW S, NEW s \in Seq(S)
  PROVE  /\ s # <<>> => Front(s) \in Seq(S)
         /\ \A x \in S : Front(Append(s, x)) = s
<1>1. s # <<>> => Front(s) \in Seq(S)
  BY DEF Front
<1>2. ASSUME NEW x \in S PROVE Front(Append(s, x)) = s
  <2>1. /\ Len(s) \in Nat /\ Append(s, x) \in Seq(S) /\ Len(Append(s, x)) = Len(s) + 1
        /\ \A i \in 1 .. Len(s) : Append(s, x)[i] = s[i]
    OBVIOUS
  <2>2. SubSeq(Append(s, x), 1, Len(s)) = s
    BY <2>1
  <2>3. QED
    BY <2>1, <2>2 DEF Front
<1>3. QED
  BY <1>1, <1>2

LEMMA StartRunType ==
  ASSUME TypeOK, Phases, phase \in {"idle", "evicted"},
         NEW base \in Seq(Message), NEW us \in Seq(Texts),
         NEW queue \in Seq(Steers), NEW poll, StartRun(base, us, queue, poll)
  PROVE  /\ phase' = "iterate" /\ isStreaming' = TRUE
         /\ log' = base \o Users(us) /\ ctx' = log' /\ log' \in Seq(Message)
         /\ steering' \in Seq(Steers) /\ pending' \in Seq(Steers)
         /\ todo' = <<>> /\ runnable' = <<>> /\ results' = <<>>
<1>1. Poll(queue).taken \in Seq(Steers) /\ Poll(queue).left \in Seq(Steers)
  BY PollType
<1>2. <<>> \in Seq(Steers)
  BY EmptySeq
<1>3. base \o Users(us) \in Seq(Message)
  BY UsersType
<1>4. todo = <<>> /\ runnable = <<>> /\ results = <<>>
  BY DEF Phases
<1>5. QED
  BY <1>1, <1>2, <1>3, <1>4 DEF StartRun

LEMMA TypeInit == Init => TypeOK /\ Phases
<1>1. User("restored") \in Message
  BY MessageRoles DEF Texts
<1>2. \A S : <<>> \in Seq(S)
  BY EmptySeq
<1>3. <<User("restored")>> \in Seq(Message)
  BY <1>1
<1>4. QED
  BY <1>2, <1>3 DEF Init, TypeOK, Phases

LEMMA TypeStep ==
  ASSUME TypeOK, Phases, [Next]_vars
  PROVE  TypeOK' /\ Phases'
<1> USE DEF loopVars
<1>0. \A S : <<>> \in Seq(S)
  BY EmptySeq
<1>1. CASE UNCHANGED vars
  BY <1>1 DEF vars, TypeOK, Phases
<1>2. ASSUME NEW u \in Prompts, handlePrompt(u) PROVE TypeOK' /\ Phases'
  <2>1. phase \in {"idle", "evicted"}
    BY <1>2 DEF handlePrompt, TypeOK, Phases
  <2>2. User(u) \in Message /\ <<u>> \in Seq(Texts)
    BY SubTexts, MessageRoles
  <2>3. stored' \in Seq(Message)
    BY <1>2, <2>2 DEF handlePrompt, TypeOK
  <2>4. /\ phase' = "iterate" /\ isStreaming' = TRUE /\ ctx' = log' /\ log' \in Seq(Message)
        /\ steering' \in Seq(Steers) /\ pending' \in Seq(Steers)
        /\ todo' = <<>> /\ runnable' = <<>> /\ results' = <<>>
    BY <1>0, <1>2, <2>1, <2>2, <2>3, StartRunType DEF handlePrompt
  <2>5. followUp' = <<>>
    BY <1>2 DEF handlePrompt
  <2>6. QED
    BY <1>0, <2>3, <2>4, <2>5 DEF TypeOK, Phases
<1>3. ASSUME NEW u \in Steers, steer(u) PROVE TypeOK' /\ Phases'
  <2>1. Append(steering, u) \in Seq(Steers) /\ Append(stored, User(u)) \in Seq(Message)
    BY SubTexts, MessageRoles DEF TypeOK
  <2>2. QED
    BY <1>3, <2>1 DEF steer, TypeOK, Phases
<1>4. ASSUME NEW u \in FollowUps, followUpWith(u) PROVE TypeOK' /\ Phases'
  <2>1. Append(followUp, u) \in Seq(FollowUps)
    BY DEF TypeOK
  <2>2. QED
    BY <1>4, <2>1 DEF followUpWith, TypeOK, Phases
<1>5. CASE abort
  BY <1>5 DEF abort, TypeOK, Phases
<1>6. CASE continue
  <2>1. phase \in {"idle", "evicted"} /\ log \in Seq(Message) /\ stored' = stored
    BY <1>6 DEF continue, TypeOK
  <2>2. /\ Poll(steering).taken \in Seq(Texts) /\ Poll(steering).left \in Seq(Steers)
        /\ Poll(followUp).taken \in Seq(Texts) /\ Poll(followUp).left \in Seq(FollowUps)
        /\ steering \in Seq(Steers) /\ followUp \in Seq(FollowUps) /\ <<>> \in Seq(Texts)
    BY <1>0, PollType, SubTexts DEF TypeOK
  <2>3. /\ \E us \in Seq(Texts), q \in Seq(Steers), poll \in BOOLEAN : StartRun(log, us, q, poll)
        /\ followUp' \in Seq(FollowUps)
    BY <1>6, <2>2 DEF continue
  <2>4. /\ phase' = "iterate" /\ isStreaming' = TRUE /\ ctx' = log' /\ log' \in Seq(Message)
        /\ steering' \in Seq(Steers) /\ pending' \in Seq(Steers)
        /\ todo' = <<>> /\ runnable' = <<>> /\ results' = <<>>
    BY <2>1, <2>3, StartRunType
  <2>5. QED
    BY <2>1, <2>3, <2>4 DEF TypeOK, Phases
<1>7. CASE evict
  BY <1>0, <1>7, DiscardType DEF evict, TypeOK, Phases
<1>8. CASE iterationLimit
  <2>1. log' \in Seq(Message) /\ stored' \in Seq(Message)
    BY <1>8, MessageRoles, EmitType DEF iterationLimit
  <2>2. QED
    BY <1>0, <1>8, <2>1, DiscardType DEF iterationLimit, EndRun, TypeOK, Phases
<1>9. CASE iterate
  <2>1. pending \in Seq(Texts)
    BY SubTexts DEF TypeOK
  <2>2. log \o Users(pending) \in Seq(Message) /\ ctx \o Users(pending) \in Seq(Message)
    BY <2>1, UsersType DEF TypeOK
  <2>3. QED
    BY <1>0, <1>9, <2>2 DEF iterate, TypeOK, Phases
<1>10. ASSUME NEW m \in Answers, streamAssistantResponse(m) PROVE TypeOK' /\ Phases'
  <2>1. m \in Message /\ m.calls \in Seq(CallIds)
    BY <1>10, AnswersType
  <2>2. log' \in Seq(Message) /\ stored' \in Seq(Message) /\ Append(ctx, m) \in Seq(Message)
    BY <1>10, <2>1, EmitType DEF streamAssistantResponse, TypeOK
  <2>3. CASE m.calls = <<>>
    <3>1. AfterTurn(FALSE, Append(ctx, m)) /\ phase = "model"
      BY <1>10, <2>3 DEF streamAssistantResponse
    <3>2. /\ steering' \in Seq(Steers) /\ followUp' \in Seq(FollowUps)
          /\ \/ /\ phase' = "iterate" /\ ctx' = Append(ctx, m) /\ results' = <<>>
                /\ pending' \in Seq(Steers) \cup Seq(FollowUps)
                /\ UNCHANGED <<isStreaming, todo, runnable>>
             \/ EndRun
      BY <2>2, <3>1, AfterTurnType
    <3>3. CASE EndRun
      BY <1>0, <2>2, <3>2, <3>3, DiscardType DEF EndRun, TypeOK, Phases
    <3>4. CASE ~EndRun
      <4>1. /\ phase' = "iterate" /\ ctx' = Append(ctx, m) /\ results' = <<>>
            /\ pending' \in Seq(Steers) \cup Seq(FollowUps)
            /\ isStreaming' = isStreaming /\ todo' = todo /\ runnable' = runnable
        BY <3>2, <3>4
      <4>2. TypeOK'
        BY <1>0, <2>2, <3>2, <4>1 DEF TypeOK
      <4>3. Phases'
        BY <3>1, <4>1 DEF Phases
      <4>4. QED
        BY <4>2, <4>3
    <3>5. QED
      BY <3>3, <3>4
  <2>4. CASE m.calls # <<>>
    BY <1>10, <2>1, <2>2, <2>4 DEF streamAssistantResponse, TypeOK, Phases
  <2>5. QED
    BY <2>3, <2>4
<1>11. ASSUME NEW b \in BOOLEAN, streamFails(b) PROVE TypeOK' /\ Phases'
  <2>1. /\ log' \in Seq(Message) /\ stored' \in Seq(Message)
        /\ Append(ctx, FailedAnswer) \in Seq(Message) /\ Append(ctx, FailedAnswer) # <<>>
    <3>1. FailedAnswer \in Message /\ ctx \in Seq(Message)
      BY MessageRoles DEF TypeOK
    <3>2. log' \in Seq(Message) /\ stored' \in Seq(Message)
      BY <1>11, <3>1, EmitType DEF streamFails
    <3>3. QED
      BY <3>1, <3>2
  <2>2. CASE EndRun
    BY <1>0, <1>11, <2>1, <2>2, DiscardType DEF streamFails, EndRun, TypeOK, Phases
  <2>3. CASE ~EndRun
    BY <1>11, <2>1, <2>3 DEF streamFails, TypeOK, Phases
  <2>4. QED
    BY <2>2, <2>3
<1>12. CASE streamThrows
  BY <1>0, <1>12, MessageRoles, DiscardType DEF streamThrows, Throw, EndRun, TypeOK, Phases
<1>13. CASE retryStream
  <2>1. ctx # <<>> => Front(ctx) \in Seq(Message)
    BY FrontIs DEF TypeOK
  <2>2. CASE EndRun
    BY <1>0, <1>13, <2>2, DiscardType DEF retryStream, EndRun, TypeOK, Phases
  <2>3. CASE ~EndRun
    BY <1>13, <2>1, <2>3 DEF retryStream, TypeOK, Phases
  <2>4. QED
    BY <2>2, <2>3
<1>14. ASSUME NEW b \in BOOLEAN, prepareToolCall(b) PROVE TypeOK' /\ Phases'
  <2>1. Head(todo) \in CallIds /\ Tail(todo) \in Seq(CallIds)
    BY <1>14 DEF prepareToolCall, TypeOK
  <2>2. CASE b
    <3>1. Outcome(Head(todo)) /\ UNCHANGED runnable
      BY <1>14, <2>2 DEF prepareToolCall
    <3>2. QED
      BY <1>14, <2>1, <3>1, OutcomeType DEF prepareToolCall, TypeOK, Phases
  <2>3. CASE ~b
    <3>1. runnable' = Append(runnable, Head(todo)) /\ UNCHANGED <<log, stored, results>>
      BY <1>14, <2>3 DEF prepareToolCall
    <3>2. QED
      BY <1>14, <2>1, <3>1 DEF prepareToolCall, TypeOK, Phases
  <2>4. QED
    BY <2>2, <2>3
<1>15. ASSUME NEW c \in Executing, executePreparedToolCall(c) PROVE TypeOK' /\ Phases'
  BY <1>15 DEF executePreparedToolCall, TypeOK, Phases
<1>16. CASE finalizeExecutedToolCall
  <2>1. Head(runnable) \in CallIds /\ Tail(runnable) \in Seq(CallIds)
    BY <1>16 DEF finalizeExecutedToolCall, TypeOK
  <2>2. QED
    BY <1>16, <2>1, OutcomeType DEF finalizeExecutedToolCall, TypeOK, Phases
<1>17. CASE afterToolCallThrows
  BY <1>0, <1>17, MessageRoles, DiscardType DEF afterToolCallThrows, Throw, EndRun, TypeOK, Phases
<1>18. CASE toolsDone
  <2>1. ctx \o results \in Seq(Message) /\ AfterTurn(TRUE, ctx \o results) /\ phase = "tools"
        /\ todo = <<>> /\ runnable = <<>>
    <3>1. results \in Seq(Message) /\ ctx \in Seq(Message)
      BY SubTexts DEF TypeOK
    <3>2. ctx \o results \in Seq(Message)
      BY <3>1
    <3>3. QED
      BY <1>18, <3>2 DEF toolsDone
  <2>2. /\ steering' \in Seq(Steers) /\ followUp' \in Seq(FollowUps)
        /\ \/ /\ phase' = "iterate" /\ ctx' = ctx \o results /\ results' = <<>>
              /\ pending' \in Seq(Steers) \cup Seq(FollowUps)
              /\ UNCHANGED <<isStreaming, todo, runnable>>
           \/ EndRun
    BY <2>1, AfterTurnType
  <2>3. CASE EndRun
    BY <1>0, <1>18, <2>2, <2>3, DiscardType DEF toolsDone, EndRun, TypeOK, Phases
  <2>4. CASE ~EndRun
    <3>1. /\ phase' = "iterate" /\ ctx' = ctx \o results /\ results' = <<>>
          /\ pending' \in Seq(Steers) \cup Seq(FollowUps)
          /\ isStreaming' = isStreaming /\ todo' = todo /\ runnable' = runnable
          /\ log' = log /\ stored' = stored
      BY <1>18, <2>2, <2>4 DEF toolsDone
    <3>2. TypeOK'
      BY <1>0, <2>1, <2>2, <3>1 DEF TypeOK
    <3>3. Phases'
      BY <2>1, <3>1 DEF Phases
    <3>4. QED
      BY <3>2, <3>3
  <2>5. QED
    BY <2>3, <2>4
<1>19. QED
  BY <1>1, <1>2, <1>3, <1>4, <1>5, <1>6, <1>7, <1>8, <1>9, <1>10, <1>11, <1>12, <1>13,
     <1>14, <1>15, <1>16, <1>17, <1>18 DEF Next, LoopStep

-----------------------------------------------------------------------------
(***************************************************************************)
(* Copies is preserved.                                                    *)
(***************************************************************************)
LEMMA RangeIsElements == \A s : Range(s) = Elements(s)
BY DEF Range, Elements

LEMMA AlikeConcat ==
  ASSUME NEW a \in Seq(Message), NEW b \in Seq(Message), NEW t \in Seq(Message),
         Alike(Transformed(a), Transformed(b))
  PROVE  Alike(Transformed(a \o t), Transformed(b \o t))
<1> DEFINE S == {l \in Seq(Message) : Alike(Transformed(a \o l), Transformed(b \o l))}
<1>1. <<>> \in S
  <2>1. a \o <<>> = a /\ b \o <<>> = b /\ <<>> \in Seq(Message)
    BY EmptySeq, ConcatEmptySeq
  <2>2. QED
    BY <2>1
<1>2. ASSUME NEW l \in Seq(Message), NEW m \in Message, l \in S PROVE Append(l, m) \in S
  <2>1. /\ a \o Append(l, m) = Append(a \o l, m) /\ b \o Append(l, m) = Append(b \o l, m)
        /\ a \o l \in Seq(Message) /\ b \o l \in Seq(Message) /\ Append(l, m) \in Seq(Message)
    OBVIOUS
  <2>2. Transformed(a \o l) \in Acc /\ Transformed(b \o l) \in Acc
    BY <2>1, TransformedType
  <2>3. Alike(Transformed(a \o l), Transformed(b \o l))
    BY <1>2
  <2>4. Alike(Transformed(Append(a \o l, m)), Transformed(Append(b \o l, m)))
    BY <2>1, <2>2, <2>3, TransformedAppend, AlikeStep
  <2>5. QED
    BY <2>1, <2>4
<1>3. t \in S
  <2> HIDE DEF S
  <2>1. QED
    BY <1>1, <1>2, ListInduct
<1>4. QED
  BY <1>3

\* A history that ends with a user message, a failed answer or one without
\* calls has none open.
LEMMA AppendComplete ==
  ASSUME NEW ms \in Seq(Message), NEW m \in Message,
         m.role = "user" \/ (m.role = "assistant" /\ (m.stop = "failed" \/ m.calls = <<>>))
  PROVE  Complete(Transformed(Append(ms, m)))
BY TransformedAppend, TransformedType, NoneOpen

LEMMA UsersComplete ==
  ASSUME NEW ms \in Seq(Message), NEW us \in Seq(Texts), Complete(Transformed(ms))
  PROVE  Complete(Transformed(ms \o Users(us)))
<1> DEFINE S == {l \in Seq(Texts) : Complete(Transformed(ms \o Users(l)))}
<1>1. <<>> \in S
  <2>1. ms \o <<>> = ms /\ <<>> \in Seq(Texts)
    BY EmptySeq, ConcatEmptySeq
  <2>2. QED
    BY <2>1, UsersEmpty
<1>2. ASSUME NEW l \in Seq(Texts), NEW u \in Texts, l \in S PROVE Append(l, u) \in S
  <2>1. Users(l) \in Seq(Message) /\ User(u) \in Message /\ User(u).role = "user"
    BY UsersType, MessageRoles
  <2>2. ms \o Append(Users(l), User(u)) = Append(ms \o Users(l), User(u))
        /\ ms \o Users(l) \in Seq(Message)
    BY <2>1
  <2>3. Complete(Transformed(Append(ms \o Users(l), User(u))))
    BY <2>1, <2>2, AppendComplete
  <2>4. Append(l, u) \in Seq(Texts)
    OBVIOUS
  <2>5. QED
    BY <2>2, <2>3, <2>4, UsersAppend
<1>3. us \in S
  <2> HIDE DEF S
  <2>1. QED
    BY <1>1, <1>2, ListInduct
<1>4. QED
  BY <1>3

LEMMA AfterTurnIs ==
  ASSUME NEW more, NEW c, AfterTurn(more, c)
  PROVE  /\ phase' \in {"iterate", "idle"}
         /\ phase' = "iterate" => ctx' = c
         /\ more => phase' = "iterate"
BY DEF AfterTurn, EndRun

LEMMA CopiesInit == Init => Copies
<1>1. SUFFICES ASSUME Init PROVE Complete(Transformed(log))
  BY DEF Init, Copies
<1>2. User("restored") \in Message /\ User("restored").role = "user" /\ <<>> \in Seq(Message)
  BY MessageRoles, EmptySeq DEF Texts
<1>3. log = Append(<<>>, User("restored"))
  <2>1. log = <<User("restored")>>
    BY <1>1 DEF Init
  <2>2. \A m \in Message : Append(<<>>, m) = <<m>>
    OBVIOUS
  <2>3. QED
    BY <1>2, <2>1, <2>2
<1>4. QED
  BY <1>2, <1>3, AppendComplete

LEMMA CopiesTools ==
  ASSUME TypeOK, Copies, phase = "tools", phase' = "tools", ctx' = ctx,
         NEW c \in CallIds, Outcome(c),
         Elements(todo) \cup Elements(runnable) = {c} \cup Elements(todo') \cup Elements(runnable')
  PROVE  Copies'
<1> DEFINE r == ToolResult(c)
           a == Transformed(ctx \o results)
           b == Transformed(log)
<1>1. /\ log' = Append(log, r) /\ results' = Append(results, r)
      /\ r \in Message /\ r.role = "toolResult" /\ r.call = c
      /\ ctx \in Seq(Message) /\ results \in Seq(Message) /\ log \in Seq(Message)
  BY OutcomeType, MessageRoles, SubTexts DEF TypeOK
<1>2. ctx \o Append(results, r) = Append(ctx \o results, r) /\ ctx \o results \in Seq(Message)
  BY <1>1
<1>3. a \in Acc /\ b \in Acc /\ Alike(a, b)
  BY <1>1, <1>2, TransformedType DEF Copies
<1>4. Elements(b.open) \subseteq b.seen \cup Elements(todo) \cup Elements(runnable)
  BY DEF Copies
<1>5. Transformed(ctx' \o results') = TransformOne(a, r) /\ Transformed(log') = TransformOne(b, r)
  BY <1>1, <1>2, TransformedAppend
<1> HIDE DEF a, b, r
<1>6. Alike(TransformOne(a, r), TransformOne(b, r))
  BY <1>1, <1>3, AlikeStep
<1>7. TransformOne(b, r).open = b.open /\ TransformOne(b, r).seen = b.seen \cup {c}
  BY <1>1, <1>3 DEF TransformOne, Acc
<1>8. Elements(b.open) \subseteq (b.seen \cup {c}) \cup Elements(todo') \cup Elements(runnable')
  BY <1>4
<1>9. QED
  BY <1>5, <1>6, <1>7, <1>8 DEF Copies

LEMMA CopiesStep ==
  ASSUME TypeOK, TypeOK', Phases, Copies, [Next]_vars
  PROVE  Copies'
<1> USE DEF loopVars
<1>0. /\ log \in Seq(Message) /\ log' \in Seq(Message) /\ ctx \in Seq(Message)
      /\ results \in Seq(Message) /\ stored' \in Seq(Message)
      /\ FailedAnswer \in Message /\ FailedAnswer.role = "assistant" /\ FailedAnswer.stop = "failed"
  BY SubTexts, MessageRoles DEF TypeOK
<1>1. CASE UNCHANGED vars
  BY <1>1 DEF vars, Copies
<1>2. ASSUME NEW u \in Prompts, handlePrompt(u) PROVE Copies'
  <2>1. phase' = "iterate" /\ ctx' = log' /\ log' = stored' \o Users(<<u>>)
    BY <1>2 DEF handlePrompt, StartRun
  <2>2. <<>> \in Seq(Texts) /\ u \in Texts /\ Append(<<>>, u) = <<u>>
    BY EmptySeq, SubTexts
  <2>3. Users(<<u>>) = Append(<<>>, User(u))
    BY <2>2, UsersAppend, UsersEmpty
  <2>4. log' = Append(stored', User(u))
    <3>1. \A m \in Message : stored' \o Append(<<>>, m) = Append(stored', m)
      BY <1>0
    <3>2. User(u) \in Message
      BY <2>2, MessageRoles
    <3>3. QED
      BY <2>1, <2>3, <3>1, <3>2
  <2>5. Complete(Transformed(log'))
    BY <1>0, <2>2, <2>4, AppendComplete, MessageRoles
  <2>6. QED
    BY <2>1, <2>5 DEF Copies, Alike
<1>3. ASSUME NEW u \in Steers, steer(u) PROVE Copies'
  BY <1>3 DEF steer, Copies
<1>4. ASSUME NEW u \in FollowUps, followUpWith(u) PROVE Copies'
  BY <1>4 DEF followUpWith, Copies
<1>5. CASE abort
  BY <1>5 DEF abort, Copies
<1>6. CASE continue
  <2>1. Complete(Transformed(log))
    BY <1>6 DEF continue, Copies
  <2>2. /\ Poll(steering).taken \in Seq(Texts) /\ Poll(followUp).taken \in Seq(Texts)
        /\ <<>> \in Seq(Texts)
    BY EmptySeq, PollType, SubTexts DEF TypeOK
  <2>3. PICK us \in Seq(Texts) : phase' = "iterate" /\ ctx' = log' /\ log' = log \o Users(us)
    BY <1>6, <2>2 DEF continue, StartRun
  <2>4. Complete(Transformed(log'))
    BY <1>0, <2>1, <2>3, UsersComplete
  <2>5. QED
    BY <2>3, <2>4 DEF Copies, Alike
<1>7. CASE evict
  BY <1>7 DEF evict, Copies
<1>8. CASE iterationLimit
  <2>1. phase' = "idle" /\ log' = Append(log, FailedAnswer)
    BY <1>8 DEF iterationLimit, EndRun, Emit
  <2>2. QED
    BY <1>0, <2>1, AppendComplete DEF Copies
<1>9. CASE iterate
  <2>1. /\ phase = "iterate" /\ phase' = "model" /\ log' = log \o Users(pending)
        /\ ctx' = ctx \o Users(pending)
    BY <1>9 DEF iterate
  <2>2. pending \in Seq(Texts)
    BY SubTexts DEF TypeOK
  <2>3. Alike(Transformed(ctx), Transformed(log)) /\ Complete(Transformed(ctx))
    BY <2>1 DEF Copies
  <2>4. Users(pending) \in Seq(Message)
    BY <2>2, UsersType
  <2>5. Alike(Transformed(ctx'), Transformed(log'))
    BY <1>0, <2>1, <2>3, <2>4, AlikeConcat
  <2>6. Complete(Transformed(ctx'))
    BY <1>0, <2>1, <2>2, <2>3, UsersComplete
  <2>7. QED
    BY <2>1, <2>5, <2>6 DEF Copies
<1>10. ASSUME NEW m \in Answers, streamAssistantResponse(m) PROVE Copies'
  <2> DEFINE c == Append(ctx, m)
  <2>1. m \in Message /\ m.calls \in Seq(CallIds) /\ m.role = "assistant" /\ m.stop = "stop"
    BY <1>10, AnswersType
  <2>2. phase = "model" /\ log' = Append(log, m)
    BY <1>10 DEF streamAssistantResponse, Emit
  <2>3. Alike(Transformed(ctx), Transformed(log))
    BY <2>2 DEF Copies
  <2>4. /\ Transformed(log') = TransformOne(Transformed(log), m)
        /\ Transformed(c) = TransformOne(Transformed(ctx), m)
    BY <1>0, <2>1, <2>2, TransformedAppend
  <2>5. Alike(Transformed(c), Transformed(log'))
    BY <1>0, <2>1, <2>3, <2>4, TransformedType, AlikeStep
  <2>6. CASE m.calls = <<>>
    <3>1. AfterTurn(FALSE, c)
      BY <1>10, <2>6 DEF streamAssistantResponse
    <3>2. Complete(Transformed(log')) /\ Complete(Transformed(c))
      BY <1>0, <2>1, <2>2, <2>6, AppendComplete
    <3>3. phase' \in {"iterate", "idle"} /\ (phase' = "iterate" => ctx' = c)
      BY <3>1, AfterTurnIs
    <3>4. QED
      BY <2>5, <3>2, <3>3 DEF Copies
  <2>7. CASE m.calls # <<>>
    <3>1. ctx' = c /\ phase' = "tools" /\ todo' = m.calls /\ results' = results
      BY <1>10, <2>7 DEF streamAssistantResponse
    <3>2. results = <<>> /\ c \o <<>> = c
      <4>1. results = <<>>
        BY <2>2 DEF Phases
      <4>2. c \in Seq(Message)
        BY <1>0, <2>1
      <4>3. QED
        BY <4>1, <4>2, ConcatEmptySeq
    <3>3. Transformed(log').open = m.calls
      BY <2>1, <2>4 DEF TransformOne
    <3>4. QED
      BY <2>5, <3>1, <3>2, <3>3 DEF Copies
  <2>8. QED
    BY <2>6, <2>7
<1>11. ASSUME NEW b \in BOOLEAN, streamFails(b) PROVE Copies'
  <2>1. phase = "model" /\ log' = Append(log, FailedAnswer)
    BY <1>11 DEF streamFails, Emit
  <2>2. Alike(Transformed(ctx), Transformed(log)) /\ Complete(Transformed(ctx))
    BY <2>1 DEF Copies
  <2>3. Alike(Transformed(ctx), Transformed(log'))
    BY <1>0, <2>1, <2>2, TransformedType, TransformedAppend, FailedAlike
  <2>4. Complete(Transformed(log'))
    BY <1>0, <2>1, AppendComplete
  <2>5. Front(Append(ctx, FailedAnswer)) = ctx
    BY <1>0, FrontIs
  <2>6. (phase' = "backoff" /\ ctx' = Append(ctx, FailedAnswer)) \/ phase' = "idle"
    BY <1>11 DEF streamFails, EndRun
  <2>7. QED
    BY <2>2, <2>3, <2>4, <2>5, <2>6 DEF Copies
<1>12. CASE streamThrows \/ afterToolCallThrows
  <2>1. phase' = "idle" /\ log' = Append(log, FailedAnswer)
    BY <1>12 DEF streamThrows, afterToolCallThrows, Throw, EndRun
  <2>2. QED
    BY <1>0, <2>1, AppendComplete DEF Copies
<1>13. CASE retryStream
  <2>1. phase = "backoff" /\ log' = log
        /\ (phase' = "idle" \/ (phase' = "model" /\ ctx' = Front(ctx)))
    BY <1>13 DEF retryStream, EndRun
  <2>2. /\ Alike(Transformed(Front(ctx)), Transformed(log))
        /\ Complete(Transformed(Front(ctx)))
    BY <2>1 DEF Copies
  <2>3. Front(ctx) \in Seq(Message)
    BY <1>0, <2>1, FrontIs DEF Phases
  <2>4. Complete(Transformed(log))
    BY <1>0, <2>2, <2>3, TransformedType, AlikeOrphans
  <2>5. QED
    BY <2>1, <2>2, <2>4 DEF Copies
<1>14. ASSUME NEW b \in BOOLEAN, prepareToolCall(b) PROVE Copies'
  <2>1. /\ phase = "tools" /\ phase' = "tools" /\ ctx' = ctx /\ todo # <<>>
        /\ todo' = Tail(todo)
    BY <1>14 DEF prepareToolCall
  <2>2. /\ todo \in Seq(CallIds) /\ runnable \in Seq(CallIds) /\ Head(todo) \in CallIds
    BY <2>1 DEF TypeOK
  <2>3. Elements(todo) = {Head(todo)} \cup Elements(todo')
    BY <2>1, <2>2, ElementsTail
  <2>4. CASE b
    <3>1. Outcome(Head(todo)) /\ runnable' = runnable
      BY <1>14, <2>4 DEF prepareToolCall
    <3>2. Elements(todo) \cup Elements(runnable)
            = {Head(todo)} \cup Elements(todo') \cup Elements(runnable')
      BY <2>3, <3>1
    <3>3. QED
      BY <2>1, <2>2, <3>1, <3>2, CopiesTools
  <2>5. CASE ~b
    <3>1. runnable' = Append(runnable, Head(todo)) /\ UNCHANGED <<log, stored, results>>
      BY <1>14, <2>5 DEF prepareToolCall
    <3>2. Elements(runnable') = Elements(runnable) \cup {Head(todo)}
      BY <2>2, <3>1, ElementsAppend
    <3>3. QED
      BY <2>1, <2>3, <3>1, <3>2 DEF Copies
  <2>6. QED
    BY <2>4, <2>5
<1>15. ASSUME NEW c \in Executing, executePreparedToolCall(c) PROVE Copies'
  BY <1>15 DEF executePreparedToolCall, Copies
<1>16. CASE finalizeExecutedToolCall
  <2>1. /\ phase = "tools" /\ phase' = "tools" /\ ctx' = ctx /\ runnable # <<>>
        /\ Outcome(Head(runnable)) /\ runnable' = Tail(runnable) /\ todo' = todo
    BY <1>16 DEF finalizeExecutedToolCall
  <2>2. runnable \in Seq(CallIds) /\ Head(runnable) \in CallIds
    BY <2>1 DEF TypeOK
  <2>3. Elements(runnable) = {Head(runnable)} \cup Elements(runnable')
    BY <2>1, <2>2, ElementsTail
  <2>4. Elements(todo) \cup Elements(runnable)
          = {Head(runnable)} \cup Elements(todo') \cup Elements(runnable')
    BY <2>1, <2>3
  <2>5. QED
    BY <2>1, <2>2, <2>4, CopiesTools
<1>17. CASE toolsDone
  <2>1. /\ phase = "tools" /\ todo = <<>> /\ runnable = <<>> /\ log' = log
        /\ AfterTurn(TRUE, ctx \o results)
    BY <1>17 DEF toolsDone
  <2>2. phase' = "iterate" /\ ctx' = ctx \o results
    BY <2>1, AfterTurnIs
  <2>3. Alike(Transformed(ctx \o results), Transformed(log))
        /\ Elements(Transformed(log).open) \subseteq
             Transformed(log).seen \cup Elements(todo) \cup Elements(runnable)
    BY <2>1 DEF Copies
  <2>4. Complete(Transformed(log))
    BY <2>1, <2>3, ElementsEmpty, RangeIsElements DEF Complete
  <2>5. ctx \o results \in Seq(Message)
    BY <1>0
  <2>6. Complete(Transformed(ctx \o results))
    BY <1>0, <2>3, <2>4, <2>5, TransformedType, AlikeOrphans
  <2>7. QED
    BY <2>1, <2>2, <2>3, <2>6 DEF Copies
<1>18. QED
  BY <1>1, <1>2, <1>3, <1>4, <1>5, <1>6, <1>7, <1>8, <1>9, <1>10, <1>11, <1>12, <1>13,
     <1>14, <1>15, <1>16, <1>17 DEF Next, LoopStep

-----------------------------------------------------------------------------
(***************************************************************************)
(* Kept is preserved.                                                      *)
(***************************************************************************)
LEMMA PollUsers ==
  ASSUME NEW S, S \subseteq Texts, NEW q \in Seq(S)
  PROVE  /\ Users(q) = Users(Poll(q).taken) \o Users(Poll(q).left)
         /\ Elements(Users(q)) =
              Elements(Users(Poll(q).taken)) \cup Elements(Users(Poll(q).left))
<1>1. /\ Poll(q).taken \in Seq(Texts) /\ Poll(q).left \in Seq(Texts)
      /\ Poll(q).taken \o Poll(q).left = q
  <2>1. /\ Poll(q).taken \in Seq(S) /\ Poll(q).left \in Seq(S)
        /\ Poll(q).taken \o Poll(q).left = q
    BY PollType
  <2>2. Seq(S) \subseteq Seq(Texts)
    OBVIOUS
  <2>3. QED
    BY <2>1, <2>2
<1>2. Users(q) = Users(Poll(q).taken) \o Users(Poll(q).left)
  BY <1>1, UsersConcat
<1>3. Users(Poll(q).taken) \in Seq(Message) /\ Users(Poll(q).left) \in Seq(Message)
  BY <1>1, UsersType
<1>4. QED
  BY <1>2, <1>3, ElementsConcat

LEMMA FollowUpsKnown ==
  ASSUME NEW q \in Seq(FollowUps)
  PROVE  Elements(Users(q)) \subseteq {User(u) : u \in FollowUps}
<1>1. Len(Users(q)) = Len(q) /\ \A i \in 1 .. Len(q) : Users(q)[i] = User(q[i])
  BY UsersType, SubTexts
<1>2. DOMAIN Users(q) = 1 .. Len(q) /\ \A i \in 1 .. Len(q) : q[i] \in FollowUps
  BY DEF Users
<1>3. QED
  BY <1>1, <1>2 DEF Elements

\* The session log only grows, and what is emitted is in it.
LEMMA KnownGrows ==
  ASSUME TypeOK
  PROVE  /\ stored' = stored => Known' = Known
         /\ \A m \in Message :
              stored' = Append(stored, m) => Known' = Known \cup {m} /\ m \in Known'
         /\ \A m \in Message : Emit(m) => Known \subseteq Known' /\ m \in Known'
<1>1. ASSUME NEW m \in Message, stored' = Append(stored, m)
      PROVE  Known' = Known \cup {m} /\ m \in Known'
  <2>1. Elements(stored') = Elements(stored) \cup {m}
    BY <1>1, ElementsAppend DEF TypeOK
  <2>2. QED
    BY <2>1 DEF Known
<1>2. ASSUME NEW m \in Message, Emit(m) PROVE Known \subseteq Known' /\ m \in Known'
  <2>1. Entry(m) \in Message /\ stored' = Append(stored, Entry(m))
    BY <1>2, MessageRoles DEF Emit
  <2>2. Elements(stored') = Elements(stored) \cup {Entry(m)}
    BY <2>1, ElementsAppend DEF TypeOK
  <2>3. Known \subseteq Known'
    BY <2>2 DEF Known
  <2>4. CASE m = FailedAnswer
    BY <2>3, <2>4 DEF Known
  <2>5. CASE m # FailedAnswer
    BY <2>2, <2>3, <2>5 DEF Entry, Known
  <2>6. QED
    BY <2>3, <2>4, <2>5
<1>3. stored' = stored => Known' = Known
  BY DEF Known
<1>4. QED
  BY <1>1, <1>2, <1>3

LEMMA KeptInit == Init => Kept
<1>1. SUFFICES ASSUME Init PROVE Kept
  OBVIOUS
<1>2. Elements(log) \subseteq Known /\ ctx = <<>> /\ results = <<>> /\ steering = <<>> /\ pending = <<>>
  BY <1>1 DEF Init, Known
<1>3. QED
  BY <1>2, UsersEmpty, ElementsEmpty DEF Kept

LEMMA KeptTurn ==
  ASSUME TypeOK, Kept, NEW more, NEW c \in Seq(Message), AfterTurn(more, c),
         Known \subseteq Known', Elements(c) \subseteq Known', pending = <<>>
  PROVE  /\ Elements(ctx') \subseteq Known' /\ Elements(results') \subseteq Known'
         /\ Elements(Users(steering')) \subseteq Known'
         /\ Elements(Users(pending')) \subseteq Known'
<1>1. Elements(Users(steering)) =
        Elements(Users(Poll(steering).taken)) \cup Elements(Users(Poll(steering).left))
  BY PollUsers, SubTexts DEF TypeOK
<1>2. Elements(Users(Poll(followUp).taken)) \subseteq Known'
  <2>1. Poll(followUp).taken \in Seq(FollowUps)
    BY PollType DEF TypeOK
  <2>2. QED
    BY <2>1, FollowUpsKnown DEF Known
<1>3. Elements(Users(steering)) \subseteq Known
  BY DEF Kept
<1>4. /\ steering' = Poll(steering).left
      /\ \/ pending' = Poll(steering).taken /\ ctx' = c /\ results' = <<>>
         \/ pending' = Poll(followUp).taken /\ ctx' = c /\ results' = <<>>
         \/ pending' = <<>> /\ ctx' = <<>> /\ results' = <<>>
  BY DEF AfterTurn, EndRun, Discard
<1>5. QED
  BY <1>1, <1>2, <1>3, <1>4, UsersEmpty, ElementsEmpty

LEMMA KeptStep ==
  ASSUME TypeOK, TypeOK', Phases, Kept, [Next]_vars
  PROVE  Kept'
<1> USE DEF loopVars
<1>0. /\ log \in Seq(Message) /\ log' \in Seq(Message) /\ ctx \in Seq(Message)
      /\ results \in Seq(Message) /\ stored \in Seq(Message)
      /\ FailedAnswer \in Message /\ FailedAnswer \in Known /\ FailedAnswer \in Known'
      /\ Elements(<<>>) = {} /\ Elements(Users(<<>>)) = {}
  BY SubTexts, MessageRoles, UsersEmpty, ElementsEmpty DEF TypeOK, Known
<1>a. /\ Elements(log) \subseteq Known /\ Elements(ctx) \subseteq Known
      /\ Elements(results) \subseteq Known /\ Elements(Users(steering)) \subseteq Known
      /\ Elements(Users(pending)) \subseteq Known
  BY DEF Kept
<1>b. Elements(Append(log, FailedAnswer)) = Elements(log) \cup {FailedAnswer}
      /\ Elements(Append(ctx, FailedAnswer)) = Elements(ctx) \cup {FailedAnswer}
  BY <1>0, ElementsAppend
<1>1. CASE UNCHANGED vars
  BY <1>1, <1>a, KnownGrows DEF vars, Kept
<1>2. ASSUME NEW u \in Prompts, handlePrompt(u) PROVE Kept'
  <2>1. /\ ctx' = log' /\ log' = stored' \o Users(<<u>>) /\ stored' = Append(stored, User(u))
        /\ steering' = <<>> /\ pending' = <<>> /\ results' = results
    BY <1>2 DEF handlePrompt, StartRun, Poll
  <2>2. /\ u \in Texts /\ <<u>> \in Seq(Texts) /\ Append(<<>>, u) = <<u>> /\ <<>> \in Seq(Texts)
    BY EmptySeq, SubTexts
  <2>3. Users(<<u>>) = Append(<<>>, User(u)) /\ User(u) \in Message
    <3>1. Users(<<u>>) = Append(<<>>, User(u))
      BY <2>2, UsersAppend, UsersEmpty
    <3>2. QED
      BY <2>2, <3>1, MessageRoles
  <2>4. Known' = Known \cup {User(u)} /\ Elements(stored') \subseteq Known'
    BY <2>1, <2>3, KnownGrows DEF Known
  <2>5. Elements(Users(<<u>>)) = {User(u)}
    <3>1. Elements(Append(<<>>, User(u))) = Elements(<<>>) \cup {User(u)}
      BY <2>3, ElementsAppend, EmptySeq
    <3>2. QED
      BY <1>0, <2>3, <3>1
  <2>6. Elements(log') = Elements(stored') \cup Elements(Users(<<u>>))
    <3>1. stored' \in Seq(Message) /\ Users(<<u>>) \in Seq(Message)
      BY <2>2, UsersType DEF TypeOK
    <3>2. QED
      BY <2>1, <3>1, ElementsConcat
  <2>7. QED
    BY <1>0, <1>a, <2>1, <2>4, <2>5, <2>6 DEF Kept
<1>3. ASSUME NEW u \in Steers, steer(u) PROVE Kept'
  <2>1. User(u) \in Message /\ Users(steering) \in Seq(Message)
        /\ Users(Append(steering, u)) = Append(Users(steering), User(u))
    BY SubTexts, MessageRoles, UsersType, UsersAppend DEF TypeOK
  <2>2. Elements(Users(Append(steering, u))) = Elements(Users(steering)) \cup {User(u)}
    BY <2>1, ElementsAppend
  <2>3. Known' = Known \cup {User(u)}
    BY <1>3, <2>1, KnownGrows DEF steer
  <2>4. QED
    BY <1>3, <1>a, <2>2, <2>3 DEF steer, Kept
<1>4. ASSUME NEW u \in FollowUps, followUpWith(u) PROVE Kept'
  BY <1>4, <1>a, KnownGrows DEF followUpWith, Kept
<1>5. CASE abort
  BY <1>5, <1>a, KnownGrows DEF abort, Kept
<1>6. CASE continue
  <2>1. Known' = Known /\ phase = "idle" /\ pending = <<>> /\ results = <<>>
    BY <1>6, KnownGrows DEF continue, Phases
  <2>2. /\ Elements(Users(steering)) =
             Elements(Users(Poll(steering).taken)) \cup Elements(Users(Poll(steering).left))
        /\ Elements(Users(Poll(followUp).taken)) \subseteq Known
        /\ Poll(steering).taken \in Seq(Texts) /\ Poll(followUp).taken \in Seq(Texts)
    <3>1. Poll(followUp).taken \in Seq(FollowUps)
      BY PollType DEF TypeOK
    <3>2. QED
      BY <3>1, PollType, PollUsers, SubTexts, FollowUpsKnown DEF TypeOK, Known
  <2>3. PICK us \in Seq(Texts) :
          /\ log' = log \o Users(us) /\ ctx' = log'
          /\ Elements(Users(us)) \subseteq Known
          /\ Elements(Users(steering')) \subseteq Known
          /\ Elements(Users(pending')) \subseteq Known
          /\ results' = results
    <3>1. <<>> \in Seq(Texts) /\ Elements(Users(<<>>)) \subseteq Known
      BY <1>0, EmptySeq
    <3>2. CASE Last(log).role # "assistant"
      BY <1>6, <1>a, <2>2, <3>1, <3>2 DEF continue, StartRun
    <3>3. CASE Last(log).role = "assistant" /\ steering # <<>>
      BY <1>6, <1>a, <2>2, <3>1, <3>3 DEF continue, StartRun
    <3>4. CASE Last(log).role = "assistant" /\ steering = <<>>
      <4>1. Poll(steering).taken = <<>> /\ Poll(steering).left = <<>>
        BY <3>4 DEF Poll
      <4>2. StartRun(log, Poll(followUp).taken, steering, TRUE)
        BY <1>6, <3>4 DEF continue
      <4>3. QED
        BY <1>a, <2>2, <3>1, <4>1, <4>2 DEF StartRun
    <3>5. QED
      BY <3>2, <3>3, <3>4
  <2>4. Elements(log') = Elements(log) \cup Elements(Users(us))
    BY <1>0, <2>3, UsersType, ElementsConcat
  <2>5. QED
    BY <1>a, <2>1, <2>3, <2>4 DEF Kept
<1>7. CASE evict
  <2>1. log' = stored /\ stored' = stored /\ ctx' = <<>> /\ results' = <<>>
        /\ steering' = <<>> /\ pending' = <<>>
    BY <1>7 DEF evict, Discard
  <2>2. QED
    BY <1>0, <2>1 DEF Kept, Known
<1>8. CASE iterationLimit
  <2>1. Emit(FailedAnswer) /\ ctx' = <<>> /\ results' = <<>> /\ pending' = <<>> /\ steering' = steering
    BY <1>8 DEF iterationLimit, EndRun, Discard
  <2>2. Known \subseteq Known'
    BY <1>0, <2>1, KnownGrows
  <2>3. log' = Append(log, FailedAnswer)
    BY <2>1 DEF Emit
  <2>4. QED
    BY <1>0, <1>a, <1>b, <2>1, <2>2, <2>3 DEF Kept
<1>9. CASE iterate
  <2>1. /\ log' = log \o Users(pending) /\ ctx' = ctx \o Users(pending) /\ stored' = stored
        /\ pending' = <<>> /\ UNCHANGED <<steering, results>>
    BY <1>9 DEF iterate
  <2>2. Users(pending) \in Seq(Message)
    BY SubTexts, UsersType DEF TypeOK
  <2>3. /\ Elements(log') = Elements(log) \cup Elements(Users(pending))
        /\ Elements(ctx') = Elements(ctx) \cup Elements(Users(pending))
    BY <1>0, <2>1, <2>2, ElementsConcat
  <2>4. Known' = Known
    BY <2>1, KnownGrows
  <2>5. QED
    BY <1>0, <1>a, <2>1, <2>3, <2>4 DEF Kept
<1>10. ASSUME NEW m \in Answers, streamAssistantResponse(m) PROVE Kept'
  <2>1. m \in Message /\ Emit(m) /\ phase = "model"
    BY <1>10, AnswersType DEF streamAssistantResponse
  <2>2. Known \subseteq Known' /\ m \in Known'
    BY <2>1, KnownGrows
  <2>3. /\ Elements(Append(log, m)) = Elements(log) \cup {m}
        /\ Elements(Append(ctx, m)) = Elements(ctx) \cup {m} /\ Append(ctx, m) \in Seq(Message)
    BY <1>0, <2>1, ElementsAppend
  <2>4. log' = Append(log, m)
    BY <2>1 DEF Emit
  <2>5. pending = <<>>
    BY <2>1 DEF Phases
  <2>6. CASE m.calls = <<>>
    <3>1. AfterTurn(FALSE, Append(ctx, m))
      BY <1>10, <2>6 DEF streamAssistantResponse
    <3>2. Elements(Append(ctx, m)) \subseteq Known'
      BY <1>a, <2>2, <2>3
    <3>3. QED
      BY <1>a, <2>2, <2>3, <2>4, <2>5, <3>1, <3>2, KeptTurn DEF Kept
  <2>7. CASE m.calls # <<>>
    <3>1. ctx' = Append(ctx, m) /\ UNCHANGED <<steering, pending, results>>
      BY <1>10, <2>7 DEF streamAssistantResponse
    <3>2. QED
      BY <1>a, <2>2, <2>3, <2>4, <3>1 DEF Kept
  <2>8. QED
    BY <2>6, <2>7
<1>11. ASSUME NEW b \in BOOLEAN, streamFails(b) PROVE Kept'
  <2>1. Emit(FailedAnswer) /\ steering' = steering
    BY <1>11 DEF streamFails
  <2>2. Known \subseteq Known' /\ log' = Append(log, FailedAnswer)
    BY <1>0, <2>1, KnownGrows DEF Emit
  <2>3. \/ ctx' = Append(ctx, FailedAnswer) /\ pending' = pending /\ results' = results
        \/ ctx' = <<>> /\ pending' = <<>> /\ results' = <<>>
    BY <1>11 DEF streamFails, EndRun, Discard
  <2>4. QED
    BY <1>0, <1>a, <1>b, <2>1, <2>2, <2>3 DEF Kept
<1>12. CASE streamThrows \/ afterToolCallThrows
  <2>1. /\ log' = Append(log, FailedAnswer) /\ stored' = stored /\ steering' = steering
        /\ ctx' = <<>> /\ pending' = <<>> /\ results' = <<>>
    BY <1>12 DEF streamThrows, afterToolCallThrows, Throw, EndRun, Discard
  <2>2. QED
    BY <1>0, <1>a, <1>b, <2>1, KnownGrows DEF Kept
<1>13. CASE retryStream
  <2>1. UNCHANGED <<log, stored, steering>> /\ phase = "backoff"
    BY <1>13 DEF retryStream
  <2>2. \/ ctx' = Front(ctx) /\ pending' = pending /\ results' = results
        \/ ctx' = <<>> /\ pending' = <<>> /\ results' = <<>>
    BY <1>13 DEF retryStream, EndRun, Discard
  <2>3. Elements(Front(ctx)) \subseteq Elements(ctx)
    <3>1. ctx # <<>>
      BY <2>1 DEF Phases
    <3>2. /\ DOMAIN Front(ctx) \subseteq DOMAIN ctx
          /\ \A i \in DOMAIN Front(ctx) : Front(ctx)[i] = ctx[i]
      BY <1>0, <3>1 DEF Front
    <3>3. QED
      BY <3>2 DEF Elements
  <2>4. QED
    BY <1>0, <1>a, <2>1, <2>2, <2>3, KnownGrows DEF Kept
<1>14. ASSUME NEW c \in CallIds, Outcome(c), UNCHANGED <<ctx, steering, pending>> PROVE Kept'
  <2> DEFINE r == ToolResult(c)
  <2>1. /\ log' = Append(log, r) /\ stored' = Append(stored, r) /\ results' = Append(results, r)
        /\ r \in Message
    BY <1>14, OutcomeType, MessageRoles
  <2>2. Known' = Known \cup {r}
    BY <2>1, KnownGrows
  <2>3. /\ Elements(Append(log, r)) = Elements(log) \cup {r}
        /\ Elements(Append(results, r)) = Elements(results) \cup {r}
    BY <1>0, <2>1, ElementsAppend
  <2>4. QED
    BY <1>14, <1>a, <2>1, <2>2, <2>3 DEF Kept
<1>15. ASSUME NEW b \in BOOLEAN, prepareToolCall(b) PROVE Kept'
  <2>1. Head(todo) \in CallIds /\ UNCHANGED <<ctx, steering, pending>>
    BY <1>15 DEF prepareToolCall, TypeOK
  <2>2. Outcome(Head(todo)) \/ UNCHANGED <<log, stored, results>>
    BY <1>15 DEF prepareToolCall
  <2>3. QED
    BY <1>14, <1>a, <2>1, <2>2, KnownGrows DEF Kept
<1>16. ASSUME NEW c \in Executing, executePreparedToolCall(c) PROVE Kept'
  BY <1>16, <1>a, KnownGrows DEF executePreparedToolCall, Kept
<1>17. CASE finalizeExecutedToolCall
  <2>1. /\ Head(runnable) \in CallIds /\ UNCHANGED <<ctx, steering, pending>>
        /\ Outcome(Head(runnable))
    BY <1>17 DEF finalizeExecutedToolCall, TypeOK
  <2>2. QED
    BY <1>14, <2>1
<1>18. CASE toolsDone
  <2>1. /\ AfterTurn(TRUE, ctx \o results) /\ UNCHANGED <<log, stored>> /\ phase = "tools"
    BY <1>18 DEF toolsDone
  <2>2. ctx \o results \in Seq(Message) /\ Elements(ctx \o results) = Elements(ctx) \cup Elements(results)
    BY <1>0, ElementsConcat
  <2>3. Known' = Known /\ pending = <<>>
    BY <2>1, KnownGrows DEF Phases
  <2>4. Elements(ctx \o results) \subseteq Known'
    BY <1>a, <2>2, <2>3
  <2>5. QED
    BY <1>a, <2>1, <2>2, <2>3, <2>4, KeptTurn DEF Kept
<1>19. QED
  BY <1>1, <1>2, <1>3, <1>4, <1>5, <1>6, <1>7, <1>8, <1>9, <1>10, <1>11, <1>12, <1>13,
     <1>15, <1>16, <1>17, <1>18 DEF Next, LoopStep

-----------------------------------------------------------------------------
(***************************************************************************)
(* Steering.  Each step of the loop posts, reads or drops letters, or      *)
(* changes nothing of the mailbox.                                         *)
(***************************************************************************)
Posted == Only(stored, Letters)
Inbox == Only(Users(pending), Letters) \o Users(steering)
Heard == Only(log, Letters)

LEMMA OnlyUsers ==
  /\ \A us \in Seq(Steers) : Users(us) \in Seq(Letters) /\ Only(Users(us), Letters) = Users(us)
  /\ \A us \in Seq(FollowUps) : Only(Users(us), Letters) = <<>>
<1>1. ASSUME NEW us \in Seq(Steers)
      PROVE  Users(us) \in Seq(Letters) /\ Only(Users(us), Letters) = Users(us)
  <2>1. /\ Users(us) \in Seq(Message) /\ Len(Users(us)) = Len(us)
        /\ \A i \in 1 .. Len(us) : Users(us)[i] = User(us[i])
    BY UsersType, SubTexts
  <2>2. Users(us) \in Seq(Letters)
    BY <2>1 DEF Letters
  <2>3. QED
    BY <2>2, OnlyAll
<1>2. ASSUME NEW us \in Seq(FollowUps) PROVE Only(Users(us), Letters) = <<>>
  <2> DEFINE M == {User(u) : u \in FollowUps}
  <2>1. /\ Users(us) \in Seq(Message) /\ Len(Users(us)) = Len(us)
        /\ \A i \in 1 .. Len(us) : Users(us)[i] = User(us[i])
    BY UsersType, SubTexts
  <2>2. Users(us) \in Seq(M)
    BY <2>1
  <2>3. M \cap Letters = {}
    BY SteersDiffer DEF Letters, User
  <2>4. QED
    BY <2>2, <2>3, OnlyNone
<1>3. QED
  BY <1>1, <1>2

\* What is not a letter.
LEMMA NoLetter ==
  /\ \A m \in Message : m.role # "user" => m \notin Letters /\ Entry(m) \notin Letters
  /\ \A u \in Prompts \cup FollowUps \cup {"restored"} : User(u) \notin Letters
  /\ FailedAnswer \in Message /\ FailedAnswer \notin Letters /\ Entry(FailedAnswer) \notin Letters
<1>1. \A m \in Letters : m.role = "user"
  BY DEF Letters, User
<1>2. \A m \in Message : Entry(m).role = m.role
  BY MessageRoles
<1>3. \A u \in Prompts \cup FollowUps \cup {"restored"} : User(u) \notin Letters
  BY SteersDiffer DEF Letters, User
<1>4. FailedAnswer \in Message /\ FailedAnswer.role = "assistant"
  BY MessageRoles
<1>5. QED
  BY <1>1, <1>2, <1>3, <1>4

LEMMA EmitNoLetter ==
  ASSUME TypeOK, NEW m \in Message, m.role # "user", Emit(m)
  PROVE  Posted' = Posted /\ Heard' = Heard
<1>1. Entry(m) \in Message /\ m \notin Letters /\ Entry(m) \notin Letters
  BY NoLetter, MessageRoles
<1>2. Only(Append(log, m), Letters) = Only(log, Letters)
  BY <1>1, OnlyAppend DEF TypeOK
<1>3. Only(Append(stored, Entry(m)), Letters) = Only(stored, Letters)
  BY <1>1, OnlyAppend DEF TypeOK
<1>4. QED
  BY <1>2, <1>3 DEF Emit, Posted, Heard

LEMMA ThrowHeard ==
  ASSUME TypeOK, log' = Append(log, FailedAnswer)
  PROVE  Heard' = Heard
BY NoLetter, OnlyAppend DEF TypeOK, Heard

LEMMA InboxType ==
  ASSUME TypeOK
  PROVE  /\ Inbox \in Seq(Letters)
         /\ pending = <<>> => Inbox = Users(steering)
<1>1. Users(steering) \in Seq(Letters)
  BY OnlyUsers DEF TypeOK
<1>2. Only(Users(pending), Letters) \in Seq(Letters)
  <2>1. Users(pending) \in Seq(Message)
    BY UsersType, SubTexts DEF TypeOK
  <2>2. QED
    BY <2>1, OnlyType
<1>3. pending = <<>> => Inbox = Users(steering)
  BY <1>1, UsersEmpty, OnlyEmpty, ConcatEmptySeq DEF Inbox
<1>4. QED
  BY <1>1, <1>2, <1>3 DEF Inbox

\* Letters are taken from the front of the inbox.
LEMMA TakeFront ==
  ASSUME NEW a \in Seq(Letters), NEW b \in Seq(Letters), Inbox = a \o b
  PROVE  \E n \in 0 .. Len(Inbox) : Mailbox!Prefix(n) = a /\ Mailbox!Rest(n) = b
<1>1. /\ Len(a) \in 0 .. Len(Inbox)
      /\ SubSeq(Inbox, 1, Len(a)) = a /\ SubSeq(Inbox, Len(a) + 1, Len(Inbox)) = b
  BY ConcatSplit
<1>2. QED
  BY <1>1 DEF Mailbox!Prefix, Mailbox!Rest, Inbox

\* With none taken.
LEMMA TakeNone ==
  ASSUME TypeOK
  PROVE  \E n \in 0 .. Len(Inbox) : Mailbox!Prefix(n) = <<>> /\ Mailbox!Rest(n) = Inbox
<1>1. <<>> \in Seq(Letters) /\ Inbox \in Seq(Letters) /\ Inbox = <<>> \o Inbox
  BY InboxType, EmptySeq, ConcatEmptySeq
<1>2. QED
  BY <1>1, TakeFront

LEMMA MailboxOpen ==
  ASSUME NEW n \in 0 .. Len(Inbox), ~isStreaming, isStreaming' = TRUE, Posted' = Posted,
         Heard' = Heard \o Mailbox!Prefix(n), Inbox' = Mailbox!Rest(n)
  PROVE  Mailbox!Next
BY DEF Mailbox!Next, Mailbox!Open, Posted, Heard, Inbox

LEMMA MailboxRead ==
  ASSUME NEW n \in 0 .. Len(Inbox), isStreaming, UNCHANGED isStreaming, Posted' = Posted,
         Heard' = Heard \o Mailbox!Prefix(n), Inbox' = Mailbox!Rest(n)
  PROVE  Mailbox!Next
BY DEF Mailbox!Next, Mailbox!Read, Posted, Heard, Inbox

LEMMA MailboxClose ==
  ASSUME NEW n \in 0 .. Len(Inbox), isStreaming, isStreaming' = FALSE, Posted' = Posted,
         Heard' = Heard, Inbox' = Mailbox!Rest(n)
  PROVE  Mailbox!Next
BY DEF Mailbox!Next, Mailbox!Close, Posted, Heard, Inbox

LEMMA MailboxReplace ==
  ASSUME isStreaming' \in BOOLEAN, Posted' = Posted, Heard' = Posted, Inbox' = <<>>
  PROVE  Mailbox!Next
BY DEF Mailbox!Next, Mailbox!Replace, Posted, Heard, Inbox

LEMMA MailboxSame ==
  ASSUME UNCHANGED isStreaming, Posted' = Posted, Heard' = Heard, Inbox' = Inbox
  PROVE  [Mailbox!Next]_(Mailbox!vars)
BY DEF Mailbox!vars, Posted, Heard, Inbox

\* A run that ends with what is left of the steering queue.
LEMMA MailboxEnd ==
  ASSUME TypeOK, TypeOK', Phases, isStreaming, Discard, UNCHANGED steering,
         Posted' = Posted, Heard' = Heard
  PROVE  Mailbox!Next
<1>1. isStreaming' = FALSE /\ pending' = <<>>
  BY DEF Discard
<1>2. Inbox' = Users(steering)
  BY <1>1, InboxType, UsersEmpty, OnlyEmpty, ConcatEmptySeq, OnlyUsers DEF Inbox, TypeOK
<1>3. Users(steering) \in Seq(Letters) /\ Only(Users(pending), Letters) \in Seq(Letters)
  BY OnlyUsers, OnlyType, UsersType, SubTexts DEF TypeOK
<1>4. PICK n \in 0 .. Len(Inbox) : Mailbox!Rest(n) = Users(steering)
  BY <1>3, TakeFront DEF Inbox
<1>5. QED
  BY <1>1, <1>2, <1>4, MailboxClose

LEMMA MailboxTurn ==
  ASSUME TypeOK, TypeOK', Phases, isStreaming, pending = <<>>, NEW more, NEW c,
         AfterTurn(more, c), Posted' = Posted, Heard' = Heard
  PROVE  [Mailbox!Next]_(Mailbox!vars)
<1>1. /\ Poll(steering).taken \in Seq(Steers) /\ Poll(steering).left \in Seq(Steers)
      /\ Users(steering) = Users(Poll(steering).taken) \o Users(Poll(steering).left)
      /\ Poll(steering).taken = <<>> => steering = <<>> /\ Poll(steering).left = <<>>
      /\ Poll(followUp).taken \in Seq(FollowUps)
  BY PollType, PollUsers, SubTexts DEF TypeOK
<1>2. Inbox = Users(steering)
  BY InboxType
<1>3. CASE EndRun
  <2>1. Poll(steering).taken = <<>> \/ pending' = Poll(steering).taken
        \/ pending' = Poll(followUp).taken
    BY DEF AfterTurn
  <2>2. phase' = "idle" /\ Discard /\ steering' = Poll(steering).left
    BY <1>3 DEF EndRun, AfterTurn
  <2>3. Poll(steering).taken = <<>>
    BY <2>2 DEF AfterTurn
  <2>4. UNCHANGED steering
    BY <1>1, <2>2, <2>3
  <2>5. QED
    BY <2>2, <2>4, MailboxEnd
<1>4. CASE ~EndRun
  <2>1. /\ steering' = Poll(steering).left /\ isStreaming' = isStreaming
        /\ \/ pending' = Poll(steering).taken
           \/ Poll(steering).taken = <<>> /\ pending' = Poll(followUp).taken
    BY <1>4 DEF AfterTurn
  <2>2. Inbox' = Users(steering)
    <3>1. Users(steering') \in Seq(Letters)
      BY <1>1, <2>1, OnlyUsers
    <3>2. CASE pending' = Poll(steering).taken
      BY <1>1, <2>1, <3>2, OnlyUsers DEF Inbox
    <3>3. CASE Poll(steering).taken = <<>> /\ pending' = Poll(followUp).taken
      <4>1. Only(Users(pending'), Letters) = <<>>
        BY <1>1, <3>3, OnlyUsers
      <4>2. Users(steering') = Users(steering)
        BY <1>1, <2>1, <3>3
      <4>3. QED
        BY <3>1, <4>1, <4>2, ConcatEmptySeq DEF Inbox
    <3>4. QED
      BY <2>1, <3>2, <3>3
  <2>3. QED
    BY <1>2, <2>1, <2>2, MailboxSame
<1>5. QED
  BY <1>3, <1>4

LEMMA MailboxContinue ==
  ASSUME TypeOK, TypeOK', Phases, continue
  PROVE  Mailbox!Next
<1>1. /\ ~isStreaming /\ isStreaming' = TRUE /\ pending = <<>>
      /\ Inbox = Users(steering) /\ Posted' = Posted /\ log \in Seq(Message)
  BY InboxType DEF continue, StartRun, Phases, Posted, TypeOK
<1>2. /\ Poll(steering).taken \in Seq(Steers) /\ Poll(steering).left \in Seq(Steers)
      /\ Users(steering) = Users(Poll(steering).taken) \o Users(Poll(steering).left)
      /\ Poll(followUp).taken \in Seq(FollowUps)
  BY PollType, PollUsers, SubTexts DEF TypeOK
<1>3. /\ Users(Poll(steering).taken) \in Seq(Letters) /\ Users(Poll(steering).left) \in Seq(Letters)
      /\ Only(Users(Poll(steering).taken), Letters) = Users(Poll(steering).taken)
      /\ Only(Users(Poll(followUp).taken), Letters) = <<>>
      /\ Users(steering) \in Seq(Letters)
  BY <1>2, OnlyUsers DEF TypeOK
<1>4. /\ Only(log, Letters) \in Seq(Letters) /\ Users(<<>>) = <<>> /\ Only(<<>>, Letters) = <<>>
      /\ \A t \in Seq(Message) : Only(log \o t, Letters) = Only(log, Letters) \o Only(t, Letters)
  BY <1>1, OnlyType, OnlyConcat, UsersEmpty, OnlyEmpty
<1>5. /\ Users(Poll(steering).taken) \in Seq(Message) /\ Users(Poll(followUp).taken) \in Seq(Message)
  BY <1>2, UsersType, SubTexts
<1>6. \A l \in Seq(Letters) : l \o <<>> = l /\ <<>> \o l = l
  BY ConcatEmptySeq
<1>7. PICK z \in 0 .. Len(Inbox) : Mailbox!Prefix(z) = <<>> /\ Mailbox!Rest(z) = Inbox
  BY TakeNone
<1>8. CASE Last(log).role # "assistant"
  <2>1. StartRun(log, <<>>, steering, TRUE)
    BY <1>8 DEF continue
  <2>2. log' = log \o <<>> /\ pending' = Poll(steering).taken /\ steering' = Poll(steering).left
    BY <1>4, <2>1 DEF StartRun
  <2>3. Heard' = Heard
    BY <1>1, <2>2, ConcatEmptySeq DEF Heard
  <2>4. Inbox' = Inbox
    BY <1>1, <1>2, <1>3, <2>2 DEF Inbox
  <2>5. Heard' = Heard \o Mailbox!Prefix(z)
    BY <1>4, <1>6, <1>7, <2>3 DEF Heard
  <2>6. QED
    BY <1>1, <1>7, <2>4, <2>5, MailboxOpen
<1>9. CASE Last(log).role = "assistant" /\ steering # <<>>
  <2>1. StartRun(log, Poll(steering).taken, Poll(steering).left, FALSE)
    BY <1>9 DEF continue
  <2>2. /\ log' = log \o Users(Poll(steering).taken) /\ pending' = <<>>
        /\ steering' = Poll(steering).left
    BY <2>1 DEF StartRun
  <2>3. PICK n \in 0 .. Len(Inbox) :
          /\ Mailbox!Prefix(n) = Users(Poll(steering).taken)
          /\ Mailbox!Rest(n) = Users(Poll(steering).left)
    BY <1>1, <1>2, <1>3, TakeFront
  <2>4. Heard' = Heard \o Mailbox!Prefix(n)
    BY <1>3, <1>4, <1>5, <2>2, <2>3 DEF Heard
  <2>5. Inbox' = Mailbox!Rest(n)
    BY <1>3, <1>4, <1>6, <2>2, <2>3 DEF Inbox
  <2>6. QED
    BY <1>1, <2>4, <2>5, MailboxOpen
<1>10. CASE Last(log).role = "assistant" /\ steering = <<>>
  <2>1. StartRun(log, Poll(followUp).taken, steering, TRUE)
    BY <1>10 DEF continue
  <2>2. Poll(steering).taken = <<>> /\ Poll(steering).left = <<>>
    BY <1>10 DEF Poll
  <2>3. log' = log \o Users(Poll(followUp).taken) /\ pending' = <<>> /\ steering' = steering
    BY <1>10, <2>1, <2>2 DEF StartRun
  <2>4. Heard' = Heard \o Mailbox!Prefix(z)
    BY <1>3, <1>4, <1>5, <1>7, <2>3 DEF Heard
  <2>5. Inbox' = Inbox
    BY <1>1, <1>3, <1>4, <1>6, <2>3 DEF Inbox
  <2>6. QED
    BY <1>1, <1>7, <2>4, <2>5, MailboxOpen
<1>11. QED
  BY <1>8, <1>9, <1>10

LEMMA MailboxStep ==
  ASSUME TypeOK, TypeOK', Phases, [Next]_vars
  PROVE  [Mailbox!Next]_(Mailbox!vars)
<1> USE DEF loopVars
<1>0. log \in Seq(Message) /\ stored \in Seq(Message)
  BY DEF TypeOK
<1>1. ASSUME UNCHANGED <<isStreaming, log, stored, steering, pending>>
      PROVE  [Mailbox!Next]_(Mailbox!vars)
  BY <1>1, MailboxSame DEF Posted, Heard, Inbox
<1>2. CASE UNCHANGED vars
  BY <1>1, <1>2 DEF vars
<1>3. ASSUME NEW u \in Prompts, handlePrompt(u) PROVE [Mailbox!Next]_(Mailbox!vars)
  <2>1. /\ isStreaming' = TRUE /\ stored' = Append(stored, User(u))
        /\ log' = stored' \o Users(<<u>>) /\ steering' = <<>> /\ pending' = <<>>
    BY <1>3 DEF handlePrompt, StartRun, Poll
  <2>2. u \in Texts /\ <<u>> \in Seq(Texts) /\ User(u) \in Message /\ User(u) \notin Letters
    BY SubTexts, MessageRoles, NoLetter
  <2>3. Only(stored', Letters) = Only(stored, Letters) /\ stored' \in Seq(Message)
    BY <1>0, <2>1, <2>2, OnlyAppend
  <2>4. Users(<<u>>) \in Seq(Message) /\ Only(Users(<<u>>), Letters) = <<>>
    <3>1. Users(<<u>>) \in Seq(Message)
      BY <2>2, UsersType
    <3>2. /\ Append(<<>>, u) = <<u>>
          /\ Users(Append(<<>>, u)) = Append(<<>>, User(u))
      <4>1. Append(<<>>, u) = <<u>> /\ <<>> \in Seq(Texts)
        OBVIOUS
      <4>2. \A us \in Seq(Texts) : Users(Append(us, u)) = Append(Users(us), User(u))
        BY <2>2, UsersAppend
      <4>3. QED
        BY <4>1, <4>2, UsersEmpty
    <3>3. \A s \in Seq(Message) : Only(Append(s, User(u)), Letters) = Only(s, Letters)
      BY <2>2, OnlyAppend
    <3>4. <<>> \in Seq(Message)
      OBVIOUS
    <3>5. Only(Append(<<>>, User(u)), Letters) = <<>>
      BY <3>3, <3>4, OnlyEmpty
    <3>6. QED
      BY <3>1, <3>2, <3>5
  <2>5. Only(log', Letters) = Only(stored', Letters)
    <3>1. \A t \in Seq(Message) :
            Only(stored' \o t, Letters) = Only(stored', Letters) \o Only(t, Letters)
      BY <2>3, OnlyConcat
    <3>2. Only(log', Letters) = Only(stored', Letters) \o <<>>
      BY <2>1, <2>4, <3>1
    <3>3. Only(stored', Letters) \in Seq(Message)
      BY <2>3, OnlyType
    <3>4. QED
      BY <3>2, <3>3, ConcatEmptySeq
  <2>6. Inbox' = <<>>
    BY <2>1, UsersEmpty, OnlyEmpty, ConcatEmptySeq, EmptySeq DEF Inbox
  <2>7. QED
    BY <2>1, <2>3, <2>5, <2>6, MailboxReplace DEF Posted, Heard
<1>4. ASSUME NEW u \in Steers, steer(u) PROVE [Mailbox!Next]_(Mailbox!vars)
  <2>1. /\ stored' = Append(stored, User(u)) /\ steering' = Append(steering, u)
        /\ UNCHANGED <<isStreaming, log, pending>>
    BY <1>4 DEF steer
  <2>2. User(u) \in Message /\ User(u) \in Letters
    BY SubTexts, MessageRoles DEF Letters
  <2>3. Posted' = Append(Posted, User(u))
    BY <1>0, <2>1, <2>2, OnlyAppend DEF Posted
  <2>4. Users(steering') = Append(Users(steering), User(u)) /\ Users(steering) \in Seq(Letters)
    BY <2>1, UsersAppend, SubTexts, OnlyUsers DEF TypeOK
  <2>5. Only(Users(pending), Letters) \in Seq(Letters)
    BY OnlyType, UsersType, SubTexts DEF TypeOK
  <2>6. Inbox' = Append(Inbox, User(u))
    <3>1. Inbox' = Only(Users(pending), Letters) \o Append(Users(steering), User(u))
      BY <2>1, <2>4 DEF Inbox
    <3>2. Only(Users(pending), Letters) \o Append(Users(steering), User(u))
            = Append(Only(Users(pending), Letters) \o Users(steering), User(u))
      BY <2>2, <2>4, <2>5
    <3>3. QED
      BY <3>1, <3>2 DEF Inbox
  <2>7. Mailbox!Post(User(u))
    BY <2>1, <2>3, <2>6 DEF Mailbox!Post, Posted, Inbox
  <2>8. QED
    BY <2>2, <2>7 DEF Mailbox!Next
<1>5. ASSUME NEW u \in FollowUps, followUpWith(u) PROVE [Mailbox!Next]_(Mailbox!vars)
  BY <1>1, <1>5 DEF followUpWith
<1>6. CASE abort
  BY <1>1, <1>6 DEF abort
<1>7. CASE continue
  BY <1>7, MailboxContinue
<1>8. CASE evict
  <2>1. /\ isStreaming' = FALSE /\ log' = stored /\ stored' = stored
        /\ steering' = <<>> /\ pending' = <<>>
    BY <1>8 DEF evict, Discard
  <2>2. Inbox' = <<>>
    BY <2>1, UsersEmpty, OnlyEmpty, ConcatEmptySeq, EmptySeq DEF Inbox
  <2>3. QED
    BY <2>1, <2>2, MailboxReplace DEF Posted, Heard
<1>9. CASE iterationLimit
  <2>1. Emit(FailedAnswer) /\ Discard /\ UNCHANGED steering /\ isStreaming
    BY <1>9 DEF iterationLimit, EndRun, Phases
  <2>2. Posted' = Posted /\ Heard' = Heard
    BY <2>1, MessageRoles, EmitNoLetter
  <2>3. QED
    BY <2>1, <2>2, MailboxEnd
<1>10. CASE iterate
  <2>1. /\ isStreaming /\ UNCHANGED <<isStreaming, stored, steering>>
        /\ log' = log \o Users(pending) /\ pending' = <<>>
    BY <1>10 DEF iterate, Phases
  <2>2. /\ Users(pending) \in Seq(Message) /\ Only(Users(pending), Letters) \in Seq(Letters)
        /\ Users(steering) \in Seq(Letters)
    BY OnlyType, UsersType, SubTexts, OnlyUsers DEF TypeOK
  <2>3. PICK n \in 0 .. Len(Inbox) :
          /\ Mailbox!Prefix(n) = Only(Users(pending), Letters)
          /\ Mailbox!Rest(n) = Users(steering)
    BY <2>2, TakeFront DEF Inbox
  <2>4. Heard' = Heard \o Mailbox!Prefix(n)
    BY <1>0, <2>1, <2>2, <2>3, OnlyConcat DEF Heard
  <2>5. Inbox' = Mailbox!Rest(n)
    BY <2>1, <2>2, <2>3, UsersEmpty, OnlyEmpty, ConcatEmptySeq DEF Inbox
  <2>6. QED
    BY <2>1, <2>4, <2>5, MailboxRead DEF Posted
<1>11. ASSUME NEW m \in Answers, streamAssistantResponse(m) PROVE [Mailbox!Next]_(Mailbox!vars)
  <2>1. m \in Message /\ m.role = "assistant" /\ Emit(m) /\ phase = "model"
    BY <1>11, AnswersType DEF streamAssistantResponse
  <2>2. Posted' = Posted /\ Heard' = Heard
    BY <2>1, EmitNoLetter
  <2>3. isStreaming /\ pending = <<>>
    BY <2>1 DEF Phases
  <2>4. CASE m.calls = <<>>
    <3>1. AfterTurn(FALSE, Append(ctx, m))
      BY <1>11, <2>4 DEF streamAssistantResponse
    <3>2. QED
      BY <2>2, <2>3, <3>1, MailboxTurn
  <2>5. CASE m.calls # <<>>
    <3>1. UNCHANGED <<isStreaming, steering, pending>>
      BY <1>11, <2>5 DEF streamAssistantResponse
    <3>2. QED
      BY <2>2, <3>1, MailboxSame DEF Inbox
  <2>6. QED
    BY <2>4, <2>5
<1>12. ASSUME NEW b \in BOOLEAN, streamFails(b) PROVE [Mailbox!Next]_(Mailbox!vars)
  <2>1. Emit(FailedAnswer) /\ UNCHANGED steering /\ isStreaming
        /\ (Discard \/ UNCHANGED <<isStreaming, pending>>)
    BY <1>12 DEF streamFails, EndRun, Phases
  <2>2. Posted' = Posted /\ Heard' = Heard
    BY <2>1, MessageRoles, EmitNoLetter
  <2>3. QED
    BY <2>1, <2>2, MailboxEnd, MailboxSame DEF Inbox
<1>13. CASE streamThrows \/ afterToolCallThrows
  <2>1. /\ log' = Append(log, FailedAnswer) /\ UNCHANGED <<stored, steering>> /\ Discard
        /\ isStreaming
    BY <1>13 DEF streamThrows, afterToolCallThrows, Throw, EndRun, Phases
  <2>2. QED
    BY <2>1, ThrowHeard, MailboxEnd DEF Posted
<1>14. CASE retryStream
  <2>1. /\ UNCHANGED <<log, stored, steering>> /\ isStreaming
        /\ (Discard \/ UNCHANGED <<isStreaming, pending>>)
    BY <1>14 DEF retryStream, EndRun, Phases
  <2>2. QED
    BY <1>1, <2>1, MailboxEnd DEF Posted, Heard
<1>15. ASSUME NEW c \in CallIds, Outcome(c), UNCHANGED <<isStreaming, steering, pending>>
       PROVE  [Mailbox!Next]_(Mailbox!vars)
  <2>1. ToolResult(c) \in Message /\ ToolResult(c).role = "toolResult" /\ Emit(ToolResult(c))
    BY <1>15, MessageRoles DEF Outcome
  <2>2. Posted' = Posted /\ Heard' = Heard
    BY <2>1, EmitNoLetter
  <2>3. QED
    BY <1>15, <2>2, MailboxSame DEF Inbox
<1>16. ASSUME NEW b \in BOOLEAN, prepareToolCall(b) PROVE [Mailbox!Next]_(Mailbox!vars)
  <2>1. Head(todo) \in CallIds /\ UNCHANGED <<isStreaming, steering, pending>>
    BY <1>16 DEF prepareToolCall, TypeOK
  <2>2. Outcome(Head(todo)) \/ UNCHANGED <<log, stored>>
    BY <1>16 DEF prepareToolCall
  <2>3. QED
    BY <1>1, <1>15, <2>1, <2>2
<1>17. ASSUME NEW c \in Executing, executePreparedToolCall(c) PROVE [Mailbox!Next]_(Mailbox!vars)
  BY <1>1, <1>17 DEF executePreparedToolCall
<1>18. CASE finalizeExecutedToolCall
  <2>1. /\ Head(runnable) \in CallIds /\ UNCHANGED <<isStreaming, steering, pending>>
        /\ Outcome(Head(runnable))
    BY <1>18 DEF finalizeExecutedToolCall, TypeOK
  <2>2. QED
    BY <1>15, <2>1
<1>19. CASE toolsDone
  <2>1. /\ AfterTurn(TRUE, ctx \o results) /\ UNCHANGED <<log, stored>>
        /\ isStreaming /\ pending = <<>>
    BY <1>19 DEF toolsDone, Phases
  <2>2. QED
    BY <2>1, MailboxTurn DEF Posted, Heard
<1>20. QED
  BY <1>2, <1>3, <1>4, <1>5, <1>6, <1>7, <1>8, <1>9, <1>10, <1>11, <1>12, <1>13,
     <1>14, <1>16, <1>17, <1>18, <1>19 DEF Next, LoopStep

-----------------------------------------------------------------------------
(***************************************************************************)
(* The theorems.                                                           *)
(***************************************************************************)
IInv == TypeOK /\ Phases /\ Copies /\ Kept

LEMMA Invariance == Spec => []IInv
<1>1. Init => IInv
  BY TypeInit, CopiesInit, KeptInit DEF IInv
<1>2. IInv /\ [Next]_vars => IInv'
  BY TypeStep, CopiesStep, KeptStep DEF IInv
<1>3. QED
  BY <1>1, <1>2, PTL DEF Spec

\* Whatever was aborted, retried, thrown, blocked or evicted before, every tool
\* call in what the provider is sent has its result after it, before the next
\* user or assistant message (transformMessages and the loop's own context).
THEOREM EveryCallIsAnswered == Spec => []CallsAnswered
<1>1. IInv => CallsAnswered
  <2>1. SUFFICES ASSUME IInv, phase = "model"
                 PROVE  \A i \in DOMAIN Transformed(ctx).out :
                          Transformed(ctx).out[i].role = "assistant" =>
                            \A k \in DOMAIN Transformed(ctx).out[i].calls :
                              ResultAfter(Transformed(ctx).out, i, Transformed(ctx).out[i].calls[k])
    BY DEF CallsAnswered, transformMessages, ResultAfter
  <2> DEFINE acc == Transformed(ctx)
             h == acc.out
  <2>2. acc \in Acc /\ Served(acc) /\ Complete(acc)
    BY <2>1, TransformedType, TransformedServed DEF IInv, TypeOK, Copies
  <2>3. h \in Seq(Message) /\ Orphans(acc) = <<>>
    BY <2>2, OrphansType DEF Acc, Complete
  <2>4. h = acc.out \o Orphans(acc)
    BY <2>3, ConcatEmptySeq
  <2> HIDE DEF acc
  <2>5. QED
    BY <2>2, <2>3, <2>4, Flushed DEF acc
<1>2. QED
  BY <1>1, Invariance, PTL

\* The model is shown what the agent's own history shows, in spite of retries
\* that take a message back, and what it was told is in the session log.
THEOREM HistoriesStayAlike == Spec => []HistoriesAgree
<1>1. IInv => ContextIsLog
  BY DEF IInv, Copies, Alike, ContextIsLog, transformMessages
<1>2. IInv => ToldIsStored
  <2>1. SUFFICES ASSUME IInv, NEW m \in Range(ctx) \ {FailedAnswer}
                 PROVE  m \in Range(stored) \/ (m.role = "user" /\ m.text \in FollowUps)
    BY DEF ToldIsStored
  <2>2. m \in Known
    BY <2>1, RangeIsElements DEF IInv, Kept
  <2>3. QED
    BY <2>1, <2>2, RangeIsElements DEF Known, User
<1>3. QED
  BY <1>1, <1>2, Invariance, PTL DEF HistoriesAgree

\* The loop implements the steering mailbox: no steered message is read twice
\* or out of order, one may be dropped only by a run that ends, and the agent
\* that is built next has them all.
THEOREM LoopIsMailbox == Spec => MailboxSpec
<1>1. Init => Mailbox!Init
  <2>1. SUFFICES ASSUME Init PROVE Mailbox!Init
    OBVIOUS
  <2>2. /\ log = <<User("restored")>> /\ stored = log /\ steering = <<>> /\ pending = <<>>
        /\ isStreaming = FALSE
    BY <2>1 DEF Init
  <2>3. User("restored") \in Message /\ User("restored") \notin Letters
    BY MessageRoles, NoLetter DEF Texts
  <2>4. Only(<<User("restored")>>, Letters) = <<>>
    <3>1. <<User("restored")>> \in Seq({User("restored")}) /\ {User("restored")} \cap Letters = {}
      BY <2>3
    <3>2. QED
      BY <3>1, OnlyNone
  <2>5. Only(Users(<<>>), Letters) \o Users(<<>>) = <<>>
    BY UsersEmpty, OnlyEmpty, ConcatEmptySeq, EmptySeq
  <2>6. QED
    BY <2>2, <2>4, <2>5 DEF Mailbox!Init
<1>2. IInv /\ IInv' /\ [Next]_vars => [Mailbox!Next]_(Mailbox!vars)
  BY MailboxStep DEF IInv
<1>3. QED
  BY <1>1, <1>2, Invariance, PTL DEF Spec, MailboxSpec, Mailbox!Spec
=============================================================================
