----------------------------- MODULE Compaction -----------------------------
(***************************************************************************)
(* The compaction-summary capability: the beforeInference hook that        *)
(* summarises the front of the conversation when it grows too long.        *)
(*                                                                         *)
(* The session log is a sequence of entries, all on one branch.  The       *)
(* messages a run works on are places of the log, and Summary for the      *)
(* message that buildContext puts in front.  What the hook returns is used *)
(* for one model call; the run keeps its own messages.                     *)
(***************************************************************************)
EXTENDS Integers, Sequences, FiniteSets, SequencesExt, Lists

CONSTANTS Sizes,        \* estimateTokens of a message
          SummarySize,  \* estimateTokens of a summary
          PrunedSize,   \* estimateTokens of a pruned tool result
          Window,       \* contextWindowTokens
          Limit,        \* threshold * contextWindowTokens
          KeepRecent,   \* keepRecentTokens
          PruneBudget,  \* pruneBudget
          MaxEntries    \* bound: entries of the session

\* Tokens are numbers, something is kept, and a window's 15 percent are a token.
CompactionConstants ==
  /\ Sizes \subseteq Nat /\ {SummarySize, PrunedSize, PruneBudget} \subseteq Nat
  /\ KeepRecent \in Nat \ {0} /\ Window \in Nat /\ Window >= 7

Summary == 0

VARIABLES entries,      \* the session's entries
          messages,     \* the run's messages: places in entries, or Summary
          steered,      \* logged, and waiting in the agent's steering queue
          pending,      \* the compaction whose summary is awaited
          given,        \* ghost: the compaction that gave `sent`, and its messages
          sent          \* ghost: what the hook last returned

vars == <<entries, messages, steered, pending, given, sent>>

Message(n, tool) == [type |-> "message", size |-> n, tool |-> tool, kept |-> 0]
CompactionEntry(k) ==
  [type |-> "compaction", size |-> 0, tool |-> FALSE, kept |-> k]
NoCut == [cut |-> 0, of |-> <<>>]

\* The ids of the message entries, oldest first (getEntries, filtered).
MessageIds(log) == {i \in DOMAIN log : log[i].type = "message"}
EntryIds == Only([i \in DOMAIN entries |-> i], MessageIds(entries))

\* buildContext of the session store: a kept id that is not in the log means
\* "after the compaction entry".
From(log, c) == IF log[c].kept \in DOMAIN log THEN log[c].kept ELSE c + 1

buildContext(log) ==
  LET cs    == {i \in DOMAIN log : log[i].type = "compaction"}
      c     == CHOOSE x \in cs : \A y \in cs : y <= x
      start == IF cs = {} THEN 1 ELSE From(log, c)
      kept  == Only([i \in DOMAIN log |-> i], {i \in MessageIds(log) : i >= start})
  IN  (IF cs = {} THEN <<>> ELSE <<Summary>>) \o kept

-----------------------------------------------------------------------------
(***************************************************************************)
(* pruneToolOutputs: newest first, a tool result is kept when it still     *)
(* fits into the budget; an older, smaller one may fit after a larger one  *)
(* did not.  The size of each message afterwards.                          *)
(***************************************************************************)
Size(m) == IF m = Summary THEN SummarySize ELSE entries[m].size
IsTool(m) == m # Summary /\ entries[m].tool

\* What is left of the budget after the messages from each place on.
BudgetLeft(ms) ==
  LET left[k \in 1 .. Len(ms) + 1] ==
        IF k > Len(ms) THEN PruneBudget
        ELSE IF IsTool(ms[k]) /\ left[k + 1] >= Size(ms[k])
               THEN left[k + 1] - Size(ms[k])
               ELSE left[k + 1]
  IN  left

pruneToolOutputs(ms) ==
  [k \in DOMAIN ms |->
     IF IsTool(ms[k]) /\ BudgetLeft(ms)[k + 1] < Size(ms[k]) THEN PrunedSize
     ELSE Size(ms[k])]

SizesOf(ms) == [i \in DOMAIN ms |-> Size(ms[i])]

\* The tokens from each place on.
Totals(sizes) ==
  LET sum[k \in 1 .. Len(sizes) + 1] ==
        IF k > Len(sizes) THEN 0 ELSE sizes[k] + sum[k + 1]
  IN  sum
TotalFrom(sizes, i) == Totals(sizes)[i]
Total(sizes) == TotalFrom(sizes, 1)

\* findCutPoint: the last place from which the messages reach keepRecentTokens;
\* 0 when there is none or nothing lies before it.
\* Mutant: the message that reaches keepRecentTokens is compacted too.
findCutPointPast(sizes) ==
  LET is == {i \in DOMAIN sizes : TotalFrom(sizes, i) >= KeepRecent}
      i  == CHOOSE x \in is : \A y \in is : y <= x
  IN  IF is \subseteq {1} THEN 0 ELSE i + 1

findCutPoint(sizes) ==
  LET is == {i \in DOMAIN sizes : TotalFrom(sizes, i) >= KeepRecent}
      i  == CHOOSE x \in is : \A y \in is : y <= x
  IN  IF is \subseteq {1} THEN 0 ELSE i

(***************************************************************************)
(* summarizeInStages: the number of chunks, by the adaptive ratio of 15 to *)
(* 40 percent of the window, and the chunks (splitByTokenShare).           *)
(***************************************************************************)
AtLeast(a, b) == IF a > b THEN a ELSE b
Ceil(a, b) == (a + b - 1) \div b

NumChunks(total) ==
  LET adaptive == IF 2 * total <= Window THEN (Window * 40) \div 100
                  ELSE (Window * Window * 40) \div (200 * total)
  IN  AtLeast(1, Ceil(total, AtLeast((Window * 15) \div 100, adaptive)))

NoChunks == [chunks |-> <<>>, chunk |-> <<>>, sum |-> 0]

\* The next message joins the chunk, which is closed when its share is reached and
\* it is not the last.
Chunked(acc, s, n, total) ==
  IF (acc.sum + s) * n >= total /\ Len(acc.chunks) < n - 1
    THEN [NoChunks EXCEPT !.chunks = Append(acc.chunks, Append(acc.chunk, s))]
    ELSE [acc EXCEPT !.chunk = Append(@, s), !.sum = @ + s]

\* The chunks after each number of messages.
ChunksUpTo(sizes, n) ==
  LET run[k \in 0 .. Len(sizes)] ==
        IF k = 0 THEN NoChunks ELSE Chunked(run[k - 1], sizes[k], n, Total(sizes))
  IN  run

splitByTokenShare(sizes, n) ==
  LET end == ChunksUpTo(sizes, n)[Len(sizes)]
  IN  IF n <= 1 THEN <<sizes>>
      ELSE IF end.chunk = <<>> THEN end.chunks
      ELSE Append(end.chunks, end.chunk)

-----------------------------------------------------------------------------
\* An answer or a tool result: appended to the log and to the run's messages.
addMessage(n, tool) ==
  /\ pending = NoCut /\ messages # <<>> /\ Len(entries) < MaxEntries
  /\ entries' = Append(entries, Message(n, tool))
  /\ messages' = Append(messages, Len(entries'))
  /\ UNCHANGED <<steered, pending, given, sent>>

\* A user message is logged when it is steered, at any time, and joins the
\* run's messages when the loop polls its queue.
handleSteer(n) ==
  /\ Len(entries) < MaxEntries /\ messages # <<>>
  /\ entries' = Append(entries, Message(n, FALSE))
  /\ steered' = Append(steered, Len(entries'))
  /\ UNCHANGED <<messages, pending, given, sent>>

pollSteering ==
  /\ pending = NoCut /\ steered # <<>>
  /\ messages' = messages \o steered
  /\ steered' = <<>>
  /\ UNCHANGED <<entries, pending, given, sent>>

\* handlePrompt: the message is logged, the next agent is built from the log,
\* and prompted with the message, which is then twice in its messages.
handlePrompt(n) ==
  /\ pending = NoCut /\ Len(entries) < MaxEntries
  /\ entries' = Append(entries, Message(n, FALSE))
  /\ messages' = Append(buildContext(entries'), Len(entries'))
  /\ steered' = <<>>
  /\ UNCHANGED <<pending, given, sent>>

(***************************************************************************)
(* beforeInference.  Below the limit, or once pruning has brought the      *)
(* messages below it, or with no cut point, nothing is compacted.          *)
(* Otherwise the summary is awaited; the entry ids were read before.       *)
(***************************************************************************)
beforeInference ==
  /\ pending = NoCut /\ messages # <<>>
  /\ LET pruned == pruneToolOutputs(messages)
         cut    == findCutPoint(pruned)
     IN  IF Total(SizesOf(messages)) <= Limit \/ Total(pruned) <= Limit \/ cut = 0
           THEN /\ sent' = messages
                /\ given' = NoCut
                /\ UNCHANGED pending
           ELSE /\ pending' = [cut |-> cut, of |-> EntryIds]
                /\ UNCHANGED <<given, sent>>
  /\ UNCHANGED <<entries, messages, steered>>

\* compactSession returns: entryIds[cutIndex] is undefined past the end.
compactSession ==
  /\ pending # NoCut /\ Len(entries) < MaxEntries
  /\ entries' = Append(entries,
       CompactionEntry(IF pending.cut \in DOMAIN pending.of
                         THEN pending.of[pending.cut] ELSE 0))
  /\ sent' = buildContext(entries')
  /\ given' = [cut |-> pending.cut, of |-> messages]
  /\ pending' = NoCut
  /\ UNCHANGED <<messages, steered>>

\* Summarising fails: the messages are used as they were.
summarizeFails ==
  /\ pending # NoCut
  /\ pending' = NoCut
  /\ sent' = messages /\ given' = NoCut
  /\ UNCHANGED <<entries, messages, steered>>

Init ==
  /\ entries = <<>> /\ messages = <<>> /\ steered = <<>> /\ pending = NoCut
  /\ given = NoCut /\ sent = <<>>

Next ==
  \/ \E n \in Sizes, tool \in BOOLEAN : addMessage(n, tool)
  \/ \E n \in Sizes : handlePrompt(n) \/ handleSteer(n)
  \/ pollSteering \/ beforeInference \/ compactSession \/ summarizeFails

Spec == Init /\ [][Next]_vars
-----------------------------------------------------------------------------
JustCompacted == given # NoCut
KeptOf(g) == SubSeq(g.of, g.cut, Len(g.of))

\* After a compaction the context still has the messages that findCutPoint
\* meant to keep (compaction.ts: "messages [0, i) are compactable, [i, end] are
\* kept"), in particular the ones the summary does not cover.
RecentSurvive ==
  JustCompacted => Range(KeptOf(given)) \subseteq Range(sent)

\* The cut keeps at least keepRecentTokens and not one message more than that
\* takes, and always leaves something to summarise.
CutIsTight ==
  LET s == pruneToolOutputs(messages)
      c == findCutPoint(s)
  IN  c # 0 => /\ c > 1
               /\ TotalFrom(s, c) >= KeepRecent
               /\ TotalFrom(s, c + 1) < KeepRecent

\* Pruning spends no more than its budget on tool results and touches nothing
\* else.
PruneInBudget ==
  LET s    == pruneToolOutputs(messages)
      kept == [i \in DOMAIN s |-> IF IsTool(messages[i]) /\ s[i] # PrunedSize
                                   THEN s[i] ELSE 0]
  IN  /\ Total(kept) <= PruneBudget
      /\ \A i \in DOMAIN s : ~IsTool(messages[i]) => s[i] = Size(messages[i])

\* A summary covers the conversation: the chunks that are summarised one after
\* the other are the messages before the cut, in order, none left out, none
\* empty, and no more chunks than planned.
ChunksCover ==
  LET s == SizesOf(messages)
      n == NumChunks(Total(s))
      c == splitByTokenShare(s, n)
  IN  messages # <<>> =>
        /\ FlattenSeq(c) = s
        /\ Len(c) <= n
        /\ \A i \in DOMAIN c : c[i] # <<>>
=============================================================================
