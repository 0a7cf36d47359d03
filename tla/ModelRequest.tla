---------------------------- MODULE ModelRequest ----------------------------
(***************************************************************************)
(* What the model is sent: the context of a run, passed through            *)
(* transformMessages and convertMessages.  The context is the log's at the *)
(* start of a run, and the log keeps neither the stop reason nor the model *)
(* of an assistant message; messages of the run itself have both.          *)
(*                                                                         *)
(* Text is what it consists of: "text", "thinking", "both" or "empty" for  *)
(* an assistant, "text" or "image" for a user.                             *)
(***************************************************************************)
EXTENDS Naturals, Sequences, FiniteSets, SequencesExt, Lists

CONSTANTS Models,         \* models with what each wants, see model
          MaxMessages     \* bound

VARIABLES model,     \* [normalizes: tool call ids are rewritten,
                     \*  images: model.input has "image",
                     \*  bridges: requiresAssistantAfterToolResult,
                     \*  thinkingAsText: requiresThinkingAsText]
          context,   \* messages of the run
          calls      \* ghost: tool calls made so far; ids are numbers

vars == <<model, context, calls>>

User(b) == [role |-> "user", body |-> b, logged |-> TRUE]
Prompted(b) == [role |-> "user", body |-> b, logged |-> FALSE]
Assistant(b, ids, s) ==
  [role |-> "assistant", body |-> b, ids |-> ids, stop |-> s, same |-> TRUE,
   failed |-> s # "stop"]                        \* failed: ghost
Result(id, img) == [role |-> "toolResult", id |-> id, image |-> img, real |-> TRUE]
NoResult(id) == [role |-> "toolResult", id |-> id, image |-> FALSE, real |-> FALSE]

\* The messages that are in the log.
Kept(ms) == Only(ms, {m \in ToSet(ms) : m.role = "user" => m.logged})

\* buildContext: an assistant entry has its content only.
buildContext(ms) ==
  LET ks == Kept(ms)
  IN  [i \in DOMAIN ks |->
         IF ks[i].role = "assistant" THEN [ks[i] EXCEPT !.stop = "unknown", !.same = FALSE]
         ELSE ks[i]]
-----------------------------------------------------------------------------
(* transformMessages.                                                      *)

normalizeToolCallId(id) == IF model.normalizes THEN id + 100 ELSE id

\* The first pass: of another model's message the thinking becomes text and
\* the ids are rewritten, in the results too.
MapId(ms, id) ==
  IF \E i \in DOMAIN ms : ms[i].role = "assistant" /\ ~ms[i].same /\ Contains(ms[i].ids, id)
    THEN normalizeToolCallId(id) ELSE id

Adapted(ms) ==
  [i \in DOMAIN ms |->
     CASE ms[i].role = "assistant" /\ ~ms[i].same ->
            [ms[i] EXCEPT !.body = IF @ \in {"thinking", "both"} THEN "text" ELSE @,
                          !.ids = [j \in DOMAIN @ |-> normalizeToolCallId(@[j])]]
       [] ms[i].role = "toolResult" -> [ms[i] EXCEPT !.id = MapId(ms, @)]
       [] OTHER -> ms[i]]

\* Synthetic results for the calls that have none.
Answered(acc) ==
  LET missing == Only(acc.pending, ToSet(acc.pending) \ acc.existing)
  IN  [out |-> acc.out \o [i \in DOMAIN missing |-> NoResult(missing[i])],
       pending |-> << >>, existing |-> {}]

\* Mutant: only an assistant message makes up for missing results.
secondPassNotUser(acc, m) ==
  CASE m.role = "assistant" /\ m.stop \in {"error", "aborted"} -> Answered(acc)
    [] m.role = "assistant" /\ m.stop \notin {"error", "aborted"} ->
         [out |-> Append(Answered(acc).out, m), pending |-> m.ids, existing |-> {}]
    [] m.role = "toolResult" ->
         [acc EXCEPT !.out = Append(@, m), !.existing = @ \cup {m.id}]
    [] m.role = "user" -> [acc EXCEPT !.out = Append(@, m)]

\* The second pass.
secondPass(acc, m) ==
  CASE m.role = "assistant" /\ m.stop \in {"error", "aborted"} -> Answered(acc)
    [] m.role = "assistant" /\ m.stop \notin {"error", "aborted"} ->
         [out |-> Append(Answered(acc).out, m), pending |-> m.ids, existing |-> {}]
    [] m.role = "toolResult" ->
         [acc EXCEPT !.out = Append(@, m), !.existing = @ \cup {m.id}]
    [] m.role = "user" ->
         [Answered(acc) EXCEPT !.out = Append(@, m)]

Nothing == [out |-> << >>, pending |-> << >>, existing |-> {}]

\* After each number of messages.
Passed(ms) ==
  LET run[k \in 0 .. Len(ms)] ==
        IF k = 0 THEN Nothing ELSE secondPass(run[k - 1], ms[k])
  IN  run

transformMessages(ms) == Passed(Adapted(ms))[Len(ms)].out
-----------------------------------------------------------------------------
(* convertMessages.                                                        *)

WireUser(b) == [role |-> "user", body |-> b, ids |-> << >>]
WireAssistant(b, ids) == [role |-> "assistant", body |-> b, ids |-> ids]
WireTool(id) == [role |-> "tool", body |-> "text", ids |-> <<id>>]
Bridge == WireAssistant("bridge", << >>)

Add(acc, m, r) == [acc EXCEPT !.wire = Append(@, m), !.last = r]

\* After the last of a row of results, their images go into a user message.
afterResults(acc) ==
  IF ~acc.images THEN acc
  ELSE [wire |-> acc.wire \o (IF model.bridges THEN <<Bridge>> ELSE << >>)
                          \o <<WireUser("attached")>>,
        last |-> "user", images |-> FALSE]

\* Some services take no user message right after tool results.
bridged(acc) ==
  IF model.bridges /\ acc.last = "toolResult" THEN [acc EXCEPT !.wire = Append(@, Bridge)]
  ELSE acc

hasContent(b) == b \in {"text", "both"} \/ (b = "thinking" /\ model.thinkingAsText)

convert(acc, m) ==
  CASE m.role = "user" ->
         LET a == bridged(afterResults(acc))
         IN  IF m.body = "image" /\ ~model.images THEN a ELSE Add(a, WireUser(m.body), "user")
    [] m.role = "assistant" ->
         LET a == afterResults(acc)
         IN  IF hasContent(m.body) \/ m.ids # << >>
               THEN Add(a, WireAssistant(m.body, m.ids), "assistant") ELSE a
    [] m.role = "toolResult" ->
         [Add(acc, WireTool(m.id), "toolResult") EXCEPT
            !.images = @ \/ (m.image /\ model.images)]

NoWire == [wire |-> << >>, last |-> "none", images |-> FALSE]

Converted(ms) ==
  LET run[k \in 0 .. Len(ms)] ==
        IF k = 0 THEN NoWire ELSE convert(run[k - 1], ms[k])
  IN  run

convertMessages(ms) ==
  LET ts == transformMessages(ms) IN afterResults(Converted(ts)[Len(ts)]).wire

\* Thinking is put in front of a text that is a string by now: unshift throws.
Throws(ms) ==
  /\ model.thinkingAsText
  /\ \E m \in ToSet(transformMessages(ms)) : m.role = "assistant" /\ m.body = "both"
-----------------------------------------------------------------------------
(* The contexts a run can have.                                            *)

Open ==    \* calls of the last assistant message that have no result yet
  LET is == {i \in DOMAIN context : context[i].role = "assistant"}
      i  == CHOOSE x \in is : \A y \in is : y <= x
      rs == {context[j].id : j \in {j \in DOMAIN context : context[j].role = "toolResult"}}
  IN  IF is = {} \/ context[i].stop # "stop" THEN << >>
      ELSE Only(context[i].ids, ToSet(context[i].ids) \ rs)

\* The model is asked: there is something to answer and no call is open.
Asks == /\ context # << >> /\ Last(context).role # "assistant"
        /\ Last(context).role = "toolResult" => Open = << >>

Init == model \in Models /\ context = << >> /\ calls = 0

\* A new run: the message is logged, the agent built from the log and prompted
\* with the message, which it then has twice.
prompt ==
  /\ Len(Kept(context)) < MaxMessages
  /\ \E b \in {"text", "image"} :
       context' = buildContext(Append(context, User(b))) \o <<Prompted(b)>>
  /\ UNCHANGED <<model, calls>>

\* A message that is polled between two answers of a run; a failed answer ends it.
steer ==
  /\ Len(Kept(context)) < MaxMessages /\ context # << >> /\ Open = << >>
  /\ Last(context).role = "assistant" => ~Last(context).failed
  /\ context' = Append(context, User("text"))
  /\ UNCHANGED <<model, calls>>

\* The model's answer, complete or cut short.
answer ==
  /\ Len(Kept(context)) < MaxMessages /\ Asks /\ ~Throws(context)
  /\ \E b \in {"text", "thinking", "both", "empty"}, n \in 0..2,
        s \in {"stop", "error", "aborted"} :
       /\ context' = Append(context, Assistant(b, [j \in 1..n |-> calls + j], s))
       /\ calls' = calls + n
  /\ UNCHANGED model

result ==
  /\ Len(Kept(context)) < MaxMessages /\ Open # << >>
  /\ \E img \in BOOLEAN : context' = Append(context, Result(Head(Open), img))
  /\ UNCHANGED <<model, calls>>

\* Compaction: a summary, and the messages from some place on.
compact ==
  /\ Asks
  /\ \E i \in 2..Len(context) :
       context' = <<User("text")>> \o buildContext(SubSeq(context, i, Len(context)))
  /\ context' # context
  /\ UNCHANGED <<model, calls>>

Next == prompt \/ steer \/ answer \/ result

Spec == Init /\ [][Next]_vars

\* With compaction the context may begin in the middle of a row of results.
CutSpec == Init /\ [][Next \/ compact]_vars
-----------------------------------------------------------------------------
\* The answers that directly follow message i of what is sent.
AnswersTo(w, i) ==
  {j \in i + 1..Len(w) : \A k \in i + 1..j : w[k].role = "tool"}

\* Each call that is sent is answered exactly once, directly after its message
\* and before anything else, and nothing answers a call that is not sent: missing
\* results are made up for, whatever run was cut short before.
CallsPaired(w) ==
  /\ \A i \in DOMAIN w : w[i].role = "assistant" =>
       \A c \in DOMAIN w[i].ids :
         \E j \in AnswersTo(w, i) :
           /\ w[j].ids[1] = w[i].ids[c]
           /\ \A k \in AnswersTo(w, i) \ {j} : w[k].ids[1] # w[i].ids[c]
  /\ \A j \in DOMAIN w : w[j].role = "tool" =>
       \E i \in 1..j - 1 : /\ w[i].role = "assistant" /\ j \in AnswersTo(w, i)
                           /\ Contains(w[i].ids, w[j].ids[1])

\* A service that wants it finds no user message right after a tool result, and
\* no assistant message is empty.
WireAccepted(w) ==
  /\ model.bridges => \A i \in 2..Len(w) : w[i].role = "user" => w[i - 1].role # "tool"
  /\ \A i \in DOMAIN w : w[i].role = "assistant" =>
       w[i].ids # << >> \/ hasContent(w[i].body) \/ w[i] = Bridge

\* How many messages the user wrote.
Texts(ms) == Cardinality({i \in DOMAIN ms : ms[i].role = "user" /\ ms[i].body = "text"})

\* What is sent is a conversation that the service takes, with all that the user
\* wrote in it. (Under CutSpec it is not: a cut between a call and its result
\* leaves a result without a call.)
RequestValid ==
  Asks /\ ~Throws(context) =>
    LET w == convertMessages(context)
    IN  CallsPaired(w) /\ WireAccepted(w) /\ Texts(w) = Texts(context)

\* What transform-messages.ts says: an answer that failed or was aborted is not
\* sent again. After the next prompt its stop reason is no longer known.
FailedNotReplayed ==
  Asks => \A m \in ToSet(transformMessages(context)) :
            m.role = "assistant" => ~m.failed

\* A model that takes thinking as text can be asked after any answer.
CanAsk == Asks => ~Throws(context)
=============================================================================
