---------------------------- MODULE ModelStream -----------------------------
(***************************************************************************)
(* One answer of the model on its way to the agent loop: the provider      *)
(* reads chunks from the service, builds the message block by block and    *)
(* pushes events into a stream; because the provider is loaded lazily, a   *)
(* forwarder moves them to a second stream, which the agent loop reads.    *)
(*                                                                         *)
(* An EventStream has one reader here, which may be waiting.  An event     *)
(* that is pushed then is handed to the reader, who takes it when it is    *)
(* scheduled; until then further events go to the queue.                   *)
(***************************************************************************)
EXTENDS Naturals, Sequences, SequencesExt, Lists

CONSTANTS Ids,             \* ids of tool calls
          CanInterleave,   \* the service mixes the parts of several calls
          MaxParts         \* bound

VARIABLES pc,         \* provider: "load", "create", "reading", "over"
          aborted,    \* the signal
          blocks,     \* output.content; the current block is the last one
          stop,       \* output.stopReason
          inner, outer,       \* the two streams
          forwarder,  \* "none", "reading", "over"
          agent,      \* "reading", "returned"
          pushed,     \* ghost: events pushed into the first stream
          told,       \* ghost: events the agent loop has handled
          parts       \* ghost: what the service has sent, in order

vars == <<pc, aborted, blocks, stop, inner, outer, forwarder, agent, pushed,
          told, parts>>

Unresolved == "none"
EmptyStream == [queue |-> << >>, waiter |-> FALSE, handed |-> << >>,
                done |-> FALSE, result |-> Unresolved]

Event(t, k, i) == [type |-> t, kind |-> k, at |-> i]
Final(t) == Event(t, "message", 0)
isComplete(e) == e.type \in {"done", "error"}
-----------------------------------------------------------------------------
(* EventStream.                                                            *)

\* Mutant: the event of a push goes to the queue behind the waiting reader.
pushToQueue(s, e) ==
  IF s.done THEN s
  ELSE [s EXCEPT !.done = isComplete(e), !.queue = Append(@, e),
                 !.result = IF isComplete(e) THEN e.type ELSE @]

push(s, e) ==
  IF s.done THEN s
  ELSE [queue  |-> IF s.waiter THEN s.queue ELSE Append(s.queue, e),
        handed |-> IF s.waiter THEN <<e>> ELSE s.handed,
        waiter |-> FALSE,
        done   |-> isComplete(e),
        result |-> IF isComplete(e) THEN e.type ELSE s.result]

PushAll(s, es) ==
  LET after[n \in 0 .. Len(es)] == IF n = 0 THEN s ELSE push(after[n - 1], es[n])
  IN  after[Len(es)]

\* end(): a reader that waits is told that there is nothing more.
end(s) == [s EXCEPT !.done = TRUE, !.waiter = FALSE]

InFlight(s) == s.handed \o s.queue

\* The reader's next turn of its loop: an event, the end, or a wait.
HasNext(s) == ~s.waiter /\ InFlight(s) # << >>
Taken(s) == IF s.handed # << >> THEN [s EXCEPT !.handed = << >>]
            ELSE [s EXCEPT !.queue = Tail(@)]
AtEnd(s) == ~s.waiter /\ InFlight(s) = << >> /\ s.done
MustWait(s) == ~s.waiter /\ InFlight(s) = << >> /\ ~s.done
Waiting(s) == [s EXCEPT !.waiter = TRUE]
-----------------------------------------------------------------------------
(* The provider.                                                           *)

Part(k, id, src) == [kind |-> k, id |-> id, of |-> src]
NoId == "none"

\* Mutant: a tool call is told from the one before only by other blocks.
startsBlockOfKind(bs, p) == bs = << >> \/ Last(bs).kind # p.kind

startsBlock(bs, p) ==
  \/ bs = << >>
  \/ Last(bs).kind # p.kind
  \/ p.kind = "toolCall" /\ p.id # NoId /\ Last(bs).id # p.id

finishCurrentBlock(bs) ==
  IF bs = << >> THEN << >> ELSE <<Event("end", Last(bs).kind, Len(bs))>>

\* What one delta does to the content, and the events it pushes.
Grown(bs, p) ==
  LET begun == IF startsBlock(bs, p)
                 THEN Append(bs, [kind |-> p.kind, id |-> p.id, parts |-> << >>])
                 ELSE bs
  IN  [begun EXCEPT ![Len(begun)].parts = Append(@, p.of)]

Events(bs, p) ==
  LET n == Len(Grown(bs, p))
  IN  (IF startsBlock(bs, p)
         THEN finishCurrentBlock(bs) \o <<Event("start", p.kind, n)>>
         ELSE << >>)
      \o <<Event("delta", p.kind, n)>>

Init ==
  /\ pc = "load" /\ aborted = FALSE /\ blocks = << >> /\ stop = "stop"
  /\ inner = EmptyStream /\ outer = EmptyStream
  /\ forwarder = "none" /\ agent = "reading"
  /\ pushed = << >> /\ told = << >> /\ parts = << >>

\* The provider's module is loaded and called; when the import or the call
\* throws (no API key), the error goes to the second stream directly.
load ==
  /\ pc = "load"
  /\ \/ pc' = "create" /\ forwarder' = "reading" /\ UNCHANGED <<outer, pushed>>
     \/ /\ pc' = "over" /\ outer' = end(push(outer, Final("error")))
        /\ pushed' = <<Final("error")>> /\ UNCHANGED forwarder
  /\ UNCHANGED <<aborted, blocks, stop, inner, agent, told, parts>>

\* Pushes events es after which the provider goes to pc'.
Emit(es) == inner' = PushAll(inner, es) /\ pushed' = pushed \o es

\* The request is made; the promise of the SDK may reject (see fail).
create ==
  /\ pc = "create" /\ pc' = "reading" /\ Emit(<<Event("start", "message", 0)>>)
  /\ UNCHANGED <<aborted, blocks, stop, outer, forwarder, agent, told, parts>>

\* The catch block: anything awaited threw.
fail ==
  /\ pc \in {"create", "reading"} /\ pc' = "over"
  /\ inner' = end(push(inner, Final("error"))) /\ pushed' = Append(pushed, Final("error"))
  /\ stop' = IF aborted THEN "aborted" ELSE "error"
  /\ UNCHANGED <<aborted, blocks, outer, forwarder, agent, told, parts>>

\* What the service may send next. A call begins with its id; its later parts
\* may leave the id out.
Begun == Ids \cap {parts[i].of : i \in DOMAIN parts}
Continued == IF CanInterleave THEN Begun
             ELSE IF parts = << >> THEN {} ELSE Begun \cap {Last(parts).of}
NextParts ==
  {Part("text", NoId, "text"), Part("thinking", NoId, "thinking")}
    \cup {Part("toolCall", id, id) : id \in (Ids \ Begun) \cup Continued}
    \cup {Part("toolCall", NoId, id) : id \in Continued}

\* One delta of a chunk. Text, reasoning and tool calls of one chunk are taken
\* in that order without an await, as if they had come one by one.
delta ==
  /\ pc = "reading" /\ Len(parts) < MaxParts
  /\ \E p \in NextParts :
       /\ blocks' = Grown(blocks, p)
       /\ Emit(Events(blocks, p))
       /\ parts' = Append(parts, p)
  /\ UNCHANGED <<pc, aborted, stop, outer, forwarder, agent, told>>

\* A chunk with a finish_reason; "length" is like "stop" here.
finishReason ==
  /\ pc = "reading" /\ stop' \in {"stop", "toolUse", "error"} \ {stop}
  /\ UNCHANGED <<pc, aborted, blocks, inner, outer, forwarder, agent, pushed, told,
                 parts>>

\* Mutant: the last block is left open.
finishOpen ==
  /\ pc = "reading" /\ pc' = "over"
  /\ inner' = end(push(inner, Final("done"))) /\ pushed' = Append(pushed, Final("done"))
  /\ UNCHANGED <<aborted, blocks, stop, outer, forwarder, agent, told, parts>>

\* The service has sent everything: the last block ends, and the message is
\* done unless the signal or the finish_reason says otherwise.
finish ==
  /\ pc = "reading" /\ pc' = "over"
  /\ LET failed == aborted \/ stop = "error"
         es == Append(finishCurrentBlock(blocks), Final(IF failed THEN "error" ELSE "done"))
     IN  /\ inner' = end(PushAll(inner, es)) /\ pushed' = pushed \o es
         /\ stop' = IF aborted THEN "aborted" ELSE stop
  /\ UNCHANGED <<aborted, blocks, outer, forwarder, agent, told, parts>>

abort ==
  /\ pc # "over" /\ ~aborted /\ aborted' = TRUE
  /\ UNCHANGED <<pc, blocks, stop, inner, outer, forwarder, agent, pushed, told,
                 parts>>
-----------------------------------------------------------------------------
(* The readers.                                                            *)

forwardStream ==
  /\ forwarder = "reading"
  /\ \/ /\ HasNext(inner)
        /\ outer' = push(outer, Head(InFlight(inner))) /\ inner' = Taken(inner)
        /\ UNCHANGED forwarder
     \/ /\ AtEnd(inner)
        /\ outer' = end(outer) /\ forwarder' = "over" /\ UNCHANGED inner
     \/ /\ MustWait(inner)
        /\ inner' = Waiting(inner) /\ UNCHANGED <<outer, forwarder>>
  /\ UNCHANGED <<pc, aborted, blocks, stop, agent, pushed, told, parts>>

\* The loop over the second stream; it returns at the final event. (Its code for
\* a stream that ends without one is never reached, see NeverStuck.)
streamAssistantResponse ==
  /\ agent = "reading"
  /\ \/ /\ HasNext(outer)
        /\ outer' = Taken(outer) /\ told' = Append(told, Head(InFlight(outer)))
        /\ agent' = IF isComplete(Head(InFlight(outer))) THEN "returned" ELSE agent
     \/ /\ MustWait(outer)
        /\ outer' = Waiting(outer) /\ UNCHANGED <<agent, told>>
  /\ UNCHANGED <<pc, aborted, blocks, stop, inner, forwarder, pushed, parts>>

Next == \/ load \/ create \/ delta \/ finishReason \/ finish \/ fail \/ abort
        \/ forwardStream \/ streamAssistantResponse

Spec == Init /\ [][Next]_vars
-----------------------------------------------------------------------------
\* No event is lost, doubled or overtaken on its way through both streams,
\* however readers and writer are scheduled.
NothingLost == told \o InFlight(outer) \o InFlight(inner) = pushed

\* The agent loop waits only while the provider or the forwarder has something
\* to do, never finds the end of the stream before a final event, and returns
\* with everything told and that event's message as the result.
NeverStuck ==
  /\ outer.waiter => \/ pc # "over"
                     \/ forwarder = "reading" /\ (HasNext(inner) \/ AtEnd(inner))
  /\ agent = "reading" => ~AtEnd(outer)
  /\ agent = "returned" => told = pushed /\ outer.result = Last(told).type

EventsAt(b) == [type : {"start", "delta", "end"},
                kind : {"text", "thinking", "toolCall"}, at : {b}]

\* What the loop is told of a message is well formed: it begins with start, its
\* blocks come one after the other, each of one kind from its start through its
\* deltas, and before the next one or a successful end it has ended.
Bracketed ==
  /\ \A i, j \in DOMAIN told : i < j /\ told[j].at > 0 => told[i].at <= told[j].at
  /\ \A b \in DOMAIN blocks :
       LET es == Only(told, EventsAt(b))
           closed == \/ \E i \in DOMAIN told : told[i].at > b
                     \/ told # << >> /\ Last(told).type = "done"
       IN  /\ \A i \in DOMAIN es :
                /\ es[i].kind = blocks[b].kind
                /\ (es[i].type = "start") = (i = 1)
                /\ es[i].type = "end" => i = Len(es) /\ Len(es) = Len(blocks[b].parts) + 2
           /\ closed => es # << >> /\ Last(es).type = "end"
  /\ \A i \in DOMAIN told : isComplete(told[i]) => i = Len(told)

\* The parts of a tool call are in one block that has nothing else and has the
\* call's id. The code never looks at the index that the service gives each
\* part, so this needs a service that does not mix the parts of several calls.
OwnParts ==
  \A i, j \in DOMAIN blocks :
    /\ \A p, q \in DOMAIN blocks[i].parts : blocks[i].parts[p] = blocks[i].parts[q]
    /\ blocks[i].kind = "toolCall" =>
         /\ blocks[i].id = blocks[i].parts[1]
         /\ i # j => blocks[j].parts[1] # blocks[i].parts[1]

\* What the theorem about these properties assumes: calls have ids of their own,
\* and the service sends one call after the other.
StreamConstants == Ids \cap {"text", "thinking", NoId} = {} /\ ~CanInterleave
=============================================================================
