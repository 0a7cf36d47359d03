------------------------------- MODULE Sandbox -------------------------------
(***************************************************************************)
(* The sandbox capability: one container shared by all sessions of an      *)
(* agent, per-session elevation marks in the capability's storage, the     *)
(* shared idle timer "sandbox:de-elevate", the module-wide teardown        *)
(* promise, and the tools that move them (elevate, de_elevate, exec,       *)
(* process).  A session's run makes the tool calls of one message          *)
(* together.  Calls, the timer's callback and the container interleave     *)
(* wherever a call waits for the container; between two storage awaits a   *)
(* call is not interrupted, so each of its stretches is one step.          *)
(***************************************************************************)
EXTENDS Naturals, FiniteSets

CONSTANTS Sessions,     \* sessions of the agent
          CallsAtOnce,  \* bound: tool calls of one message
          MaxCalls,     \* bound: tool calls started
          MaxDeaths,    \* bound: container deaths and evictions
          TimerFires    \* the idle timeout may pass

VARIABLES elevated,  \* storage: sessions marked elevated
          owners,    \* storage: owner of each background process
          timer,     \* the row of the idle timer is pending
          callback,  \* scheduleCallbacks has its callback
          firing,    \* where the timer's callback is
          alive,     \* the container answers
          stopping,  \* stops of de_elevate in flight
          teardown,  \* teardownPromise: the stop it is of, or {}
          turns,     \* sessions with a run that is not aborted
          call,      \* per session and place in its message, the tool call
          calls, deaths

vars == <<elevated, owners, timer, callback, firing, alive, stopping, teardown, turns, call, calls, deaths>>

Tools == {"elevate", "de_elevate", "exec", "background", "process"}
Calls == Sessions \X (1 .. CallsAtOnce)
SessionOf(c) == c[1]

(* A tool call: pending is the stop whose promise it took and awaits, and  *)
(* saw (for the properties) the stops that were in flight when it asked.   *)
ToolCall(tool, pc, pending, saw) == [tool |-> tool, pc |-> pc, pending |-> pending, saw |-> saw]
Entry(tool, pc) == ToolCall(tool, pc, {}, {})
No == Entry("none", "done")

(* getTeardownPromise: on to the start when there is none.                 *)
Asked(tool) == ToolCall(tool, IF teardown = {} THEN "start" ELSE "wait", teardown, stopping)

Init ==
    /\ elevated = {} /\ owners = {}
    /\ timer = FALSE /\ callback = FALSE /\ firing = "no"
    /\ alive = FALSE /\ stopping = {} /\ teardown = {}
    /\ turns = {} /\ call = [c \in Calls |-> No]
    /\ calls = 0 /\ deaths = 0

At(c, tool, pc) == call[c].tool = tool /\ call[c].pc = pc
In(c, pc) == call[c].pc = pc
Goto(c, pc) == call' = [call EXCEPT ![c] = Entry(call[c].tool, pc)]
Ask(c) == call' = [call EXCEPT ![c] = Asked(call[c].tool)]
Return(c) == call' = [call EXCEPT ![c] = No]
Idle(s) == \A c \in Calls : SessionOf(c) = s => call[c] = No

(* A run of s begins: syncCapabilitySchedules registers the callback of    *)
(* the declared timer, once per run.                                       *)
turnStarts(s) ==
    /\ s \notin turns /\ Idle(s) /\ calls < MaxCalls
    /\ turns' = turns \union {s}
    /\ callback' = TRUE
    /\ UNCHANGED <<elevated, owners, timer, firing, alive, stopping, teardown, call, calls, deaths>>

turnEnds(s) ==
    /\ s \in turns /\ Idle(s)
    /\ turns' = turns \ {s}
    /\ UNCHANGED <<elevated, owners, timer, callback, firing, alive, stopping, teardown, call, calls, deaths>>

(* The first stretch of a call: is this session elevated?  A command of    *)
(* one that is not returns; elevate asks if another one is, and goes on to *)
(* the start when none is.                                                 *)
Begun(s, tool) ==
    CASE s \in elevated -> Entry(tool, "begun")
      [] s \notin elevated /\ tool # "elevate" -> No
      [] s \notin elevated /\ tool = "elevate" /\ elevated # {} -> Entry(tool, "others")
      [] OTHER -> Asked(tool)

(* The tool calls of a message of the model all begin before one of them   *)
(* goes on (executeToolCallsParallel).                                     *)
message(s, n, tools) ==
    /\ s \in turns /\ Idle(s) /\ calls + n <= MaxCalls
    /\ calls' = calls + n
    /\ call' = [c \in Calls |-> IF SessionOf(c) = s /\ c[2] <= n THEN Begun(s, tools[c[2]]) ELSE call[c]]
    /\ UNCHANGED <<turns, elevated, owners, timer, callback, firing, alive, stopping, teardown, deaths>>

(* clearAllElevation and clearAllProcessOwners.                            *)
ClearAll == elevated' = {} /\ owners' = {}

-----------------------------------------------------------------------------
(* setSessionElevated.                                                     *)
Elevate(c) == elevated' = elevated \union {SessionOf(c)}

(* resetDeElevationTimer: setTimer without a callback of its own.  The old *)
(* row is deleted first; with no callback registered it throws there.      *)
ResetTimer == timer' = callback

(* elevate of a session that is marked: the health check.  A dead          *)
(* container clears every mark, and the call goes on to the start.         *)
elevateOwn(c) ==
    /\ At(c, "elevate", "begun")
    /\ IF alive THEN Return(c) /\ UNCHANGED <<elevated, owners>> ELSE ClearAll /\ Ask(c)
    /\ UNCHANGED <<turns, timer, callback, firing, alive, stopping, teardown, calls, deaths>>

(* elevate while another session is marked.  A container that is ready is  *)
(* used as it is; a dead one clears every mark, except one that answers    *)
(* "not ready".                                                            *)
elevateOthers(c) ==
    /\ At(c, "elevate", "others")
    /\ \/ alive /\ Elevate(c) /\ ResetTimer /\ Return(c) /\ UNCHANGED owners
       \/ ~alive /\ Ask(c) /\ ClearAll /\ UNCHANGED timer
       \/ ~alive /\ Ask(c) /\ UNCHANGED <<elevated, owners, timer>>
    /\ UNCHANGED <<turns, callback, firing, alive, stopping, teardown, calls, deaths>>

(* exec and process: the health check of checkElevation.                   *)
checkElevation(c) ==
    /\ call[c].tool \in {"exec", "background", "process"} /\ In(c, "begun")
    /\ IF alive THEN Goto(c, "run") /\ UNCHANGED <<elevated, owners>> ELSE ClearAll /\ Ask(c)
    /\ UNCHANGED <<turns, timer, callback, firing, alive, stopping, teardown, calls, deaths>>

(* Mutant: the pending teardown is not awaited.                            *)
awaitTeardownNot(c) ==
    /\ In(c, "wait")
    /\ call' = [call EXCEPT ![c] = ToolCall(@.tool, "start", @.pending, @.saw)]
    /\ UNCHANGED <<turns, elevated, owners, timer, callback, firing, alive, stopping, teardown, calls, deaths>>

(* The promise the call took has been resolved.                            *)
awaitTeardown(c) ==
    /\ In(c, "wait") /\ call[c].pending = {}
    /\ call' = [call EXCEPT ![c] = ToolCall(@.tool, "start", @.pending, @.saw)]
    /\ UNCHANGED <<turns, elevated, owners, timer, callback, firing, alive, stopping, teardown, calls, deaths>>

(* provider.start, then the health check: up, or an error result.          *)
provideStart(c) ==
    /\ In(c, "start")
    /\ alive' = TRUE
    /\ Goto(c, "mark")
    /\ UNCHANGED <<turns, elevated, owners, timer, callback, firing, stopping, teardown, calls, deaths>>

startFails(c) ==
    /\ In(c, "start") \/ (In(c, "mark") /\ ~alive)
    /\ Return(c)
    /\ UNCHANGED <<turns, elevated, owners, timer, callback, firing, alive, stopping, teardown, calls, deaths>>

(* Started: elevate marks the session and resets the timer, checkElevation *)
(* marks it and goes on to the command.                                    *)
mark(c) ==
    /\ In(c, "mark")
    /\ Elevate(c)
    /\ IF call[c].tool = "elevate" THEN ResetTimer /\ Return(c) ELSE Goto(c, "run") /\ UNCHANGED timer
    /\ UNCHANGED <<turns, owners, callback, firing, alive, stopping, teardown, calls, deaths>>

(* exec runs its command to the end; a background command gets an owner.   *)
(* process only looks (poll, log, write, kill, list), and a command that   *)
(* fails in the container throws out of the tool.                          *)
runCommand(c) ==
    /\ In(c, "run")
    /\ \/ /\ alive /\ call[c].tool # "process"
          /\ owners' = IF call[c].tool = "background" THEN owners \union {SessionOf(c)} ELSE owners
          /\ Goto(c, "timer")
       \/ Return(c) /\ UNCHANGED owners
    /\ UNCHANGED <<turns, elevated, timer, callback, firing, alive, stopping, teardown, calls, deaths>>

(* process "remove".                                                       *)
removeProcess(c) ==
    /\ At(c, "process", "run") /\ SessionOf(c) \in owners
    /\ owners' = owners \ {SessionOf(c)}
    /\ Return(c)
    /\ UNCHANGED <<turns, elevated, timer, callback, firing, alive, stopping, teardown, calls, deaths>>

(* exec has listed the processes for the length of the timeout.            *)
resetDeElevationTimer(c) ==
    /\ In(c, "timer")
    /\ ResetTimer
    /\ Return(c)
    /\ UNCHANGED <<turns, elevated, owners, callback, firing, alive, stopping, teardown, calls, deaths>>

(* de_elevate: clear the mark; when no other is elevated, cancel the timer *)
(* (which also drops its callback) and stop the container without waiting. *)
deElevate(c) ==
    /\ At(c, "de_elevate", "begun")
    /\ elevated' = elevated \ {SessionOf(c)}
    /\ IF elevated' # {}
       THEN UNCHANGED <<timer, callback, stopping, teardown>>
       ELSE LET stop == CHOOSE i \in 1 .. MaxCalls : i \notin stopping
            IN  /\ timer' = FALSE /\ callback' = FALSE
                /\ stopping' = stopping \union {stop}
                /\ teardown' = {stop}
    /\ Return(c)
    /\ UNCHANGED <<turns, owners, firing, alive, calls, deaths>>

(* A stop of de_elevate has reached the container, or failed: its promise  *)
(* is resolved, and cleared if it is still the current one.                *)
stopped(i) ==
    /\ i \in stopping
    /\ stopping' = stopping \ {i}
    /\ teardown' = teardown \ {i}
    /\ alive' \in {FALSE, alive}
    /\ call' = [c \in Calls |->
           ToolCall(call[c].tool, call[c].pc, call[c].pending \ {i}, call[c].saw \ {i})]
    /\ UNCHANGED <<turns, elevated, owners, timer, callback, firing, calls, deaths>>

-----------------------------------------------------------------------------
(* handleAlarmFired when the callback has returned: row and callback go,   *)
(* whatever they then are.                                                 *)
TimerDone == timer' = FALSE /\ callback' = FALSE

(* The idle timer is due: the scheduler runs the callback, registering it  *)
(* first if the object was restarted.  With nobody elevated it returns at  *)
(* once; otherwise it aborts all runs, whose calls end while no more are   *)
(* made, and stops processes and container.                                *)
timerFires ==
    /\ TimerFires
    /\ timer /\ firing = "no"
    /\ IF elevated = {} THEN TimerDone /\ UNCHANGED <<firing, turns>>
       ELSE firing' = "stop" /\ callback' = TRUE /\ turns' = {} /\ UNCHANGED timer
    /\ UNCHANGED <<elevated, owners, alive, stopping, teardown, call, calls, deaths>>

timerStops ==
    /\ firing = "stop"
    /\ firing' = "stopped"
    /\ alive' = FALSE
    /\ UNCHANGED <<turns, elevated, owners, timer, callback, stopping, teardown, call, calls, deaths>>

(* The container's answer, or that it gave none: all marks are cleared and *)
(* the callback returns.                                                   *)
timerReturns ==
    /\ firing \in {"stop", "stopped"}
    /\ firing' = "no"
    /\ ClearAll
    /\ TimerDone
    /\ UNCHANGED <<turns, alive, stopping, teardown, call, calls, deaths>>

(* A client connects to an elevated session: a dead container clears all.  *)
onConnect(s) ==
    /\ s \in elevated /\ ~alive
    /\ ClearAll
    /\ UNCHANGED <<turns, timer, callback, firing, alive, stopping, teardown, call, calls, deaths>>

containerDies ==
    /\ alive /\ deaths < MaxDeaths
    /\ alive' = FALSE /\ deaths' = deaths + 1
    /\ UNCHANGED <<turns, elevated, owners, timer, callback, firing, stopping, teardown, call, calls>>

(* The idle object hibernates: marks, owners and the timer's row stay.     *)
hibernate ==
    /\ deaths < MaxDeaths /\ deaths' = deaths + 1
    /\ firing = "no" /\ stopping = {} /\ \A s \in Sessions : s \notin turns /\ Idle(s)
    /\ callback' = FALSE /\ teardown' = {}
    /\ UNCHANGED <<turns, elevated, owners, timer, firing, alive, stopping, call, calls>>

Next ==
    \/ timerFires \/ timerStops \/ timerReturns
    \/ containerDies \/ hibernate
    \/ \E s \in Sessions :
         \/ turnStarts(s) \/ turnEnds(s) \/ onConnect(s)
         \/ \E n \in 1 .. CallsAtOnce : \E tools \in [1 .. n -> Tools] : message(s, n, tools)
    \/ \E c \in Calls :
         \/ elevateOwn(c) \/ elevateOthers(c) \/ checkElevation(c) \/ deElevate(c)
         \/ awaitTeardown(c) \/ provideStart(c) \/ startFails(c) \/ mark(c)
         \/ runCommand(c) \/ removeProcess(c) \/ resetDeElevationTimer(c)
    \/ \E i \in stopping : stopped(i)

Spec == Init /\ [][Next]_vars

-----------------------------------------------------------------------------
(* A call that asks for the teardown promise while a stop of de_elevate is *)
(* in flight does not start the container before that stop has arrived,    *)
(* whatever other calls, deaths and firings come in between.  A call that  *)
(* had asked before the stop began (exec beside de_elevate in one message) *)
(* has no such promise.  The promise is one for all sessions, and a stop   *)
(* that comes during another one takes its place.                          *)
ReelevateWaits == \A c \in Calls : call[c].pc = "start" => call[c].saw = {}
StopsApart == \A i, j \in stopping : i = j

Quiet == firing = "no" /\ \A s \in Sessions : Idle(s)

(* While a session is elevated and nothing is in progress, the idle timer  *)
(* is pending, so the sandbox is stopped after a period of inactivity.     *)
ElevatedHasTimer == Quiet /\ elevated # {} => timer
=============================================================================
