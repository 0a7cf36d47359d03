---------------------------- MODULE MCCapabilities ----------------------------
(***************************************************************************)
(* The parts a turn is made of, each by itself: a session under faults,    *)
(* the order of queued messages, compaction, the task tracker, the         *)
(* sandbox, the capability caches, the configuration, child agents and the *)
(* exchange with the model. `component` says which one this behaviour is   *)
(* of; the others stay as they begin. A conjunct beside a part's Next      *)
(* keeps that part to some of its callers or bounds.                       *)
(***************************************************************************)
EXTENDS TurnLifecycle, Capabilities

VARIABLE component


PackVars == <<component, vars, listVars, childVars, configVars, sandboxVars,
              streamVars, taskVars, historyVars, requestVars>>

TwoNames == <<"n1", "n2">>

WritesAllowed == {<<1, 1>>, <<2, 2>>, <<2, 1>>}

\* A model with every wish but thinking as text, and one with no other wish.
Model(n, i, b, t) ==
  [normalizes |-> n, images |-> i, bridges |-> b, thinkingAsText |-> t]
TwoModels == {Model(TRUE, TRUE, TRUE, FALSE), Model(FALSE, FALSE, FALSE, TRUE)}

\* The session of this module's constants has three messages, a bundle that may
\* take them, and faults; this one has a fourth message and nothing else.
T == INSTANCE TurnLifecycle WITH
       Messages <- Messages \cup {"m4"}, HasBundle <- FALSE, CanFail <- FALSE,
       CanDelete <- FALSE, MaxRestarts <- 0

Components == {"faults", "turn", "compaction", "tasks", "sharedTasks",
               "sandbox", "lifecycle", "config", "subagents", "subagent",
               "stream", "request"}

\* Of a component that does not run, one initial state.
PackInit ==
  /\ component \in Components
  /\ IF component = "turn" THEN T!Init ELSE Init
  /\ K!Init /\ W!Init /\ B!Init /\ L!Init
  /\ G!Init /\ (component # "config" => store = [n \in {"n1", "n2"} |-> G!Unset])
  /\ S!Init /\ (component \notin {"subagents", "subagent"} => ~parentBusy)
  /\ M!Init
  /\ D!Init /\ (component # "request" => model.images)

PackNext ==
  \/ /\ component = "faults" /\ Next
     /\ UNCHANGED <<component, listVars, childVars, configVars, sandboxVars,
                    streamVars, taskVars, historyVars, requestVars>>
  \/ /\ component = "turn" /\ T!Next
     /\ UNCHANGED <<component, listVars, childVars, configVars, sandboxVars,
                    streamVars, taskVars, historyVars, requestVars>>
  \/ /\ component = "compaction" /\ K!Next
     /\ UNCHANGED <<component, vars, listVars, childVars, configVars,
                    sandboxVars, streamVars, taskVars, requestVars>>
  \/ /\ component = "tasks" /\ W!Next
     /\ \A t \in DOMAIN tasks' : tasks'[t].owner = 1
     /\ UNCHANGED <<component, vars, listVars, childVars, configVars,
                    sandboxVars, streamVars, historyVars, requestVars>>
  \/ /\ component = "sharedTasks" /\ W!Next
     /\ created' <= 2
     /\ UNCHANGED <<component, vars, listVars, childVars, configVars,
                    sandboxVars, streamVars, historyVars, requestVars>>
  \/ /\ component = "sandbox" /\ B!Next
     /\ B!StopsApart'
     /\ toolCall'[<<2, 2>>] = B!No
     /\ UNCHANGED <<component, vars, listVars, childVars, configVars,
                    streamVars, taskVars, historyVars, requestVars>>
  \/ /\ component = "lifecycle" /\ L!Next
     /\ UNCHANGED <<component, vars, childVars, configVars, sandboxVars,
                    streamVars, taskVars, historyVars, requestVars>>
  \/ /\ component = "config" /\ G!Next
     /\ UNCHANGED <<component, vars, listVars, childVars, sandboxVars,
                    streamVars, taskVars, historyVars, requestVars>>
  \/ /\ component = "subagents" /\ S!Next
     /\ connects' <= 1 /\ evictions' = 0
     /\ UNCHANGED <<component, vars, listVars, configVars, sandboxVars,
                    streamVars, taskVars, historyVars, requestVars>>
  \/ /\ component = "subagent" /\ S!Next
     /\ childRun'[2] = "none"
     /\ UNCHANGED <<component, vars, listVars, configVars, sandboxVars,
                    streamVars, taskVars, historyVars, requestVars>>
  \/ /\ component = "stream" /\ M!Next
     /\ UNCHANGED <<component, vars, listVars, childVars, configVars,
                    sandboxVars, taskVars, historyVars, requestVars>>
  \/ /\ component = "request" /\ D!Next
     /\ UNCHANGED <<component, vars, listVars, childVars, configVars,
                    sandboxVars, streamVars, taskVars, historyVars>>

PackSpec == PackInit /\ [][PackNext]_PackVars
-----------------------------------------------------------------------------
\* What the theorems about these components assume of their constants.
ASSUME CapabilityConstants ==
  G!ConfigConstants /\ MaxConnects \in Nat /\ MaxTasks \in Nat /\ M!StreamConstants
  /\ K!CompactionConstants
=============================================================================
