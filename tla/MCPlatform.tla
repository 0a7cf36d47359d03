------------------------------ MODULE MCPlatform ------------------------------
(***************************************************************************)
(* What is around a turn, each part by itself: the choice and the run of a *)
(* bundle, tasks of other agents, the browser's view of a session, a chat  *)
(* channel and its rate limiter, and the sessions that sockets and senders *)
(* are routed to. `component` says which one this behaviour is of; the     *)
(* others stay as they begin. A conjunct beside a part's Next keeps that   *)
(* part to some of its callers or bounds.                                  *)
(***************************************************************************)
EXTENDS Channel, Platform

VARIABLE component


PackVars == <<component, vars, dispatchVars, taskVars, routingVars,
              bundleVars, viewVars>>

\* One host that takes every version, and one that lacks what v2 needs and has
\* a config namespace that v1 declares.
Deployments == {[caps |-> {"v1", "v2", "v3"}, config |-> {"v1", "v2", "v3"}],
                [caps |-> {"v1", "v3"}, config |-> {"v2", "v3"}]}
Rebuilds == [v \in {"v1"} |-> "v3"]

\* Two accounts of a channel that one sender writes to; the first account may be
\* used once in a window. The last key is the limiter's by itself.
Accounted == [m \in {"m1", "m2", "m3"} |-> IF m = "m2" THEN "b" ELSE "a"]
OneSender == [m \in {"m1", "m2", "m3"} |-> "s"]
Alone == <<"k">>
Buckets == {<<"a", "s">>, <<"b", "s">>, <<"a">>, <<"b">>, Alone}
Limits == [k \in Buckets |->
             [perMinute |-> IF k = <<"a">> THEN 1 ELSE 2,
              perHour   |-> IF k = Alone THEN 3 ELSE 0]]

Components == {"turns", "requests", "bundle", "a2a", "view", "channel",
               "channelTurns", "limiter", "routing"}

\* Of a component that does not run, one initial state.
PackInit ==
  /\ component \in Components
  /\ D!Init /\ (component \notin {"turns", "requests"} => host.caps = host.config)
  /\ B!Init /\ (component # "bundle" => before = <<B!User>>)
  /\ A!Init /\ V!Init /\ Init /\ N!Init

PackNext ==
  \/ /\ component = "turns" /\ D!Next
     /\ task'["s1"] = task["s1"]
     /\ UNCHANGED <<component, vars, taskVars, routingVars, bundleVars,
                    viewVars>>
  \/ /\ component = "requests" /\ D!Next
     /\ task'["t2"] = task["t2"]
     /\ UNCHANGED <<component, vars, taskVars, routingVars, bundleVars,
                    viewVars>>
  \/ /\ component = "bundle" /\ B!Next
     /\ UNCHANGED <<component, vars, dispatchVars, taskVars, routingVars,
                    viewVars>>
  \/ /\ component = "a2a" /\ A!Next
     /\ UNCHANGED <<component, vars, dispatchVars, routingVars, bundleVars,
                    viewVars>>
  \/ /\ component = "view" /\ V!Next
     /\ UNCHANGED <<component, vars, dispatchVars, taskVars, routingVars,
                    bundleVars>>
  \/ /\ component = "channel" /\ Next
     /\ clock' = 0 /\ turns' = 0
     /\ UNCHANGED <<component, dispatchVars, taskVars, routingVars,
                    bundleVars, viewVars>>
  \/ /\ component = "channelTurns" /\ Next
     /\ clock' <= 1 /\ admins' = 0 /\ pc'["m3"] = "unsent"
     /\ UNCHANGED <<component, dispatchVars, taskVars, routingVars,
                    bundleVars, viewVars>>
  \/ /\ component = "limiter" /\ LimiterNext
     /\ \A k \in Keys \ {Alone} : consumed'[k] = <<>>
     /\ UNCHANGED <<accountVars, replyVars, pc, stash, run, order, turns, restarts>>
     /\ UNCHANGED <<component, dispatchVars, taskVars, routingVars,
                    bundleVars, viewVars>>
  \/ /\ component = "routing" /\ N!Next
     /\ UNCHANGED <<component, vars, dispatchVars, taskVars, bundleVars,
                    viewVars>>

PackSpec == PackInit /\ [][PackNext]_PackVars
-----------------------------------------------------------------------------
\* What the theorems about these components assume of their constants.
ASSUME PlatformConstants ==
  /\ LimitsArePositive /\ ChannelConstants
  /\ D!DispatchConstants /\ N!RoutingConstants /\ MaxTasks \in Nat
  /\ B!BundleConstants /\ V!ViewConstants
=============================================================================
