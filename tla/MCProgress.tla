----------------------------- MODULE MCProgress -----------------------------
(***************************************************************************)
(* What has to happen in the end, for six components that each run by      *)
(* themselves: `component` says which one this behaviour is of, and the    *)
(* others stay as they begin.  The fairness of a component is its own.     *)
(***************************************************************************)
EXTENDS Scheduler

VARIABLE component

VARIABLES
  t_live, t_logged, t_queue, t_pc, t_agentOf, t_current, t_streaming,
  t_aborted, t_arrived, t_served, t_restarts, t_calm
VARIABLES
  d_active, d_cache, d_host, d_validated, d_failures, d_meta, d_rebuild,
  d_task, d_changes, d_failed, d_cleared
VARIABLES
  b_pc, b_before, b_history, b_conv, b_log, b_lost, b_broadcasts, b_sqlOps,
  b_expired, b_endShown, b_iter, b_deltas, b_todo, b_outcome
VARIABLES
  a_created, a_state, a_kind, a_reply, a_push, a_pending, a_check, a_busy,
  a_injecting, a_answered, a_delivered, a_bus, a_stream
VARIABLES
  c_hasToken, c_sockets, c_wsRef, c_active, c_disposed, c_mounted, c_awaiting,
  c_rejected, c_timers, c_timerRef, c_ping, c_status, c_reruns, c_failures

Deployments == {[caps |-> {"v1", "v2", "v3"}, config |-> {"v1", "v2", "v3"}],
                [caps |-> {"v1", "v3"}, config |-> {"v2", "v3"}]}

T == INSTANCE TurnLifecycle WITH
       Messages <- {"m1", "m2", "m3"}, None <- None, Gated <- FALSE,
       HasBundle <- FALSE, CanFail <- FALSE, CanDelete <- FALSE,
       CanManage <- TRUE, MaxRestarts <- 0,
       live <- t_live, logged <- t_logged, queue <- t_queue, pc <- t_pc,
       agentOf <- t_agentOf, current <- t_current, streaming <- t_streaming,
       aborted <- t_aborted, arrived <- t_arrived, served <- t_served,
       restarts <- t_restarts, calm <- t_calm

D == INSTANCE BundleDispatch WITH
       Versions <- {"v1", "v2", "v3"}, Hosts <- Deployments, Poison <- {"v2"}, Rebuilt <- [v \in {"v1"} |-> "v3"],
       Turns <- {"t1"}, Surfaces <- {}, MaxFailures <- 2, MaxChanges <- 2,
       active <- d_active, cache <- d_cache, host <- d_host,
       validated <- d_validated, failures <- d_failures, meta <- d_meta,
       rebuild <- d_rebuild, task <- d_task, changes <- d_changes,
       failed <- d_failed, cleared <- d_cleared

B == INSTANCE BundleTurn WITH
       MaxBroadcasts <- 2, MaxSqlOps <- 2, MAX_INFERENCE_ITERATIONS_PER_TURN <- 2, MaxDeltas <- 1,
       MaxCalls <- 1, CanExpire <- TRUE,
       pc <- b_pc, before <- b_before, history <- b_history, conv <- b_conv,
       log <- b_log, lost <- b_lost, broadcasts <- b_broadcasts,
       sqlOps <- b_sqlOps, expired <- b_expired, endShown <- b_endShown, iter <- b_iter,
       deltas <- b_deltas, todo <- b_todo, outcome <- b_outcome

A == INSTANCE A2A WITH
       MaxTasks <- 2,
       created <- a_created, state <- a_state, kind <- a_kind,
       reply <- a_reply, push <- a_push, pending <- a_pending,
       check <- a_check, busy <- a_busy, injecting <- a_injecting,
       answered <- a_answered, delivered <- a_delivered, bus <- a_bus,
       stream <- a_stream

C == INSTANCE ClientSocket WITH
       Urls <- {"u1", "u2"}, Reruns <- "url", MaxSockets <- 9, MaxReruns <- 3, MaxFailures <- 2,
       hasToken <- c_hasToken, rejected <- c_rejected, sockets <- c_sockets, wsRef <- c_wsRef, active <- c_active,
       disposed <- c_disposed, mounted <- c_mounted, awaiting <- c_awaiting,
       timers <- c_timers, timerRef <- c_timerRef, ping <- c_ping,
       status <- c_status, reruns <- c_reruns, failures <- c_failures

TVars == <<t_live, t_logged, t_queue, t_pc, t_agentOf, t_current, t_streaming,
           t_aborted, t_arrived, t_served, t_restarts, t_calm>>
DVars == <<d_active, d_cache, d_host, d_validated, d_failures, d_meta,
           d_rebuild, d_task, d_changes, d_failed, d_cleared>>
BVars == <<b_pc, b_before, b_history, b_conv, b_log, b_lost, b_broadcasts,
           b_sqlOps, b_expired, b_endShown, b_iter, b_deltas, b_todo, b_outcome>>
AVars == <<a_created, a_state, a_kind, a_reply, a_push, a_pending, a_check,
           a_busy, a_injecting, a_answered, a_delivered, a_bus, a_stream>>
CVars == <<c_hasToken, c_sockets, c_wsRef, c_active, c_disposed, c_mounted,
           c_awaiting, c_rejected, c_timers, c_timerRef, c_ping, c_status,
           c_reruns, c_failures>>

Components == {"turn", "alarm", "dispatch", "bundle", "task", "socket"}

PackInit ==
  /\ component \in Components
  /\ T!Init /\ Init /\ D!Init /\ B!Init /\ A!Init /\ C!Init
  /\ component # "dispatch" => d_host.config = d_host.caps
  /\ component # "bundle" => b_before = <<B!User>>
  /\ component # "socket" => c_active = "u1" /\ c_hasToken

PackNext ==
  \/ /\ component = "turn" /\ T!Next
     /\ UNCHANGED <<component, vars, DVars, BVars, AVars, CVars>>
  \/ /\ component = "alarm" /\ Next
     /\ UNCHANGED <<component, TVars, DVars, BVars, AVars, CVars>>
  \/ /\ component = "dispatch" /\ D!Next
     /\ UNCHANGED <<component, TVars, vars, BVars, AVars, CVars>>
  \/ /\ component = "bundle" /\ B!Next
     /\ UNCHANGED <<component, TVars, vars, DVars, AVars, CVars>>
  \/ /\ component = "task" /\ A!Next
     /\ UNCHANGED <<component, TVars, vars, DVars, BVars, CVars>>
  \/ /\ component = "socket" /\ C!Next
     /\ UNCHANGED <<component, TVars, vars, DVars, BVars, AVars>>

PackVars == <<component, TVars, vars, DVars, BVars, AVars, CVars>>

PackSpec ==
  /\ PackInit /\ [][PackNext]_PackVars
  /\ \A m \in {"m1", "m2", "m3"} : WF_TVars(component = "turn" /\ T!Progress(m))
  /\ WF_vars(component = "alarm" /\ AlarmStep)
  /\ \A t \in {"t1", "writer"} : WF_DVars(component = "dispatch" /\ D!Step(t))
  /\ WF_DVars(component = "dispatch" /\ D!startTurn("t1"))
  /\ WF_BVars(component = "bundle" /\ B!Step)
  /\ \A id \in {1, 2} :
       /\ WF_AVars(component = "task" /\ \E s \in A!Terminal : A!finish(id, s))
       /\ WF_AVars(component = "task" /\ A!closeStream(id))
  /\ WF_CVars(component = "socket" /\ C!Step)
-----------------------------------------------------------------------------
\* Every accepted message is dealt with (TurnLifecycle): run, steered, deleted
\* or failed, however the awaits of ensureAgent interleave.
EveryMessageSettles == T!EveryMessageSettles

\* A bundle version that cannot run does not stay active (BundleDispatch).
PoisonLeaves == component = "dispatch" => D!PoisonLeaves

\* Work that another isolate or agent does for this one ends: a bundle's turn
\* ends with an answer or as a failure (BundleTurn), and the stream of a blocking
\* message with text is closed (A2A).
RemoteWorkEnds ==
  /\ component = "bundle" => B!TurnEnds
  /\ A!StreamEnds

\* A mounted provider has an open socket for its url in the end, unless the last
\* getToken for the url rejected (ClientSocket).
Reconnects == component = "socket" => C!Reconnects
=============================================================================
