---------------------------- MODULE Configuration ----------------------------
(***************************************************************************)
(* Agent-level and capability configuration: the snapshot that a runtime   *)
(* loads and keeps (ensureAgentConfigLoaded), the two writers of it (the   *)
(* config_set tool and the client's agent-config action), the walk that    *)
(* tells the capabilities (handleAgentConfigSet), and config_set on a      *)
(* capability's own config, whose hook comes before the store.             *)
(*                                                                         *)
(* Every await is a step of its own, so callers interleave at each.  The   *)
(* storage of a Durable Object answers in the order it was asked: an       *)
(* operation takes effect when it is issued and its caller goes on when    *)
(* its turn in "io" comes.                                                 *)
(***************************************************************************)
EXTENDS Naturals, Sequences

CONSTANTS Callers,    \* handlers that may be in progress at once
          Namespaces, \* sequence: the namespaces of the schema, in its order
          Mapped,     \* sequence: per capability, the namespace its mapping reads
          Values,     \* values the schemas accept, the default among them
          Bad,        \* a stored value that the current schema refuses
          MaxOps      \* bound: operations started

VARIABLES store,      \* config:agent:{namespace}
          orphans,    \* config:agent:__orphans
          snap,       \* agentConfigSnapshot
          loaded,     \* agentConfigLoaded
          io,         \* callers in the order of their storage operations
          call,       \* per caller, where it is
          told,       \* per capability, the slice it was given last
          capStore,   \* config:capability:{id} of one capability
          capApplied, \* the config that capability's hook accepted last
          ops         \* operations started

vars == <<store, orphans, snap, loaded, io, call, told, capStore, capApplied, ops>>

Unset == "unset"
Default == "default"
Done == [pc |-> "idle"]
Names == {Namespaces[k] : k \in DOMAIN Namespaces}
Caps == DOMAIN Mapped
Valid(v) == v \in Values

(* What a loader takes a stored value for (ConfigStore, Value.Check).      *)
Loads(v) == IF Valid(v) THEN v ELSE Default

(* There are namespaces, and their values are told from none.              *)
ConfigConstants ==
    /\ Namespaces \in Seq(Names) /\ Namespaces # <<>>
    /\ Unset \notin Names \union Values /\ Default \in Values

Init ==
    /\ store \in [Names -> Values \union {Unset, Bad}]
    /\ orphans = [n \in Names |-> Unset]
    /\ snap = [n \in Names |-> Unset]
    /\ loaded = FALSE
    /\ io = <<>>
    /\ call = [p \in Callers |-> Done]
    /\ told = [c \in Caps |-> Unset]
    /\ capStore = Default /\ capApplied = Default
    /\ ops = 0

(* Issuing a storage operation puts the caller at the end of the line;     *)
(* Turn(p) is its answer.                                                  *)
Turn(p) == io # <<>> /\ Head(io) = p
Issue(p) == io' = Append(io, p)
Answered == io' = Tail(io)
Again(p) == io' = Append(Tail(io), p)

(* ensureAgentConfigLoaded: read the first namespace.                      *)
StartLoad(p, then) ==
    /\ call' = [call EXCEPT ![p] = [pc |-> "load", k |-> 1, then |-> then,
                                    read |-> store[Namespaces[1]]]]
    /\ Issue(p)

Prior(n, old) == [snap EXCEPT ![n] = old]

(* Put n := v, after reading the old value (config_set and                 *)
(* applyAgentConfigSet alike).                                             *)
Put(p, n, v) ==
    /\ store' = [store EXCEPT ![n] = v]
    /\ call' = [call EXCEPT ![p] = [pc |-> "put", n |-> n, v |-> v,
                  old |-> IF snap[n] = Unset THEN Default ELSE snap[n]]]

(* The client's agent-config "set": an unknown namespace or a value that   *)
(* fails the schema is refused (no step), then the snapshot is awaited.    *)
applyAgentConfigSet(p, n, v) ==
    /\ call[p] = Done /\ ops < MaxOps /\ ops' = ops + 1
    /\ IF loaded THEN Put(p, n, v) /\ Issue(p)
                 ELSE StartLoad(p, [n |-> n, v |-> v]) /\ UNCHANGED store
    /\ UNCHANGED <<orphans, snap, loaded, told, capStore, capApplied>>

(* config_set on an agent-level namespace: a tool of a run, so the agent   *)
(* has been built and the snapshot loaded.                                 *)
configSet(p, n, v) ==
    /\ call[p] = Done /\ ops < MaxOps /\ ops' = ops + 1
    /\ loaded
    /\ Put(p, n, v) /\ Issue(p)
    /\ UNCHANGED <<orphans, snap, loaded, told, capStore, capApplied>>

(* ensureAgent, onConnect and the others that only need the snapshot.      *)
load(p) ==
    /\ call[p] = Done /\ ops < MaxOps /\ ops' = ops + 1
    /\ ~loaded
    /\ StartLoad(p, [n |-> Unset, v |-> Default])
    /\ UNCHANGED <<store, orphans, snap, loaded, told, capStore, capApplied>>

(* The next namespace of the loop, or the end of it: the capabilities are  *)
(* resolved with the snapshot, or the client's write goes on.              *)
NextNamespace(p, s) ==
    LET c == call[p] IN
    IF c.k < Len(Namespaces)
    THEN /\ call' = [call EXCEPT ![p] = [c EXCEPT !.pc = "load", !.k = c.k + 1,
                                                  !.read = store[Namespaces[c.k + 1]]]]
         /\ Again(p)
         /\ UNCHANGED <<loaded, told, store>>
    ELSE /\ loaded' = TRUE
         /\ told' = IF loaded THEN told ELSE [x \in Caps |-> s[Mapped[x]]]
         /\ IF c.then.n = Unset
            THEN call' = [call EXCEPT ![p] = Done] /\ Answered /\ UNCHANGED store
            ELSE /\ store' = [store EXCEPT ![c.then.n] = c.then.v]
                 /\ call' = [call EXCEPT ![p] = [pc |-> "put", n |-> c.then.n, v |-> c.then.v,
                                                 old |-> s[c.then.n]]]
                 /\ Again(p)

(* Mutant: a refused value leaves the snapshot without its namespace.      *)
loadAnsweredNoDefault(p) ==
    /\ Turn(p) /\ call[p].pc = "load"
    /\ LET n == Namespaces[call[p].k]
           v == call[p].read
       IN IF v = Unset \/ Valid(v)
          THEN snap' = [snap EXCEPT ![n] = Loads(v)] /\ NextNamespace(p, snap')
          ELSE /\ call' = [call EXCEPT ![p].pc = "orphans"]
               /\ Again(p) /\ UNCHANGED <<snap, loaded, told, store>>
    /\ UNCHANGED <<orphans, capStore, capApplied, ops>>

loadAnswered(p) ==
    /\ Turn(p) /\ call[p].pc = "load"
    /\ LET n == Namespaces[call[p].k]
           v == call[p].read
       IN /\ snap' = [snap EXCEPT ![n] = Loads(v)]
          /\ IF v = Unset \/ Valid(v)
             THEN NextNamespace(p, snap')
             ELSE \* an orphan: read the record of orphans
                  /\ call' = [call EXCEPT ![p].pc = "orphans"]
                  /\ Again(p) /\ UNCHANGED <<loaded, told, store>>
    /\ UNCHANGED <<orphans, capStore, capApplied, ops>>

(* The record is written back with this namespace's raw value in it.       *)
orphansAnswered(p) ==
    /\ Turn(p) /\ call[p].pc = "orphans"
    /\ orphans' = [orphans EXCEPT ![Namespaces[call[p].k]] = call[p].read]
    /\ call' = [call EXCEPT ![p].pc = "recorded"]
    /\ Again(p)
    /\ UNCHANGED <<store, snap, loaded, told, capStore, capApplied, ops>>

orphanRecorded(p) ==
    /\ Turn(p) /\ call[p].pc = "recorded"
    /\ NextNamespace(p, snap)
    /\ UNCHANGED <<orphans, snap, capStore, capApplied, ops>>

(* The write is stored: change the snapshot, start handleAgentConfigSet.   *)
putAnswered(p) ==
    /\ Turn(p) /\ call[p].pc = "put"
    /\ snap' = [snap EXCEPT ![call[p].n] = call[p].v]
    /\ call' = [call EXCEPT ![p] = [pc |-> "hooks", c |-> 1, v |-> call[p].v, n |-> call[p].n,
                                    prior |-> Prior(call[p].n, call[p].old)]]
    /\ Answered
    /\ UNCHANGED <<store, orphans, loaded, told, capStore, capApplied, ops>>

(* One capability of the walk (host and bundle capabilities alike): its    *)
(* slice of the prior snapshot against its slice of the live one; the      *)
(* hook, awaited, may throw without consequence.                           *)
handleAgentConfigSet(p) ==
    /\ call[p].pc = "hooks"
    /\ LET c == call[p].c
           new == snap[Mapped[c]]
       IN /\ told' = IF call[p].prior[Mapped[c]] = new THEN told ELSE [told EXCEPT ![c] = new]
          /\ call' = [call EXCEPT ![p] = IF c = Len(Mapped) THEN Done ELSE [call[p] EXCEPT !.c = c + 1]]
    /\ UNCHANGED <<store, orphans, snap, loaded, io, capStore, capApplied, ops>>

(* config_set on a capability: onConfigChange (or the bundle's dispatcher) *)
(* is awaited and accepts or refuses; only an accepted value is stored.    *)
configSetCapability(p, v) ==
    /\ call[p] = Done /\ ops < MaxOps /\ ops' = ops + 1
    /\ loaded
    /\ call' = [call EXCEPT ![p] = [pc |-> "change", v |-> v]]
    /\ UNCHANGED <<store, orphans, snap, loaded, io, told, capStore, capApplied>>

onConfigChange(p) ==
    /\ call[p].pc = "change"
    /\ \/ capApplied' = call[p].v /\ call' = [call EXCEPT ![p].pc = "store"]
       \/ call' = [call EXCEPT ![p] = Done] /\ UNCHANGED capApplied
    /\ UNCHANGED <<store, orphans, snap, loaded, io, told, capStore, ops>>

capabilityStored(p) ==
    /\ call[p].pc = "store"
    /\ capStore' = call[p].v
    /\ call' = [call EXCEPT ![p] = Done]
    /\ UNCHANGED <<store, orphans, snap, loaded, io, told, capApplied, ops>>

(* The object is evicted: storage stays, the callers are gone.             *)
evict ==
    /\ ops < MaxOps /\ ops' = ops + 1
    /\ snap' = [n \in Names |-> Unset] /\ loaded' = FALSE
    /\ io' = <<>> /\ call' = [p \in Callers |-> Done]
    /\ told' = [c \in Caps |-> Unset] /\ capApplied' = capStore
    /\ UNCHANGED <<store, orphans, capStore>>

Next ==
    \/ \E p \in Callers :
         \/ load(p)
         \/ \E n \in Names, v \in Values : applyAgentConfigSet(p, n, v) \/ configSet(p, n, v)
         \/ \E v \in Values : configSetCapability(p, v)
         \/ loadAnswered(p) \/ orphansAnswered(p) \/ orphanRecorded(p)
         \/ putAnswered(p) \/ handleAgentConfigSet(p)
         \/ onConfigChange(p) \/ capabilityStored(p)
    \/ evict

Spec == Init /\ [][Next]_vars

-----------------------------------------------------------------------------
Quiet == loaded /\ \A p \in Callers : call[p] = Done

(* Once all callers are done, the snapshot is what a restart would load:   *)
(* loaders that overlap each other and overlap writes leave no stale value *)
(* behind (agentConfigLoaded is set only at the end of a load, so several  *)
(* loads run at once).                                                     *)
SnapshotIsStored == Quiet => \A n \in Names : snap[n] = Loads(store[n])

(* Once all callers are done, every capability has been told the slice     *)
(* that is in force, though the walks of overlapping writes interleave and *)
(* skip capabilities whose slice looks unchanged.                          *)
ToldIsCurrent == Quiet => \A c \in Caps : told[c] = snap[Mapped[c]]

(* Once all callers are done, a capability's stored config is the one its  *)
(* hook accepted last.                                                     *)
AppliedIsStored == Quiet => capStore = capApplied
=============================================================================
