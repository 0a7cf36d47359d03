------------------------------- MODULE Skills -------------------------------
(***************************************************************************)
(* One skill: its row in the agent's storage, its SKILL.md in the bucket,  *)
(* and the copy of the row that a capability list keeps for the prompt.    *)
(* A connection synchronises it with the registry, file tools edit it, and *)
(* HTTP requests install it; calls interleave where the registry or the    *)
(* bucket is awaited (storage calls hold other events back).  Texts are    *)
(* numbers: a registry version stands for its text and its hash, greater   *)
(* ones are the agent's edits.                                             *)
(***************************************************************************)
EXTENDS Naturals, FiniteSets

CONSTANTS Syncs, Tools, Requests,  \* onConnect hooks, tool calls, HTTP requests
          MaxVersion, MaxEdits, MaxOps, MaxTurns   \* bounds

VARIABLES declared,   \* the agent's definition: "no", "on", "off"
          published,  \* the newest version in the registry
          row,        \* installed:<id>
          conflict,   \* conflict:<id>: the upstream version, 0: none
          file,       \* SKILL.md, 0: none
          cache,      \* cachedSkills of the present list: {} or {row}
          own,        \* calls whose capability list is the present one
          first,      \* the present list is the one HTTP handlers belong to
          pc, at,     \* of each call: its await, and what it holds on to
          prompt,     \* the prompt of the turn that runs, "none": none runs
          ops, turns,
          orderly,    \* ghost: no two calls overlapped, and no write failed of the
                      \* file of a row that was enabled before it
          clean       \* ghost: calls to the registry came one at a time, and no
                      \* conflict outlived the row it was about

vars == <<declared, published, row, conflict, file, cache, own, first, pc, at,
          prompt, ops, turns, orderly, clean>>
stored == <<row, conflict, file>>
lists == <<own, first>>
world == <<declared, published, prompt, turns>>

\* Hooks and requests are different calls; versions and edits are numbers.
SkillConstants == Syncs \cap Requests = {} /\ {MaxVersion, MaxEdits} \subseteq Nat

Callers == Syncs \cup Tools \cup Requests
Edits == (MaxVersion + 1)..(MaxVersion + MaxEdits)
NoRow == [enabled |-> FALSE, origin |-> "none", version |-> 0, dirty |-> FALSE]
Fresh(v, on) == [enabled |-> on, origin |-> "registry", version |-> v, dirty |-> FALSE]
Nothing == [v |-> 0, on |-> FALSE, row |-> NoRow]
Wanted == declared = "on"

Init ==
  /\ declared \in {"no", "on", "off"} /\ published = 1
  /\ row = NoRow /\ conflict = 0 /\ file = 0
  /\ cache = {} /\ own = {} /\ first = TRUE
  /\ pc = [a \in Callers |-> "idle"] /\ at = [a \in Callers |-> Nothing]
  /\ prompt = "none" /\ ops = 0 /\ turns = 0
  /\ orderly = TRUE /\ clean = TRUE
-----------------------------------------------------------------------------
Goes(a, where) == pc' = [pc EXCEPT ![a] = where]
Holds(a, h) == at' = [at EXCEPT ![a] = h]

Begins(a, where, h) ==
  /\ pc[a] = "idle"
  /\ ops < MaxOps /\ ops' = ops + 1
  /\ Goes(a, where) /\ Holds(a, h)
  /\ orderly' = (orderly /\ \A b \in Callers : pc[b] = "idle")

\* A call that asks the registry, until its last storage call.
AtRegistry == {"ask", "asked", "write", "rewrite", "written", "over"}
AsksAlone == clean' = (clean /\ \A b \in Callers : pc[b] \notin AtRegistry)

\* The call waits at `where`.
Waits(a, where, h) ==
  Goes(a, where) /\ Holds(a, h) /\ UNCHANGED <<cache, ops, orderly>>

\* The call is over; with the last storage call it lists the rows for the
\* prompts of its own list.
Ends(a) ==
  /\ Goes(a, "idle") /\ Holds(a, Nothing)
  /\ cache' = IF a \in own THEN {row'} ELSE cache
  /\ UNCHANGED <<ops, orderly>>

\* The call is over without that, by an error or an early answer.
Leaves(a) ==
  Goes(a, "idle") /\ Holds(a, Nothing) /\ UNCHANGED <<cache, ops, orderly>>
-----------------------------------------------------------------------------
\* onConnect: syncSkills lists the rows, then asks the registry.
sync(a) ==
  /\ declared # "no"
  /\ Begins(a, "ask", [Nothing EXCEPT !.row = row])
  /\ own' = own \cup {a} /\ AsksAlone
  /\ UNCHANGED <<first, cache, stored, world>>

\* The registry reads its newest version, or has none or fails.
ask(a) ==
  /\ pc[a] = "ask"
  /\ \E v \in {published, 0} : Waits(a, "asked", [at[a] EXCEPT !.v = v])
  /\ UNCHANGED <<lists, stored, world, clean>>

\* syncSingleSkill with the registry's answer: needs say whether the version
\* requires a capability the agent lacks.
asked(a, lacks) ==
  /\ a \in Syncs /\ pc[a] = "asked"
  /\ LET v == at[a].v
         put(r) == row' = r /\ UNCHANGED <<conflict, file>> /\ Ends(a)
         write(r) == Waits(a, "write", [at[a] EXCEPT !.row = r])
                     /\ UNCHANGED stored
         new == Fresh(v, Wanted)
         updated == [row EXCEPT !.version = v, !.enabled = Wanted]
     IN  \/ v = 0 /\ put(row)
         \/ v > 0 /\ lacks /\ put(Fresh(v, FALSE))
         \/ /\ v > 0 /\ ~lacks /\ at[a].row = NoRow
            /\ IF Wanted THEN write(new) ELSE put(new)
         \/ /\ v > 0 /\ ~lacks /\ at[a].row # NoRow
            /\ \/ row.origin # "registry" /\ put(row)
               \/ /\ row.origin = "registry" /\ row.version = v
                  /\ IF row.enabled = Wanted \/ ~Wanted
                       THEN put([row EXCEPT !.enabled = Wanted])
                       ELSE /\ row' = [row EXCEPT !.enabled = TRUE]
                            /\ Waits(a, "rewrite", at[a])
                            /\ UNCHANGED <<conflict, file>>
               \/ /\ row.origin = "registry" /\ row.version # v /\ row.dirty
                  /\ conflict' = v /\ UNCHANGED <<row, file>> /\ Ends(a)
               \/ /\ row.origin = "registry" /\ row.version # v /\ ~row.dirty
                  /\ IF Wanted THEN write(updated) ELSE put(updated)
  /\ clean' = (clean /\ ~(at[a].v # 0 /\ lacks /\ conflict # 0))
  /\ UNCHANGED <<lists, world>>

\* writeSkillToR2: the text is there ...
write(a) ==
  /\ pc[a] \in {"write", "rewrite"}
  /\ file' = at[a].v
  /\ Waits(a, IF pc[a] = "write" THEN "written" ELSE "over", at[a])
  /\ UNCHANGED <<row, conflict, lists, world, clean>>

\* ... and the call goes on: to the row as it was when the call looked, or, when
\* that is written already, to the end.
written(a) ==
  /\ pc[a] \in {"written", "over"}
  /\ row' = IF pc[a] = "written" THEN at[a].row ELSE row
  /\ Ends(a)
  /\ UNCHANGED <<conflict, file, lists, world, clean>>
-----------------------------------------------------------------------------
\* file_write or file_edit of SKILL.md in a turn, or file_delete: the tool is
\* done with the bucket before the hook runs.
edit(a, text) ==
  /\ prompt # "none" /\ (text = 0 => file # 0)
  /\ file' = text
  /\ Begins(a, IF text = 0 THEN "deleted" ELSE "edited", Nothing)
  /\ own' = own \cup {a}
  /\ UNCHANGED <<first, cache, row, conflict, world, clean>>

\* handleWrite reads the text back ...
edited(a) ==
  /\ pc[a] = "edited"
  /\ Waits(a, "read", [at[a] EXCEPT !.v = file])
  /\ UNCHANGED <<lists, stored, world, clean>>

\* Mutant: a conflict is resolved, but the version stays the old one.
handleWriteStale(a) ==
  /\ a \in Tools /\ pc[a] = "read"
  /\ LET text == at[a].v
     IN  row' =
           IF text = 0 THEN row
           ELSE IF row = NoRow THEN [NoRow EXCEPT !.enabled = TRUE, !.origin = "agent"]
           ELSE IF conflict # 0 THEN [row EXCEPT !.dirty = FALSE]
           ELSE IF row.origin = "registry" THEN [row EXCEPT !.dirty = text # row.version]
           ELSE row
  /\ conflict' = IF at[a].v # 0 /\ row # NoRow THEN 0 ELSE conflict
  /\ Ends(a)
  /\ UNCHANGED <<file, lists, world, clean>>

\* ... and takes it for a new skill, for the merge that resolves a conflict, or
\* for an edit of a registry skill if its hash is not the registry's.
handleWrite(a) ==
  /\ a \in Tools /\ pc[a] = "read"
  /\ LET text == at[a].v
     IN  row' =
           IF text = 0 THEN row
           ELSE IF row = NoRow THEN [NoRow EXCEPT !.enabled = TRUE, !.origin = "agent"]
           ELSE IF conflict # 0 THEN [row EXCEPT !.version = conflict, !.dirty = FALSE]
           ELSE IF row.origin = "registry" THEN [row EXCEPT !.dirty = text # row.version]
           ELSE row
  /\ conflict' = IF at[a].v # 0 /\ row # NoRow THEN 0 ELSE conflict
  /\ Ends(a)
  /\ UNCHANGED <<file, lists, world, clean>>

\* Mutant: a registry skill whose file is deleted stays enabled.
handleDeleteEnabled(a) ==
  /\ a \in Tools /\ pc[a] = "deleted"
  /\ row' = IF row.origin = "registry" THEN row ELSE NoRow
  /\ Ends(a)
  /\ UNCHANGED <<conflict, file, lists, world, clean>>

\* handleDelete: a registry skill is disabled, one of the agent's own is gone.
\* A conflict stays.
handleDelete(a) ==
  /\ a \in Tools /\ pc[a] = "deleted"
  /\ row' = IF row.origin = "registry" THEN [row EXCEPT !.enabled = FALSE] ELSE NoRow
  /\ Ends(a)
  /\ UNCHANGED <<conflict, file, lists, world, clean>>
-----------------------------------------------------------------------------
\* POST /skills/install of a skill that is not installed.
install(a, on) ==
  /\ row = NoRow
  /\ Begins(a, "ask", [Nothing EXCEPT !.on = on])
  /\ own' = (IF first THEN own \cup {a} ELSE own) /\ AsksAlone
  /\ UNCHANGED <<first, cache, stored, world>>

\* With the registry's answer: the text, if enabled, and then the row.
installing(a) ==
  /\ a \in Requests /\ pc[a] = "asked"
  /\ LET r == Fresh(at[a].v, at[a].on)
     IN  \/ at[a].v = 0 /\ Leaves(a) /\ UNCHANGED stored
         \/ /\ at[a].v > 0 /\ at[a].on
            /\ Waits(a, "write", [at[a] EXCEPT !.row = r]) /\ UNCHANGED stored
         \/ /\ at[a].v > 0 /\ ~at[a].on
            /\ row' = r /\ Ends(a) /\ UNCHANGED <<conflict, file>>
  /\ UNCHANGED <<lists, world, clean>>

\* POST /skills/uninstall of a skill the definition does not declare.
uninstall(a) ==
  /\ declared = "no" /\ row # NoRow
  /\ Begins(a, IF row.enabled THEN "drop" ELSE "dropped", Nothing)
  /\ own' = IF first THEN own \cup {a} ELSE own
  /\ UNCHANGED <<first, cache, stored, world, clean>>

drop(a) ==
  /\ pc[a] = "drop" /\ file' = 0 /\ Waits(a, "dropped", at[a])
  /\ UNCHANGED <<row, conflict, lists, world, clean>>

\* The row goes; a conflict stays.
dropped(a) ==
  /\ pc[a] = "dropped" /\ row' = NoRow /\ Ends(a)
  /\ clean' = (clean /\ conflict = 0)
  /\ UNCHANGED <<conflict, file, lists, world>>
-----------------------------------------------------------------------------
\* The bucket fails: a synchronisation goes on to list the rows, a request is
\* answered with an error, and a hook's error is logged.
fails(a) ==
  /\ pc[a] \in {"write", "rewrite", "edited", "drop"}
  /\ Goes(a, "idle") /\ Holds(a, Nothing)
  /\ cache' = IF a \in Syncs \cap own THEN {row} ELSE cache
  /\ orderly' = (orderly /\ pc[a] # "rewrite")
  /\ UNCHANGED <<stored, lists, world, ops, clean>>

\* A version is published.
publish ==
  /\ published < MaxVersion /\ published' = published + 1
  /\ UNCHANGED <<declared, stored, cache, lists, pc, at, prompt, ops, turns,
                 orderly, clean>>

\* ensureAgent: promptSections lists the enabled skills of the list's cache.
ensureAgent ==
  /\ prompt = "none" /\ turns < MaxTurns /\ turns' = turns + 1
  /\ prompt' = IF \E r \in cache : r.enabled THEN "listed" ELSE "excluded"
  /\ UNCHANGED <<declared, published, stored, cache, lists, pc, at, ops,
                 orderly, clean>>

\* agent_end drops the capability list: the next one has an empty cache, and a
\* call of the old list fills the old one's.
agentEnd ==
  /\ prompt # "none" /\ prompt' = "none"
  /\ \A a \in Tools : pc[a] = "idle"
  /\ cache' = {} /\ own' = {} /\ first' = FALSE
  /\ UNCHANGED <<declared, published, stored, pc, at, ops, turns, orderly, clean>>

Next ==
  \/ \E a \in Syncs : sync(a) \/ \E lacks \in BOOLEAN : asked(a, lacks)
  \/ \E a \in Requests :
       \/ \E on \in BOOLEAN : install(a, on)
       \/ installing(a) \/ uninstall(a) \/ drop(a) \/ dropped(a)
  \/ \E a \in Syncs \cup Requests : ask(a) \/ write(a) \/ written(a)
  \/ \E a \in Tools :
       \/ \E text \in {0, published} \cup Edits : edit(a, text)
       \/ edited(a) \/ handleWrite(a) \/ handleDelete(a)
  \/ \E a \in Callers : fails(a)
  \/ publish \/ ensureAgent \/ agentEnd

Spec == Init /\ [][Next]_vars
-----------------------------------------------------------------------------
Known(r, c) == IF r.version < c THEN c ELSE r.version

Loadable == row.enabled => file # 0

KeepsUpdate ==
  row.origin = "registry" /\ row'.origin = "registry" =>
    Known(row, conflict) <= Known(row', conflict')

\* A skill that is enabled can be loaded when no call is under way: the row and
\* the file are written apart, by synchronisations, the file tools' hooks and
\* requests. Until calls overlap, or a synchronisation that enables an installed
\* skill cannot write the file that it has enabled already.
\* An upstream version that a synchronisation has dealt with stays dealt with: it
\* is installed or waits as a conflict, whatever edits, merges and deletions come
\* between. Until calls to the registry overlap: of two, the one with the older
\* answer may come last and install it. And until a conflict outlives its row,
\* which nothing clears when the skill is uninstalled or a version disables it for
\* a capability that is lacking: the next edit of the skill, installed again, is
\* taken for the merge and moves the version back to the conflict's.
SkillsKept ==
  /\ [](orderly /\ (\A a \in Callers : pc[a] = "idle") => Loadable)
  /\ [][clean' => KeepsUpdate]_vars

\* Not so: the prompt of a turn lists the enabled skills; spec.md:135 of
\* openspec/specs/skills wants them read from the agent's state. The list that a
\* turn is given after another has ended has an empty cache until a client
\* connects.
SkillsListed ==
  [][prompt = "none" /\ prompt' # "none" /\ row.enabled => prompt' = "listed"]_vars

\* Not so: a synchronisation never overwrites the agent's edits.
EditsKept ==
  [][\A a \in Syncs : pc[a] \in {"write", "rewrite"} /\ pc'[a] # pc[a] =>
       file \notin Edits \/ file' = file]_vars
=============================================================================
