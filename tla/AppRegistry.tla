---------------------------- MODULE AppRegistry -----------------------------
(***************************************************************************)
(* The deployed versions of one app (one slug): rows in the agent's SQL,   *)
(* files and the CURRENT pointer in the bucket that the sandbox mounts.    *)
(* deploy_app, rollback_app and delete_app change both, the files through  *)
(* commands of the sandbox that are awaited, so calls of one message and   *)
(* of several sessions interleave there; requests read the bucket only.    *)
(***************************************************************************)
EXTENDS Naturals

CONSTANTS Calls,       \* tool calls that may run at a time
          Builds,      \* what a build directory can hold
          Failing,     \* the commands that may fail: "copy", "point", "rm"
          MaxId        \* bound: rows ever created for the slug, and versions

VARIABLES app,        \* the row of the slug, or NoApp
          ids,        \* ids given out
          files,      \* the version directories: version -> build
          CURRENT,    \* the pointer file, 0: there is none
          pc, call,   \* of each call: its await, and what it holds on to
          loaded,     \* the loader's cache: version -> build
          orderly     \* ghost: no two calls have overlapped, no rm has failed

vars == <<app, ids, files, CURRENT, pc, call, loaded, orderly>>

NoApp == [id |-> 0, current |-> 0, versions |-> <<>>]
Versions == 1..MaxId
Put(f, k, v) == [x \in DOMAIN f \cup {k} |-> IF x = k THEN v ELSE f[x]]
Without(f, S) == [x \in DOMAIN f \ S |-> f[x]]

Goes(c, where) == pc' = [pc EXCEPT ![c] = where]

\* A call begins, by itself or while others wait.
Begins == orderly' = (orderly /\ \A c \in Calls : pc[c] = "idle")

Init ==
  /\ app = NoApp /\ ids = 0
  /\ files = <<>> /\ CURRENT = 0 /\ loaded = <<>>
  /\ pc = [c \in Calls |-> "idle"]
  /\ call = [c \in Calls |-> [op |-> "none", id |-> 0, version |-> 0, build |-> 0]]
  /\ orderly = TRUE
-----------------------------------------------------------------------------
\* deploy_app past its checks of the working tree: the row is found or made,
\* and the number of the version is read, before the copy.
deploy(c, b) ==
  /\ pc[c] = "idle"
  /\ LET a == IF app # NoApp THEN app ELSE [NoApp EXCEPT !.id = ids + 1]
     IN  /\ a.id <= MaxId /\ a.current + 1 <= MaxId
         /\ app' = a
         /\ ids' = IF app # NoApp THEN ids ELSE ids + 1
         /\ call' = [call EXCEPT ![c] =
              [op |-> "deploy", id |-> a.id, version |-> a.current + 1, build |-> b]]
  /\ Goes(c, "copy") /\ Begins
  /\ UNCHANGED <<files, CURRENT, loaded>>

\* rollback_app of a version that has a row.
rollback(c, v) ==
  /\ pc[c] = "idle" /\ v \in DOMAIN app.versions
  /\ call' = [call EXCEPT ![c] =
       [op |-> "rollback", id |-> app.id, version |-> v, build |-> 0]]
  /\ Goes(c, "point") /\ Begins
  /\ UNCHANGED <<app, ids, files, CURRENT, loaded>>

\* delete_app of an app that exists.
delete(c) ==
  /\ pc[c] = "idle" /\ app # NoApp
  /\ call' = [call EXCEPT ![c] =
       [op |-> "delete", id |-> app.id, version |-> 0, build |-> 0]]
  /\ Goes(c, "rm") /\ Begins
  /\ UNCHANGED <<app, ids, files, CURRENT, loaded>>
-----------------------------------------------------------------------------
\* Mutant: the pointer is written before the files are there.
copyBehindPointer(c) ==
  /\ pc[c] = "copy"
  /\ CURRENT' = call[c].version
  /\ \/ /\ files' = Put(files, call[c].version, call[c].build) /\ Goes(c, "point")
     \/ /\ "copy" \in Failing /\ Goes(c, "idle")
        /\ \/ files' = Put(files, call[c].version, call[c].build)
           \/ UNCHANGED files
  /\ UNCHANGED <<app, ids, call, loaded, orderly>>

\* mkdir -p and cp -r. A copy that fails, or a backend that cannot be bundled,
\* ends the deployment and leaves what it has written.
copy(c) ==
  /\ pc[c] = "copy"
  /\ \/ /\ files' = Put(files, call[c].version, call[c].build) /\ Goes(c, "point")
     \/ /\ "copy" \in Failing /\ Goes(c, "idle")
        /\ \/ files' = Put(files, call[c].version, call[c].build)
           \/ UNCHANGED files
  /\ UNCHANGED <<app, ids, CURRENT, call, loaded, orderly>>

\* echo > CURRENT. Its exit code is not looked at: it fails too when a deletion
\* has taken the directory away.
point(c) ==
  /\ pc[c] = "point"
  /\ \/ /\ DOMAIN files # {} /\ CURRENT' = call[c].version
     \/ /\ DOMAIN files = {} \/ "point" \in Failing
        /\ UNCHANGED CURRENT
  /\ Goes(c, call[c].op)
  /\ UNCHANGED <<app, ids, files, call, loaded, orderly>>

\* rm -rf. Its exit code is not looked at either.
rm(c) ==
  /\ pc[c] = "rm"
  /\ \/ files' = <<>> /\ CURRENT' = 0 /\ UNCHANGED orderly
     \/ /\ "rm" \in Failing /\ orderly' = FALSE
        /\ \E S \in SUBSET DOMAIN files : files' = Without(files, S)
        /\ CURRENT' \in {CURRENT, 0}
  /\ Goes(c, "delete")
  /\ UNCHANGED <<app, ids, call, loaded>>
-----------------------------------------------------------------------------
\* The row the call knew is still there.
Mine(c) == app # NoApp /\ app.id = call[c].id

\* addVersion: the number is read once more; the primary key refuses one that
\* has a row, and the call throws. An app that has gone gets none.
register(c) ==
  /\ pc[c] = "deploy"
  /\ app' = IF ~Mine(c) \/ app.current + 1 \in DOMAIN app.versions
              THEN app
              ELSE [app EXCEPT !.current = @ + 1,
                      !.versions = Put(@, app.current + 1, call[c].build)]
  /\ Goes(c, "idle")
  /\ UNCHANGED <<ids, files, CURRENT, call, loaded, orderly>>

\* Mutant: the app is found by its slug again, not by its id.
restoreBySlug(c) ==
  /\ pc[c] = "rollback"
  /\ app' = IF app # NoApp THEN [app EXCEPT !.current = call[c].version] ELSE app
  /\ Goes(c, "idle")
  /\ UNCHANGED <<ids, files, CURRENT, call, loaded, orderly>>

\* update(app.id, { currentVersion }).
restore(c) ==
  /\ pc[c] = "rollback"
  /\ app' = IF Mine(c) THEN [app EXCEPT !.current = call[c].version] ELSE app
  /\ Goes(c, "idle")
  /\ UNCHANGED <<ids, files, CURRENT, call, loaded, orderly>>

\* AppStore.delete: the rows of this id.
remove(c) ==
  /\ pc[c] = "delete"
  /\ app' = IF Mine(c) THEN NoApp ELSE app
  /\ Goes(c, "idle")
  /\ UNCHANGED <<ids, files, CURRENT, call, loaded, orderly>>

\* A request for the app: CURRENT names the version, which is loaded unless the
\* loader has one under the same slug and number.
serve ==
  /\ CURRENT \in DOMAIN files \ DOMAIN loaded
  /\ loaded' = Put(loaded, CURRENT, files[CURRENT])
  /\ UNCHANGED <<app, ids, files, CURRENT, pc, call, orderly>>

Next ==
  \/ \E c \in Calls :
       \/ \E b \in Builds : deploy(c, b)
       \/ \E v \in Versions : rollback(c, v)
       \/ delete(c) \/ copy(c) \/ point(c) \/ rm(c)
       \/ register(c) \/ restore(c) \/ remove(c)
  \/ serve

Spec == Init /\ [][Next]_vars
-----------------------------------------------------------------------------
\* The version an app is said to be at has a row, whatever a deletion and a new
\* deployment did to the app while a rollback waited for its command.
PointerHasRow == app.current = 0 \/ app.current \in DOMAIN app.versions

\* What requests are sent to is there, wherever a call failed. For one call at a
\* time and deletions that succeed: a deployment that another call deletes the
\* app under points to a directory that is gone.
ServedHasFiles == CURRENT = 0 \/ CURRENT \in DOMAIN files

\* The version an app is said to be at has a row, whatever calls overlap and
\* fail; and, until calls overlap or a deletion's command fails, what requests
\* are sent to is there.
AppsServable == PointerHasRow /\ (orderly => ServedHasFiles)

\* A deployment that has come to its end has made a version, unless the app was
\* deleted meanwhile. openspec/specs/app-registry/spec.md:43 promises version
\* N+1; after a rollback the number is one that was used, and the row of that
\* version refuses it, when its files are already overwritten and pointed to.
DeployCreates ==
  [][\A c \in Calls :
       pc[c] = "deploy" /\ Mine(c) /\ pc'[c] = "idle" =>
         DOMAIN app'.versions # DOMAIN app.versions]_vars

\* Not so: the files of a version are the ones its row is of.
HistoryKept ==
  \A v \in DOMAIN app.versions :
    (\A c \in Calls : pc[c] = "idle") => v \in DOMAIN files /\ files[v] = app.versions[v]

\* Not so: requests get what the pointer's files hold. A version that is deployed
\* over, also after a deletion, is served from the loader's cache as it was.
ServedIsCurrent ==
  CURRENT \in DOMAIN loaded \cap DOMAIN files => loaded[CURRENT] = files[CURRENT]
=============================================================================
