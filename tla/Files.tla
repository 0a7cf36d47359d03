------------------------------- MODULE Files --------------------------------
(***************************************************************************)
(* The files of an agent in its bucket: the agent's file tools, the        *)
(* actions of the file browser in the user's client, and that client's     *)
(* copies of listings and contents, kept up by broadcasts over a socket.   *)
(* A path is a sequence of names; a text stands for its hash too. The      *)
(* store is remote, so each call of it is an await; Slots says how many    *)
(* actions and tools may be under way at a time.                           *)
(***************************************************************************)
EXTENDS Naturals, Sequences, SequencesExt, FiniteSets

CONSTANTS Paths,       \* of the files there may be
          Dirs,        \* of the directories, without the root
          Stored,      \* the files of earlier sessions: file -> text
          Slots,       \* what may be under way at a time
          Clients,     \* browsers that show the files
          Faults,      \* of "fail" (calls of the store), "drop" (connections)
          MaxOps       \* bound: what users and agent do

VARIABLES bucket, markers,   \* file -> text; zero-byte directory markers
          jobs,              \* slot -> the action or tool under way, or Idle
          up, down,          \* of each client: requests, broadcasts
          cache, listings,   \* useR2Files: file -> text, directory -> listing
          expanded, pending, \* directories shown, unsettled promises
          open,              \* the editor's file, or Closed
          ops

vars == <<bucket, markers, jobs, up, down, cache, listings, expanded, pending,
          open, ops>>
client == <<up, cache, listings, expanded, pending, open, ops>>

Root == <<>>
Empty == 0                   \* the text of a file that was created
Closed == [path |-> Root, etag |-> Empty]
Idle == [op |-> "idle", pc |-> "idle", result |-> "none"]

In(p, d) == IsStrictPrefix(d, p)
Moved(p, from, to) == to \o SubSeq(p, Len(from) + 1, Len(p))
Put(f, k, v) == [x \in DOMAIN f \cup {k} |-> IF x = k THEN v ELSE f[x]]
Without(f, S) == [x \in DOMAIN f \ S |-> f[x]]
Above(p) == {d \in Dirs : In(p, d)}

\* One level of the bucket. A directory is there if it is marked or holds one.
Listing(d) ==
  {p \in DOMAIN bucket : Front(p) = d}
    \cup {e \in Dirs : /\ Front(e) = d
                       /\ \E p \in DOMAIN bucket \cup markers : p = e \/ In(p, e)}

Init ==
  /\ bucket = Stored
  /\ markers = UNION {Above(p) : p \in DOMAIN Stored}
  /\ jobs = [s \in Slots |-> Idle]
  /\ up = [c \in Clients |-> <<[op |-> "list", path |-> Root]>>]
  /\ down = [c \in Clients |-> <<>>]
  /\ cache = [c \in Clients |-> <<>>] /\ listings = [c \in Clients |-> <<>>]
  /\ expanded = [c \in Clients |-> {Root}]
  /\ pending = [c \in Clients |-> {}]
  /\ open = [c \in Clients |-> Closed]
  /\ ops = 0
-----------------------------------------------------------------------------
(* dispatchUiAction and the tools. A job goes from one call of the store to
   the next; pc names the call that comes. *)

FileTools == {"file_write", "file_edit", "file_delete", "file_copy", "file_move"}
Copies == {"file_copy", "file_move", "rename"}

First(op) ==
  CASE op = "list" -> "list"
    [] op \in {"write", "create", "rename", "rename_dir"} -> "head"
    [] op \in {"read", "file_edit", "file_copy", "file_move"} -> "get"
    [] op \in {"file_write", "mkdir"} -> "put"
    [] op \in {"delete", "file_delete"} -> "delete"
    [] op = "rmdir" -> "keys"

Job(r, to, text, etag) ==
  [op |-> r.op, path |-> r.path, to |-> to, text |-> text, etag |-> etag,
   keys |-> {}, left |-> {}, result |-> "ok", pc |-> First(r.op)]

Goes(s, pc) == jobs' = [jobs EXCEPT ![s].pc = pc]
Ends(s, result) == jobs' = [jobs EXCEPT ![s].pc = "done", ![s].result = result]

\* The next request of a client is taken up.
dispatch(s, c) ==
  /\ jobs[s] = Idle /\ up[c] # <<>>
  /\ LET r == Head(up[c])
     IN  jobs' = [jobs EXCEPT ![s] =
           IF r.op \in {"rename", "rename_dir"} THEN Job(r, r.to, Empty, Empty)
           ELSE IF r.op = "write" THEN Job(r, Root, r.text, r.etag)
           ELSE Job(r, Root, Empty, Empty)]
  /\ up' = [up EXCEPT ![c] = Tail(@)]
  /\ UNCHANGED <<bucket, markers, down, cache, listings, expanded, pending, open, ops>>

\* The agent calls a tool, with a second path for a copy or a move. A text is new
\* with each write; an edit finds the string it replaces.
execute(s, op, p, q) ==
  /\ jobs[s] = Idle /\ ops < MaxOps
  /\ op \notin Copies => p = q
  /\ ops' = ops + 1
  /\ jobs' = [jobs EXCEPT ![s] = Job([op |-> op, path |-> p], q, ops + 1, Empty)]
  /\ UNCHANGED <<bucket, markers, up, down, cache, listings, expanded, pending, open>>

list(s) ==
  /\ jobs[s].pc = "list"
  /\ jobs' = [jobs EXCEPT ![s].pc = "done", ![s].keys = Listing(jobs[s].path)]
  /\ UNCHANGED <<bucket, markers>>

\* A save is refused if the file is no longer what the client has; a file that is
\* gone is made again.
checkWrite(s) ==
  LET j == jobs[s]
  IN  /\ j.pc = "head" /\ j.op = "write"
      /\ IF j.path \in DOMAIN bucket /\ bucket[j.path] # j.etag
           THEN Ends(s, "conflict") ELSE Goes(s, "put")
      /\ UNCHANGED <<bucket, markers>>

checkCreate(s) ==
  LET j == jobs[s]
  IN  /\ j.pc = "head" /\ j.op = "create"
      /\ IF j.path \in DOMAIN bucket THEN Ends(s, "error") ELSE Goes(s, "put")
      /\ UNCHANGED <<bucket, markers>>

checkRename(s) ==
  LET j == jobs[s]
  IN  /\ j.pc = "head" /\ j.op = "rename"
      /\ IF j.to \in DOMAIN bucket THEN Ends(s, "error") ELSE Goes(s, "get")
      /\ UNCHANGED <<bucket, markers>>

checkRenameDir(s) ==
  LET j == jobs[s]
  IN  /\ j.pc = "head" /\ j.op = "rename_dir"
      /\ IF \E p \in DOMAIN bucket \cup markers : p = j.to \/ In(p, j.to)
           THEN Ends(s, "error") ELSE Goes(s, "keys")
      /\ UNCHANGED <<bucket, markers>>

Absent(s) == jobs[s].path \notin DOMAIN bucket /\ Ends(s, "error")

read(s) ==
  LET j == jobs[s]
  IN  /\ j.pc = "get" /\ j.op = "read"
      /\ \/ Absent(s)
         \/ /\ j.path \in DOMAIN bucket
            /\ jobs' = [jobs EXCEPT ![s].pc = "done", ![s].text = bucket[j.path]]
      /\ UNCHANGED <<bucket, markers>>

edit(s) ==
  LET j == jobs[s]
  IN  /\ j.pc = "get" /\ j.op = "file_edit"
      /\ Absent(s) \/ (j.path \in DOMAIN bucket /\ Goes(s, "put"))
      /\ UNCHANGED <<bucket, markers>>

\* Mutant: the source goes before its copy is there.
getThenDelete(s) ==
  LET j == jobs[s]
  IN  /\ j.pc = "get" /\ j.op \in Copies
      /\ \/ Absent(s)
         \/ /\ j.path \in DOMAIN bucket
            /\ jobs' = [jobs EXCEPT ![s].pc = "put", ![s].text = bucket[j.path]]
      /\ bucket' = IF j.op = "file_copy" THEN bucket ELSE Without(bucket, {j.path})
      /\ UNCHANGED markers

getSource(s) ==
  LET j == jobs[s]
  IN  /\ j.pc = "get" /\ j.op \in Copies
      /\ \/ Absent(s)
         \/ /\ j.path \in DOMAIN bucket
            /\ jobs' = [jobs EXCEPT ![s].pc = "put", ![s].text = bucket[j.path]]
      /\ UNCHANGED <<bucket, markers>>

\* The directories a file is in are marked first, but not by an edit.
put(s) ==
  LET j == jobs[s]
  IN  /\ j.pc = "put" /\ j.op \in {"write", "create", "file_write", "file_edit"}
      /\ bucket' = Put(bucket, j.path, j.text)
      /\ markers' = IF j.op = "file_edit" THEN markers ELSE markers \cup Above(j.path)
      /\ Goes(s, "done")

\* Copies mark no directory.
putCopy(s) ==
  LET j == jobs[s]
  IN  /\ j.pc = "put" /\ j.op \in Copies
      /\ bucket' = Put(bucket, j.to, j.text)
      /\ Goes(s, IF j.op = "file_copy" THEN "done" ELSE "delete")
      /\ UNCHANGED markers

mkdir(s) ==
  LET j == jobs[s]
  IN  /\ j.pc = "put" /\ j.op = "mkdir"
      /\ markers' = markers \cup {j.path} \cup Above(j.path)
      /\ Goes(s, "done")
      /\ UNCHANGED bucket

delete(s) ==
  /\ jobs[s].pc = "delete"
  /\ bucket' = Without(bucket, {jobs[s].path})
  /\ Goes(s, "done")
  /\ UNCHANGED markers
-----------------------------------------------------------------------------
(* Directories: the keys are listed once, copied one by one, deleted together. *)

keys(s) ==
  LET j == jobs[s]
      found == {p \in DOMAIN bucket \cup markers : p = j.path \/ In(p, j.path)}
  IN  /\ j.pc = "keys"
      /\ IF found = {} THEN Ends(s, "error")
         ELSE jobs' = [jobs EXCEPT ![s].keys = found, ![s].left = found,
                         ![s].pc = IF j.op = "rmdir" THEN "purge" ELSE "copy"]
      /\ UNCHANGED <<bucket, markers>>

copy(s) ==
  LET j == jobs[s]
  IN  /\ j.pc = "copy"
      /\ \/ /\ j.left = {} /\ Goes(s, "purge")
            /\ UNCHANGED <<bucket, markers>>
         \/ \E k \in j.left :
              /\ jobs' = [jobs EXCEPT ![s].left = @ \ {k}]
              /\ bucket' = IF k \in DOMAIN bucket
                             THEN Put(bucket, Moved(k, j.path, j.to), bucket[k])
                             ELSE bucket
              /\ markers' = IF k \in Dirs THEN markers \cup {Moved(k, j.path, j.to)}
                            ELSE markers

purge(s) ==
  /\ jobs[s].pc = "purge"
  /\ bucket' = Without(bucket, jobs[s].keys) /\ markers' = markers \ jobs[s].keys
  /\ Goes(s, "done")

\* A call of the store fails, or its answer is lost.
fail(s) ==
  /\ "fail" \in Faults
  /\ jobs[s].result = "ok"
  /\ Ends(s, "error")
  /\ UNCHANGED <<bucket, markers>>

Work(s) ==
  /\ \/ list(s) \/ read(s) \/ edit(s) \/ getSource(s)
     \/ checkWrite(s) \/ checkCreate(s) \/ checkRename(s) \/ checkRenameDir(s)
     \/ put(s) \/ putCopy(s) \/ mkdir(s) \/ delete(s)
     \/ keys(s) \/ copy(s) \/ purge(s) \/ fail(s)
  /\ UNCHANGED <<client, down>>

Says(ev, path, val) == [ev |-> ev, path |-> path, val |-> val]
Changed(path) == Says("file_changed", path, Empty)

\* After a tool. It returns its errors as text, so the hook takes it for done.
broadcastAgentMutation(j) ==
  CASE j.op = "file_copy" -> <<Changed(j.to)>>
    [] j.op = "file_move" -> <<Changed(j.to), Changed(j.path)>>
    [] OTHER -> <<Changed(j.path)>>

\* What a job broadcasts at its end.
Broadcasts(j) ==
  IF j.op \in FileTools THEN broadcastAgentMutation(j)
  ELSE IF j.result = "error" THEN <<Says("file_error", j.path, j.op)>>
  ELSE IF j.result = "conflict" THEN <<Says("file_conflict", j.path, Empty)>>
  ELSE CASE j.op = "list" -> <<Says("dir_listing", j.path, j.keys)>>
         [] j.op = "read" -> <<Says("file_content", j.path, j.text)>>
         [] j.op \in {"write", "create"} ->
              <<Says("file_saved", j.path, j.text), Changed(j.path)>>
         [] j.op \in {"rename", "rename_dir"} -> <<Changed(j.path), Changed(j.to)>>
         [] OTHER -> <<Changed(j.path)>>

\* To all clients, whichever of them asked.
finish(s) ==
  /\ jobs[s].pc = "done"
  /\ down' = [c \in Clients |-> down[c] \o Broadcasts(jobs[s])]
  /\ jobs' = [jobs EXCEPT ![s] = Idle]
  /\ UNCHANGED <<bucket, markers, client>>
-----------------------------------------------------------------------------
(* The client: useR2Files, and the panel that opens a file in an editor. *)

Send(c, r) == up' = [up EXCEPT ![c] = Append(@, r)]
Asks(c, op, path) == pending' = [pending EXCEPT ![c] = @ \cup {<<op, path>>}]
Settles(c, S) == pending' = [pending EXCEPT ![c] = @ \ S]
Gone(f, path) == Without(f, {k \in DOMAIN f : k = path \/ In(k, path)})

\* An editor whose file is not in the cache closes.
Shows(c, file, held) == open' = [open EXCEPT ![c] = IF file.path \in held THEN file ELSE Closed]

onContent(c, m) ==
  /\ cache' = [cache EXCEPT ![c] = Put(@, m.path, m.val)]
  /\ Settles(c, {<<"read", m.path>>})
  /\ Shows(c, IF <<"read", m.path>> \in pending[c]
                THEN [path |-> m.path, etag |-> m.val] ELSE open[c], DOMAIN cache'[c])
  /\ UNCHANGED <<up, listings>>

\* The save's answer goes to the editor that is open now.
onSaved(c, m) ==
  /\ Settles(c, {<<"write", m.path>>, <<"create", m.path>>})
  /\ Shows(c, IF <<"write", m.path>> \in pending[c]
                THEN [open[c] EXCEPT !.etag = m.val] ELSE open[c], DOMAIN cache[c])
  /\ UNCHANGED <<up, cache, listings>>

\* Mutant: only the path itself is forgotten, not what lies under it.
onChangedPath(c, m) ==
  /\ cache' = [cache EXCEPT ![c] = Without(@, {m.path})]
  /\ listings' = [listings EXCEPT ![c] = Without(@, {m.path})]
  /\ IF Front(m.path) \in expanded[c]
       THEN Send(c, [op |-> "list", path |-> Front(m.path)]) ELSE UNCHANGED up
  /\ Shows(c, open[c], DOMAIN cache'[c])
  /\ UNCHANGED pending

onChanged(c, m) ==
  /\ cache' = [cache EXCEPT ![c] = Gone(@, m.path)]
  /\ listings' = [listings EXCEPT ![c] = Gone(@, m.path)]
  /\ IF Front(m.path) \in expanded[c]
       THEN Send(c, [op |-> "list", path |-> Front(m.path)]) ELSE UNCHANGED up
  /\ Shows(c, open[c], DOMAIN cache'[c])
  /\ UNCHANGED pending

onListing(c, m) ==
  /\ listings' = [listings EXCEPT ![c] = Put(@, m.path, m.val)]
  /\ UNCHANGED <<up, cache, pending, open>>

onConflict(c, m) ==
  /\ Settles(c, {<<"write", m.path>>})
  /\ UNCHANGED <<up, cache, listings, open>>

\* The action that failed is named, and its path if it has one.
onError(c, m) ==
  /\ Settles(c, {<<m.val, m.path>>})
  /\ UNCHANGED <<up, cache, listings, open>>

receive(c) ==
  /\ down[c] # <<>>
  /\ down' = [down EXCEPT ![c] = Tail(@)]
  /\ LET m == Head(down[c])
     IN  \/ m.ev = "file_content" /\ onContent(c, m)
         \/ m.ev = "file_saved" /\ onSaved(c, m)
         \/ m.ev = "file_changed" /\ onChanged(c, m)
         \/ m.ev = "dir_listing" /\ onListing(c, m)
         \/ m.ev = "file_conflict" /\ onConflict(c, m)
         \/ m.ev = "file_error" /\ onError(c, m)
  /\ UNCHANGED <<bucket, markers, jobs, expanded, ops>>
-----------------------------------------------------------------------------
(* What the user does. Only what a listing shows can be chosen. *)

Shown(c, p) == Front(p) \in expanded[c] \cap DOMAIN listings[c] /\ p \in listings[c][Front(p)]

toggleExpanded(c, d) ==
  /\ Shown(c, d)
  /\ IF d \in expanded[c]
       THEN expanded' = [expanded EXCEPT ![c] = @ \ {d}] /\ UNCHANGED up
       ELSE /\ expanded' = [expanded EXCEPT ![c] = @ \cup {d}]
            /\ Send(c, [op |-> "list", path |-> d])
  /\ UNCHANGED <<cache, listings, pending, open>>

handleSelect(c, p) ==
  /\ p \in Paths /\ Shown(c, p)
  /\ IF p \in DOMAIN cache[c]
       THEN /\ open' = [open EXCEPT ![c] = [path |-> p, etag |-> cache[c][p]]]
            /\ UNCHANGED <<up, pending>>
       ELSE Send(c, [op |-> "read", path |-> p]) /\ Asks(c, "read", p) /\ UNCHANGED open
  /\ UNCHANGED <<cache, listings, expanded>>

handleReload(c) ==
  /\ open[c] # Closed
  /\ Send(c, [op |-> "read", path |-> open[c].path])
  /\ Asks(c, "read", open[c].path)
  /\ UNCHANGED <<cache, listings, expanded, open>>

handleSave(c) ==
  /\ open[c] # Closed
  /\ Send(c, [op |-> "write", path |-> open[c].path, etag |-> open[c].etag,
              text |-> ops + 1])
  /\ Asks(c, "write", open[c].path)
  /\ UNCHANGED <<cache, listings, expanded, open>>

handleRefresh(c) ==
  /\ up' = [up EXCEPT ![c] = @ \o SetToSeq({[op |-> "list", path |-> d] : d \in expanded[c]})]
  /\ UNCHANGED <<cache, listings, expanded, pending, open>>

handleNewFile(c, p) ==
  /\ Front(p) \in expanded[c]
  /\ Send(c, [op |-> "create", path |-> p]) /\ Asks(c, "create", p)
  /\ UNCHANGED <<cache, listings, expanded, open>>

handleNewFolder(c, d) ==
  /\ Front(d) \in expanded[c]
  /\ Send(c, [op |-> "mkdir", path |-> d])
  /\ UNCHANGED <<cache, listings, expanded, pending, open>>

\* An editor of what is renamed or deleted closes at once.
Leaves(c, p) ==
  open' = [open EXCEPT ![c] = IF @.path = p \/ In(@.path, p) THEN Closed ELSE @]

handleRename(c, p, q) ==
  /\ Shown(c, p) /\ Front(p) = Front(q) /\ p # q /\ (p \in Dirs <=> q \in Dirs)
  /\ Send(c, [op |-> IF p \in Dirs THEN "rename_dir" ELSE "rename", path |-> p, to |-> q])
  /\ Leaves(c, p)
  /\ UNCHANGED <<cache, listings, expanded, pending>>

handleDelete(c, p) ==
  /\ Shown(c, p)
  /\ Send(c, [op |-> IF p \in Dirs THEN "rmdir" ELSE "delete", path |-> p])
  /\ Leaves(c, p)
  /\ UNCHANGED <<cache, listings, expanded, pending>>

User(c) ==
  /\ ops < MaxOps /\ ops' = ops + 1
  /\ \/ \E d \in Dirs : toggleExpanded(c, d) \/ handleNewFolder(c, d)
     \/ \E p \in Paths : handleSelect(c, p) \/ handleNewFile(c, p)
     \/ handleReload(c) \/ handleSave(c) \/ handleRefresh(c)
     \/ \E p, q \in Paths \cup Dirs : handleRename(c, p, q)
     \/ \E p \in Paths \cup Dirs : handleDelete(c, p)
  /\ UNCHANGED <<bucket, markers, jobs, down>>

\* The connection is lost and comes back for the same session: nothing that was
\* on its way arrives, and nothing is asked for again.
drop(c) ==
  /\ "drop" \in Faults
  /\ up[c] # <<>> \/ down[c] # <<>>
  /\ up' = [up EXCEPT ![c] = <<>>] /\ down' = [down EXCEPT ![c] = <<>>]
  /\ UNCHANGED <<bucket, markers, jobs, cache, listings, expanded, pending, open, ops>>

Next ==
  \/ \E s \in Slots :
       \/ \E c \in Clients : dispatch(s, c)
       \/ \E op \in FileTools, p, q \in Paths : execute(s, op, p, q)
       \/ Work(s) \/ finish(s)
  \/ \E c \in Clients : receive(c) \/ User(c) \/ drop(c)

Spec == Init /\ [][Next]_vars
-----------------------------------------------------------------------------
Quiet(c) == up[c] = <<>> /\ down[c] = <<>> /\ \A s \in Slots : jobs[s] = Idle

\* A client that nothing is on its way to shows the files that are there in what
\* it has expanded, holds no old text of one, and waits for nothing, whoever
\* changed the files. For one job at a time, and calls and connections that work.
FilesShown ==
  \A c \in Clients : Quiet(c) =>
    /\ \A p \in DOMAIN cache[c] : p \in DOMAIN bucket /\ cache[c][p] = bucket[p]
    /\ \A d \in expanded[c] \cap DOMAIN listings[c] :
         listings[c][d] \cap Paths = Listing(d) \cap Paths
    /\ pending[c] = {}

\* A rename or a move loses no text, at whichever call it fails, but for the file
\* a move overwrites, which may be its own: file_move does not compare the two
\* paths, and deletes a file that is moved to where it is. For one job at a time.
KeepsTexts ==
  \A s \in Slots :
    jobs[s].op \in {"rename", "rename_dir", "file_move"} /\ jobs'[s] # jobs[s] =>
      \A p \in DOMAIN bucket :
        \/ \E q \in DOMAIN bucket' : bucket'[q] = bucket[p]
        \/ jobs[s].op = "file_move" /\ p = jobs[s].to

RenameLosesNothing == [][KeepsTexts]_vars

\* Not so: an expanded listing is what is there. Only the parent of what changed
\* is listed again, so directories that a write makes on its way are not shown,
\* nor is the end of one that only its files made.
ListingComplete ==
  \A c \in Clients : Quiet(c) =>
    \A d \in expanded[c] \cap DOMAIN listings[c] : listings[c][d] = Listing(d)

\* Not so: the editor's text is its file's. The answer to a save is put into the
\* editor that is open when it comes, whichever file that is of.
EditorIsOfFile ==
  \A c \in Clients : Quiet(c) /\ open[c] # Closed =>
    open[c].path \in DOMAIN bucket /\ open[c].etag = bucket[open[c].path]
=============================================================================
