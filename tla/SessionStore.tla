---------------------------- MODULE SessionStore ----------------------------
(***************************************************************************)
(* The session log of an agent: the tables `sessions` and                  *)
(* `session_entries` that SessionStore keeps in SQL, and one client that   *)
(* pages through a session with session_sync / request_sync.               *)
(*                                                                         *)
(* A session is a tree of entries.  Its leaf names the entry the next      *)
(* append hangs under; branch moves the leaf back to an older entry and    *)
(* gc drops what the leaf no longer reaches.  The active mode of a session *)
(* is cached in its row so that the inference path never walks the log.    *)
(***************************************************************************)
EXTENDS Integers, FiniteSets

CONSTANTS Sessions,   \* session ids nanoid can hand out
          Entries,    \* entry ids nanoid can hand out
          Modes,      \* ids of the modes the agent declares
          NoEntry,    \* a NULL leaf_id, parent_id or firstKeptEntryId
          NoMode,     \* a NULL active_mode_id
          NoSession,  \* the paging client watches no session
          PageLimit   \* DEFAULT_PAGE_LIMIT

ASSUME NullAssumption == /\ NoEntry \notin Entries
                         /\ NoMode \notin Modes
                         /\ NoSession \notin Sessions

ASSUME PageAssumption == PageLimit \in Nat \ {0}

VARIABLES sessions,      \* table sessions: live id -> [leaf, mode]
          entries,       \* table session_entries: live id -> row
          usedSessions,  \* ids nanoid has already returned (it never repeats)
          usedEntries,
          pager          \* the client's walk over one session's entries

vars == <<sessions, entries, usedSessions, usedEntries, pager>>

(***************************************************************************)
(* The rows.  `mode` is the mode a mode_change entry leaves the session    *)
(* in: `enter` carries it, `exit` leaves none.  `kept` is the              *)
(* firstKeptEntryId of a compaction and `summary` whether its text is not  *)
(* empty.  model_change entries behave as custom ones.                     *)
(***************************************************************************)
SessionRow == [leaf : Entries \cup {NoEntry}, mode : Modes \cup {NoMode}]

EntryTypes == {"message", "compaction", "mode_change", "custom"}

EntryRow == [parent  : Entries \cup {NoEntry},
             session : Sessions,
             seq     : Nat \ {0},
             type    : EntryTypes,
             mode    : Modes \cup {NoMode},
             kept    : Entries \cup {NoEntry},
             summary : BOOLEAN]

(***************************************************************************)
(* The walk from an entry to the root that buildContext, gc and            *)
(* walkActiveModeIdAt all make over the rows D of one session in table T:  *)
(* the least set of rows that holds e and, with a row, its parent.         *)
(***************************************************************************)
ParentClosed(T, D, S) ==
  \A x \in S : T[x].parent \in D => T[x].parent \in S

Chain(T, D, e) ==
  {x \in D : /\ e \in D
             /\ \A S \in SUBSET D : e \in S /\ ParentClosed(T, D, S) => x \in S}

\* The row of X, a set of rows on one chain, that the walk meets first.
Nearest(T, D, X) == CHOOSE x \in {y \in X : X \subseteq Chain(T, D, y)} : TRUE

ModeChanges(T, D, e) == {x \in Chain(T, D, e) : T[x].type = "mode_change"}

ModeAt(T, D, e) ==
  IF ModeChanges(T, D, e) = {} THEN NoMode
  ELSE T[Nearest(T, D, ModeChanges(T, D, e))].mode

EntriesOf(s) == {e \in DOMAIN entries : entries[e].session = s}

Path(s, e) == Chain(entries, EntriesOf(s), e)

OnPath(s, e, type) == {x \in Path(s, e) : entries[x].type = type}

walkActiveModeIdAt(s, e) == ModeAt(entries, EntriesOf(s), e)

(***************************************************************************)
(* buildContext: the messages on the leaf's path from the first kept entry *)
(* of the last compaction on (from the entry after the compaction when the *)
(* kept entry is not on the path), behind the compaction's summary.  The   *)
(* order of the messages is the order of the path.                         *)
(***************************************************************************)
LastCompaction(s) ==
  LET compactions == OnPath(s, sessions[s].leaf, "compaction")
  IN  IF compactions = {} THEN NoEntry
      ELSE Nearest(entries, EntriesOf(s), compactions)

\* Mutant: the kept entry is trusted to be on the path.
FromIndexNoFallback(s, c, x) ==
  IF entries[c].kept # NoEntry
    THEN entries[c].kept \in Path(s, x)
    ELSE x # c /\ c \in Path(s, x)

FromIndex(s, c, x) ==
  IF entries[c].kept \in Path(s, sessions[s].leaf)
    THEN entries[c].kept \in Path(s, x)
    ELSE x # c /\ c \in Path(s, x)

buildContext(s) ==
  LET c        == LastCompaction(s)
      messages == OnPath(s, sessions[s].leaf, "message")
  IN  [summary  |-> IF c # NoEntry /\ entries[c].summary THEN c ELSE NoEntry,
       messages |-> IF c = NoEntry THEN messages
                    ELSE {x \in messages : FromIndex(s, c, x)}]

-----------------------------------------------------------------------------
create(s) ==
  /\ s \notin usedSessions
  /\ usedSessions' = usedSessions \cup {s}
  /\ sessions' = [x \in DOMAIN sessions \cup {s} |->
                    IF x = s THEN [leaf |-> NoEntry, mode |-> NoMode]
                             ELSE sessions[x]]
  /\ UNCHANGED <<entries, usedEntries, pager>>

\* ON DELETE CASCADE removes the session's entries in the same statement.
delete(s) ==
  /\ s \in DOMAIN sessions
  /\ sessions' = [x \in DOMAIN sessions \ {s} |-> sessions[x]]
  /\ entries' = [e \in DOMAIN entries \ EntriesOf(s) |-> entries[e]]
  /\ UNCHANGED <<usedSessions, usedEntries, pager>>

\* COALESCE(MAX(seq), 0) + 1 over the session's rows.
IsMaxSeq(s, n) ==
  \/ EntriesOf(s) = {} /\ n = 0
  \/ \E e \in EntriesOf(s) : /\ entries[e].seq = n
                             /\ \A x \in EntriesOf(s) : entries[x].seq <= n

\* Mutants: the rows are counted; the increment is forgotten.
NextSeqByCount(s) == Cardinality(EntriesOf(s)) + 1

NextSeqNoIncrement(s) ==
  CHOOSE n \in {0} \cup {entries[x].seq : x \in EntriesOf(s)} : IsMaxSeq(s, n)

NextSeq(s) ==
  LET seqs == {0} \cup {entries[x].seq : x \in EntriesOf(s)}
  IN  (CHOOSE n \in seqs : IsMaxSeq(s, n)) + 1

\* appendEntry: the row insert and the update of the session's row, which
\* takes the mode with the leaf exactly when the entry is a mode_change.
appendEntry(s, e, type, mode, kept, summary) ==
  /\ s \in DOMAIN sessions
  /\ e \notin usedEntries
  /\ usedEntries' = usedEntries \cup {e}
  /\ entries' = [x \in DOMAIN entries \cup {e} |->
                   IF x = e THEN [parent |-> sessions[s].leaf, session |-> s,
                                  seq |-> NextSeq(s), type |-> type,
                                  mode |-> mode, kept |-> kept,
                                  summary |-> summary]
                            ELSE entries[x]]
  /\ sessions' = [sessions EXCEPT ![s] =
                    [leaf |-> e,
                     mode |-> IF type = "mode_change" THEN mode ELSE @.mode]]
  /\ UNCHANGED <<usedSessions, pager>>

\* A user, assistant or tool-result message, and a cost event.
AppendPlain(s, e) ==
  \E type \in {"message", "custom"} :
    appendEntry(s, e, type, NoMode, NoEntry, FALSE)

enterModeOnSession(s, e, m) ==
  appendEntry(s, e, "mode_change", m, NoEntry, FALSE)

\* A no-op when the cache says that no mode is active.
exitModeOnSession(s, e) ==
  /\ s \in DOMAIN sessions /\ sessions[s].mode # NoMode
  /\ appendEntry(s, e, "mode_change", NoMode, NoEntry, FALSE)

\* The compaction hook names one of the session's message entries, from any
\* branch, or none (an index past the end of entryIds).
AppendCompaction(s, e) ==
  \E k \in {x \in EntriesOf(s) : entries[x].type = "message"} \cup {NoEntry},
     nonEmpty \in BOOLEAN :
    appendEntry(s, e, "compaction", NoMode, k, nonEmpty)

\* Mutant: the mode cache is not re-seeded.
branchKeepsMode(s, e) ==
  /\ s \in DOMAIN sessions
  /\ e \in EntriesOf(s)
  /\ sessions' = [sessions EXCEPT ![s].leaf = e]
  /\ UNCHANGED <<entries, usedSessions, usedEntries, pager>>

branch(s, e) ==
  /\ s \in DOMAIN sessions
  /\ e \in EntriesOf(s)
  /\ sessions' = [sessions EXCEPT ![s] =
                    [leaf |-> e, mode |-> walkActiveModeIdAt(s, e)]]
  /\ UNCHANGED <<entries, usedSessions, usedEntries, pager>>

\* Mutant: the rows before the last compaction are taken for unreachable.
gcBelowCompaction(s) ==
  /\ s \in DOMAIN sessions
  /\ LastCompaction(s) # NoEntry
  /\ LET c == LastCompaction(s)
     IN  entries' = [e \in {x \in DOMAIN entries :
                             x \in EntriesOf(s) => c \in Path(s, x)} |-> entries[e]]
  /\ UNCHANGED <<sessions, usedSessions, usedEntries, pager>>

gc(s) ==
  /\ s \in DOMAIN sessions
  /\ sessions[s].leaf # NoEntry
  /\ LET unreachable == EntriesOf(s) \ Path(s, sessions[s].leaf)
     IN  /\ unreachable # {}
         /\ entries' = [e \in DOMAIN entries \ unreachable |-> entries[e]]
         /\ pager' = IF pager.session = s THEN [pager EXCEPT !.gced = TRUE] ELSE pager
  /\ UNCHANGED <<sessions, usedSessions, usedEntries>>

(***************************************************************************)
(* The paging client.  `seen` is what the pages held so far; `gced` notes  *)
(* that gc ran on the session meanwhile.                                   *)
(***************************************************************************)
\* Mutant: the newest rows first.
getEntriesPaginatedDesc(s, afterSeq) ==
  LET rest == {e \in EntriesOf(s) : entries[e].seq > afterSeq}
  IN  {e \in rest : Cardinality({x \in rest : entries[x].seq > entries[e].seq})
                      < PageLimit}

getEntriesPaginated(s, afterSeq) ==
  LET rest == {e \in EntriesOf(s) : entries[e].seq > afterSeq}
  IN  {e \in rest : Cardinality({x \in rest : entries[x].seq < entries[e].seq})
                      < PageLimit}

ReceivePage(s, afterSeq, seen, gced) ==
  LET page == getEntriesPaginated(s, afterSeq)
  IN  pager' = [session |-> s,
                seen    |-> seen \cup page,
                cursor  |-> IF page = {} THEN afterSeq
                            ELSE CHOOSE n \in {entries[e].seq : e \in page} :
                                   \A e \in page : entries[e].seq <= n,
                more    |-> \E e \in EntriesOf(s) \ page : entries[e].seq > afterSeq,
                gced    |-> gced]

\* switch_session, and the first sync after a connection opens.
SyncSession(s) ==
  /\ s \in DOMAIN sessions
  /\ ReceivePage(s, 0, {}, FALSE)
  /\ UNCHANGED <<sessions, entries, usedSessions, usedEntries>>

\* request_sync for the next page; a deleted session answers with an error,
\* after which the client asks no more.
requestSync ==
  /\ pager.more
  /\ IF pager.session \in DOMAIN sessions
       THEN ReceivePage(pager.session, pager.cursor, pager.seen, pager.gced)
       ELSE pager' = [pager EXCEPT !.more = FALSE]
  /\ UNCHANGED <<sessions, entries, usedSessions, usedEntries>>

-----------------------------------------------------------------------------
Init ==
  /\ sessions = [s \in {} |-> [leaf |-> NoEntry, mode |-> NoMode]]
  /\ entries = [e \in {} |-> [parent |-> NoEntry]]
  /\ usedSessions = {}
  /\ usedEntries = {}
  /\ pager = [session |-> NoSession, seen |-> {}, cursor |-> 0,
              more |-> FALSE, gced |-> FALSE]

Append(s, e) ==
  \/ AppendPlain(s, e)
  \/ \E m \in Modes : enterModeOnSession(s, e, m)
  \/ exitModeOnSession(s, e)
  \/ AppendCompaction(s, e)

Next ==
  \/ \E s \in Sessions : create(s) \/ delete(s) \/ gc(s) \/ SyncSession(s)
  \/ \E s \in Sessions, e \in Entries : Append(s, e) \/ branch(s, e)
  \/ requestSync

Spec == Init /\ [][Next]_vars
-----------------------------------------------------------------------------
(***************************************************************************)
(* Properties.                                                             *)
(***************************************************************************)
\* The tables and the paging client have the shape the schema and the wire
\* messages give them; every live id was handed out by nanoid.
TypeOK ==
  /\ usedSessions \subseteq Sessions
  /\ usedEntries \subseteq Entries
  /\ DOMAIN sessions \subseteq usedSessions
  /\ DOMAIN entries \subseteq usedEntries
  /\ sessions \in [DOMAIN sessions -> SessionRow]
  /\ entries \in [DOMAIN entries -> EntryRow]
  /\ pager \in [session : Sessions \cup {NoSession}, seen : SUBSET Entries,
               cursor : Nat, more : BOOLEAN, gced : BOOLEAN]

\* What makes every walk of the log well defined (buildContext, gc, branch and
\* resolveActiveMode loop `while (current)` with no cycle check): no entry
\* outlives its session, a leaf is an entry of its own session, a parent is an
\* older entry of the same session, and a session never gives one seq to two
\* entries, whatever branch, gc and delete did before.
LeafInSession ==
  \A s \in DOMAIN sessions :
    sessions[s].leaf # NoEntry => sessions[s].leaf \in EntriesOf(s)

ParentOlder ==
  \A e \in DOMAIN entries :
    LET p == entries[e].parent IN
      p # NoEntry => /\ p \in EntriesOf(entries[e].session)
                     /\ entries[p].seq < entries[e].seq

SeqUnique ==
  \A e, f \in DOMAIN entries :
    entries[e].session = entries[f].session /\ entries[e].seq = entries[f].seq
      => e = f

NoOrphans == \A e \in DOMAIN entries : entries[e].session \in DOMAIN sessions

LogIsTree == LeafInSession /\ ParentOlder /\ SeqUnique /\ NoOrphans

\* The O(1) mode cache that ensureAgent reads agrees with the walk of the log
\* from the leaf, through every interleaving of appends, branches and gc.
ModeCacheConsistent ==
  \A s \in DOMAIN sessions :
    sessions[s].mode = walkActiveModeIdAt(s, sessions[s].leaf)

\* A message appended after the last compaction is in the context the model is
\* given, even when the compaction named a kept entry of another branch, or one
\* that gc has since removed.
NewMessagesInContext ==
  \A s \in DOMAIN sessions :
    LET c == LastCompaction(s) IN
      c # NoEntry =>
        {x \in OnPath(s, sessions[s].leaf, "message") : c \in Path(s, x)}
          \subseteq buildContext(s).messages

\* A client that has paged up to its cursor has received every entry of the
\* session at or below it, though entries were appended and the leaf moved
\* between its requests; gc is excluded, because it lets seq numbers be reused.
PagerComplete ==
  ~pager.gced =>
    {e \in EntriesOf(pager.session) : entries[e].seq <= pager.cursor}
      \subseteq pager.seen

\* What a session's model sees changes only by moving that session's leaf:
\* gc, and any operation on another session, leave its context alone.  (A step
\* that changes no entry and no leaf cannot change it.)
ContextMovesOnlyWithLeaf ==
  [][entries' # entries =>
       \A s \in DOMAIN sessions :
         s \in DOMAIN sessions' /\ sessions'[s].leaf = sessions[s].leaf
           => buildContext(s)' = buildContext(s)]_vars
=============================================================================
