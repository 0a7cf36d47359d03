------------------------- MODULE SessionStoreProofs -------------------------
(***************************************************************************)
(* For every set of sessions, entries and modes: SessionStore keeps its    *)
(* log a tree and its mode cache in step with the log.                     *)
(***************************************************************************)
EXTENDS SessionStore, FiniteSetTheorems, TLAPS

-----------------------------------------------------------------------------
(* The walk as a least closed set. *)

\* A walk stays inside the session's rows.
LEMMA ChainSubset ==
  ASSUME NEW T, NEW D, NEW e
  PROVE  Chain(T, D, e) \subseteq D
BY DEF Chain

\* A walk from no row of the session is empty.
LEMMA ChainEmpty ==
  ASSUME NEW T, NEW D, NEW e, e \notin D
  PROVE  Chain(T, D, e) = {}
BY DEF Chain

\* A walk visits the row it starts from.
LEMMA ChainSelf ==
  ASSUME NEW T, NEW D, NEW e \in D
  PROVE  e \in Chain(T, D, e)
BY DEF Chain

\* A walk that visits a row visits its parent.
LEMMA ChainClosed ==
  ASSUME NEW T, NEW D, NEW e, NEW x \in Chain(T, D, e), T[x].parent \in D
  PROVE  T[x].parent \in Chain(T, D, e)
BY DEF Chain, ParentClosed

\* A walk visits nothing outside a closed set that holds its start.
LEMMA ChainMinimal ==
  ASSUME NEW T, NEW D, NEW e, NEW S \in SUBSET D, e \in S, ParentClosed(T, D, S)
  PROVE  Chain(T, D, e) \subseteq S
BY DEF Chain

\* The walk from a visited row is part of the walk.
LEMMA ChainTransitive ==
  ASSUME NEW T, NEW D, NEW e, NEW x \in Chain(T, D, e)
  PROVE  Chain(T, D, x) \subseteq Chain(T, D, e)
<1>1. ParentClosed(T, D, Chain(T, D, e))
  BY ChainClosed DEF ParentClosed
<1> QED
  BY <1>1, ChainMinimal, ChainSubset

\* Dropping rows (gc) or inserting rows (append) leaves alone the walks of a
\* set C of rows that no walk leaves.
LEMMA ChainRestrict ==
  ASSUME NEW T, NEW U, NEW D, NEW C \in SUBSET D,
         \A x \in C : T[x] = U[x],
         ParentClosed(U, D, C),
         NEW e \in C
  PROVE  Chain(T, C, e) = Chain(U, D, e)
<1>1. Chain(T, C, e) \subseteq Chain(U, D, e)
  <2> DEFINE S == Chain(U, D, e) \cap C
  <2>1. e \in S
    BY ChainSelf
  <2>2. ParentClosed(T, C, S)
    BY ChainClosed DEF ParentClosed
  <2> QED
    BY <2>1, <2>2, ChainMinimal
<1>2. Chain(U, D, e) \subseteq Chain(T, C, e)
  <2>1. /\ e \in Chain(T, C, e)
        /\ Chain(T, C, e) \subseteq C
    BY ChainSelf, ChainSubset
  <2>2. ParentClosed(U, D, Chain(T, C, e))
    BY <2>1, ChainClosed DEF ParentClosed
  <2> QED
    BY <2>1, <2>2, ChainMinimal
<1> QED
  BY <1>1, <1>2

\* The walk from an appended row: the row, then the walk from its parent.
LEMMA ChainAppend ==
  ASSUME NEW T, NEW U, NEW D, NEW n, n \notin D,
         \A x \in D : T[x] = U[x],
         ParentClosed(U, D \cup {n}, D)
  PROVE  Chain(U, D \cup {n}, n) = {n} \cup Chain(T, D, U[n].parent)
<1> DEFINE E == D \cup {n}
           p == U[n].parent
<1>1. n \in Chain(U, E, n)
  BY ChainSelf
<1>2. \A e \in D : Chain(T, D, e) = Chain(U, E, e)
  BY ChainRestrict
<1>3. Chain(T, D, p) \subseteq Chain(U, E, n)
  <2>1. CASE p \in D
    <3>1. p \in Chain(U, E, n)
      BY <1>1, <2>1, ChainClosed
    <3> QED
      BY <3>1, <2>1, <1>2, ChainTransitive
  <2>2. CASE p \notin D
    BY <2>2, ChainEmpty
  <2> QED
    BY <2>1, <2>2
<1>4. Chain(U, E, n) \subseteq {n} \cup Chain(T, D, p)
  <2> DEFINE S == {n} \cup Chain(T, D, p)
  <2>1. S \in SUBSET E /\ n \in S
    BY ChainSubset
  <2>2. ParentClosed(U, E, S)
    <3> SUFFICES ASSUME NEW x \in S, U[x].parent \in E
                 PROVE  U[x].parent \in S
      BY DEF ParentClosed
    <3>1. CASE x = n
      BY <3>1, ChainSelf
    <3>2. CASE x # n
      <4>1. x \in Chain(T, D, p) /\ x \in D
        BY <3>2, ChainSubset
      <4>2. U[x].parent \in D /\ U[x].parent = T[x].parent
        BY <4>1 DEF ParentClosed
      <4> QED
        BY <4>1, <4>2, ChainClosed
    <3> QED
      BY <3>1, <3>2
  <2> QED
    BY <2>1, <2>2, ChainMinimal
<1> QED
  BY <1>1, <1>3, <1>4

-----------------------------------------------------------------------------
(* What the walk says of the mode. *)

\* The mode changes on a walk, if any, have one that the walk meets first.
HasNearest(T, D, e) ==
  LET X == ModeChanges(T, D, e)
  IN  X # {} => \E y \in X : X \subseteq Chain(T, D, y)

\* Under the conditions of ChainRestrict, the mode read at a row of C is the
\* same before and after.
LEMMA ModeAtRestrict ==
  ASSUME NEW T, NEW U, NEW D, NEW C \in SUBSET D,
         \A x \in C : T[x] = U[x],
         ParentClosed(U, D, C),
         NEW e \in C
  PROVE  /\ HasNearest(T, C, e) <=> HasNearest(U, D, e)
         /\ HasNearest(T, C, e) => ModeAt(T, C, e) = ModeAt(U, D, e)
<1> DEFINE X == ModeChanges(T, C, e)
<1>1. \A x \in C : Chain(T, C, x) = Chain(U, D, x)
  BY ChainRestrict
<1>2. X \subseteq C /\ X = ModeChanges(U, D, e)
  BY <1>1, ChainSubset DEF ModeChanges
<1>3. {y \in X : X \subseteq Chain(T, C, y)} = {y \in X : X \subseteq Chain(U, D, y)}
  BY <1>1, <1>2
<1>4. HasNearest(T, C, e) <=> HasNearest(U, D, e)
  BY <1>1, <1>2 DEF HasNearest
<1>5. ASSUME HasNearest(T, C, e)
      PROVE  ModeAt(T, C, e) = ModeAt(U, D, e)
  <2>1. Nearest(T, C, X) = Nearest(U, D, X)
    BY <1>3 DEF Nearest
  <2>2. CASE X = {}
    BY <1>2, <2>2 DEF ModeAt
  <2>3. CASE X # {}
    <3>1. Nearest(T, C, X) \in C
      BY <1>2, <1>5, <2>3 DEF Nearest, HasNearest
    <3> QED
      BY <1>2, <2>1, <2>3, <3>1 DEF ModeAt
  <2> QED
    BY <2>2, <2>3
<1> QED
  BY <1>4, <1>5

\* The mode read at an appended row: its own when it is a mode change, else
\* the one read at its parent.
LEMMA ModeAtAppend ==
  ASSUME NEW T, NEW U, NEW D, NEW n, n \notin D,
         \A x \in D : T[x] = U[x],
         ParentClosed(U, D \cup {n}, D),
         HasNearest(T, D, U[n].parent)
  PROVE  /\ HasNearest(U, D \cup {n}, n)
         /\ ModeAt(U, D \cup {n}, n) =
              IF U[n].type = "mode_change" THEN U[n].mode
              ELSE ModeAt(T, D, U[n].parent)
<1> DEFINE E == D \cup {n}
           p == U[n].parent
           X == ModeChanges(U, E, n)
           Y == ModeChanges(T, D, p)
<1>1. Chain(U, E, n) = {n} \cup Chain(T, D, p)
  BY ChainAppend
<1>2. \A x \in D : Chain(U, E, x) = Chain(T, D, x) /\ Chain(T, D, x) \subseteq D
  BY ChainRestrict, ChainSubset
<1>3. Chain(T, D, p) \subseteq D /\ Y \subseteq D
  BY ChainSubset DEF ModeChanges
<1>4. CASE U[n].type = "mode_change"
  <2>1. n \in X /\ X \subseteq Chain(U, E, n)
    BY <1>1, <1>4 DEF ModeChanges
  <2>2. {y \in X : X \subseteq Chain(U, E, y)} = {n}
    BY <2>1, <1>1, <1>2, <1>3
  <2>3. Nearest(U, E, X) = n
    BY <2>2 DEF Nearest
  <2> QED
    BY <1>4, <2>1, <2>3 DEF ModeAt, HasNearest
<1>5. CASE U[n].type # "mode_change"
  <2>1. X = Y
    BY <1>1, <1>3, <1>5 DEF ModeChanges
  <2>2. {y \in X : X \subseteq Chain(U, E, y)} = {y \in Y : Y \subseteq Chain(T, D, y)}
    BY <1>2, <1>3, <2>1
  <2>3. Nearest(U, E, X) = Nearest(T, D, Y)
    BY <2>2 DEF Nearest
  <2>4. HasNearest(U, E, n)
    BY <2>1, <1>2, <1>3 DEF HasNearest
  <2>5. CASE X = {}
    BY <2>1, <2>4, <2>5, <1>5 DEF ModeAt
  <2>6. CASE X # {}
    <3>1. Nearest(T, D, Y) \in D
      BY <1>3, <2>1, <2>6 DEF Nearest, HasNearest
    <3> QED
      BY <2>1, <2>3, <2>4, <2>6, <3>1, <1>5 DEF ModeAt
  <2> QED
    BY <2>5, <2>6
<1> QED
  BY <1>4, <1>5

-----------------------------------------------------------------------------
(***************************************************************************)
(* The inductive invariant.  MAX(seq) is defined because every set of rows *)
(* of a session has a last row, which says without induction that the      *)
(* table is finite; the mode read by a walk is defined because the mode    *)
(* changes on it have a nearest one.                                       *)
(***************************************************************************)
HasLastRow ==
  \A s \in Sessions : \A S \in SUBSET EntriesOf(s) :
    S # {} => \E e \in S : \A x \in S : entries[x].seq <= entries[e].seq

WalksHaveNearest ==
  \A s \in Sessions : \A e \in EntriesOf(s) : HasNearest(entries, EntriesOf(s), e)

Inv == /\ TypeOK
       /\ LogIsTree
       /\ HasLastRow
       /\ WalksHaveNearest
       /\ ModeCacheConsistent

\* The seq an append computes is a positive number above every seq in use.
LEMMA NextSeqAbove ==
  ASSUME TypeOK, HasLastRow, NEW s \in Sessions
  PROVE  /\ NextSeq(s) \in Nat \ {0}
         /\ \A x \in EntriesOf(s) : entries[x].seq < NextSeq(s)
<1> DEFINE seqs == {0} \cup {entries[x].seq : x \in EntriesOf(s)}
<1>1. seqs \subseteq Nat
  BY DEF TypeOK, EntryRow, EntriesOf
<1>2. \E n \in seqs : IsMaxSeq(s, n)
  <2>1. CASE EntriesOf(s) = {}
    BY <2>1 DEF IsMaxSeq
  <2>2. CASE EntriesOf(s) # {}
    <3>1. PICK e \in EntriesOf(s) :
            \A x \in EntriesOf(s) : entries[x].seq <= entries[e].seq
      BY <2>2 DEF HasLastRow
    <3> QED
      BY <3>1 DEF IsMaxSeq
  <2> QED
    BY <2>1, <2>2
<1>3. PICK n \in seqs : IsMaxSeq(s, n) /\ NextSeq(s) = n + 1
  BY <1>2 DEF NextSeq
<1>4. \A x \in EntriesOf(s) : entries[x].seq \in Nat /\ entries[x].seq <= n
  BY <1>1, <1>3 DEF IsMaxSeq
<1> QED
  BY <1>1, <1>3, <1>4

\* A row of a session has its parent among that session's rows.
LEMMA RowsParentClosed ==
  ASSUME TypeOK, LogIsTree, NEW s
  PROVE  \A x \in EntriesOf(s) :
           entries[x].parent \in EntriesOf(s) \cup {NoEntry}
BY DEF LogIsTree, ParentOlder, EntriesOf

\* An append keeps the invariant.
LEMMA AppendStep ==
  ASSUME Inv,
         NEW s \in Sessions, NEW e \in Entries, NEW type \in EntryTypes,
         NEW mode \in Modes \cup {NoMode}, NEW kept \in Entries \cup {NoEntry},
         NEW summary \in BOOLEAN,
         appendEntry(s, e, type, mode, kept, summary)
  PROVE  Inv'
<1> USE NullAssumption
<1> DEFINE row == [parent |-> sessions[s].leaf, session |-> s,
                   seq |-> NextSeq(s), type |-> type,
                   mode |-> mode, kept |-> kept, summary |-> summary]
           srow == [leaf |-> e,
                    mode |-> IF type = "mode_change" THEN mode ELSE sessions[s].mode]
<1>1. /\ s \in DOMAIN sessions
      /\ e \notin usedEntries
      /\ usedEntries' = usedEntries \cup {e}
      /\ DOMAIN entries' = DOMAIN entries \cup {e}
      /\ entries'[e] = row
      /\ \A x \in DOMAIN entries : x # e /\ entries'[x] = entries[x]
      /\ DOMAIN sessions' = DOMAIN sessions
      /\ sessions'[s] = srow
      /\ \A x \in DOMAIN sessions : x # s => sessions'[x] = sessions[x]
      /\ usedSessions' = usedSessions
      /\ pager' = pager
  BY DEF appendEntry, Inv, TypeOK
<1>2. /\ NextSeq(s) \in Nat \ {0}
      /\ \A x \in EntriesOf(s) : entries[x].seq < NextSeq(s)
  BY NextSeqAbove DEF Inv
<1>3. /\ EntriesOf(s)' = EntriesOf(s) \cup {e}
      /\ \A t \in Sessions : t # s => EntriesOf(t)' = EntriesOf(t)
      /\ \A t \in Sessions : e \notin EntriesOf(t)
  BY <1>1 DEF EntriesOf, Inv, TypeOK
<1>4. row \in EntryRow /\ srow \in SessionRow
  BY <1>1, <1>2 DEF Inv, TypeOK, EntryRow, SessionRow
<1>5. TypeOK'
  <2>1. entries' \in [DOMAIN entries' -> EntryRow]
    BY <1>1, <1>4 DEF appendEntry, Inv, TypeOK
  <2>2. sessions' \in [DOMAIN sessions' -> SessionRow]
    BY <1>1, <1>4 DEF appendEntry, Inv, TypeOK
  <2> QED
    BY <1>1, <2>1, <2>2 DEF Inv, TypeOK
<1>6. LogIsTree'
  <2>1. LeafInSession'
    BY <1>1, <1>3 DEF Inv, LogIsTree, LeafInSession, EntriesOf, TypeOK
  <2>2. ParentOlder'
    <3> SUFFICES ASSUME NEW x \in DOMAIN entries', entries'[x].parent # NoEntry
                 PROVE  /\ entries'[x].parent \in DOMAIN entries'
                        /\ entries'[entries'[x].parent].session = entries'[x].session
                        /\ entries'[entries'[x].parent].seq < entries'[x].seq
      BY DEF ParentOlder, EntriesOf
    <3>1. CASE x = e
      <4>1. sessions[s].leaf \in EntriesOf(s)
        BY <1>1, <3>1 DEF Inv, LogIsTree, LeafInSession
      <4> QED
        BY <4>1, <1>1, <1>2, <1>3, <3>1 DEF EntriesOf
    <3>2. CASE x # e
      <4>1. /\ x \in DOMAIN entries
            /\ entries[x].parent \in EntriesOf(entries[x].session)
            /\ entries[entries[x].parent].seq < entries[x].seq
        BY <1>1, <3>2 DEF Inv, LogIsTree, ParentOlder
      <4> QED
        BY <4>1, <1>1 DEF EntriesOf
    <3> QED
      BY <3>1, <3>2
  <2>3. SeqUnique'
    <3>1. \A x \in DOMAIN entries : entries[x].seq \in Nat
      BY DEF Inv, TypeOK, EntryRow
    <3> QED
      BY <3>1, <1>1, <1>2 DEF Inv, LogIsTree, SeqUnique, EntriesOf
  <2>4. NoOrphans'
    BY <1>1 DEF Inv, LogIsTree, NoOrphans
  <2> QED
    BY <2>1, <2>2, <2>3, <2>4 DEF LogIsTree
<1>7. HasLastRow'
  <2> SUFFICES ASSUME NEW t \in Sessions, NEW S \in SUBSET EntriesOf(t)', S # {}
               PROVE  \E y \in S : \A x \in S : entries'[x].seq <= entries'[y].seq
    BY DEF HasLastRow
  <2>1. CASE e \in S
    <3>1. t = s
      BY <1>3, <2>1
    <3>2. \A x \in S : x # e => entries'[x].seq = entries[x].seq
                              /\ entries[x].seq \in Nat
                              /\ entries[x].seq < NextSeq(s)
      BY <1>1, <1>2, <1>3, <3>1 DEF EntriesOf, Inv, TypeOK, EntryRow
    <3> QED
      BY <3>2, <2>1, <1>1, <1>2
  <2>2. CASE e \notin S
    <3>1. S \in SUBSET EntriesOf(t)
      BY <1>3, <2>2
    <3>2. PICK y \in S : \A x \in S : entries[x].seq <= entries[y].seq
      BY <3>1 DEF Inv, HasLastRow
    <3> QED
      BY <3>1, <3>2, <1>1 DEF EntriesOf
  <2> QED
    BY <2>1, <2>2
<1>8. /\ ParentClosed(entries', EntriesOf(s) \cup {e}, EntriesOf(s))
      /\ \A x \in EntriesOf(s) : entries[x] = entries'[x]
      /\ \A t \in Sessions : t # s =>
           /\ ParentClosed(entries', EntriesOf(t), EntriesOf(t))
           /\ \A x \in EntriesOf(t) : entries[x] = entries'[x]
  <2>1. \A t \in Sessions : \A x \in EntriesOf(t) :
          /\ entries[x] = entries'[x]
          /\ entries[x].parent # e
    BY <1>1, RowsParentClosed DEF Inv, TypeOK, EntriesOf
  <2> QED
    BY <2>1 DEF ParentClosed
<1>9. HasNearest(entries, EntriesOf(s), sessions[s].leaf)
  <2>1. CASE sessions[s].leaf \in EntriesOf(s)
    BY <2>1 DEF Inv, WalksHaveNearest
  <2>2. CASE sessions[s].leaf \notin EntriesOf(s)
    BY <2>2, ChainEmpty DEF HasNearest, ModeChanges
  <2> QED
    BY <2>1, <2>2
<1>10. /\ HasNearest(entries', EntriesOf(s)', e)
       /\ ModeAt(entries', EntriesOf(s)', e) = srow.mode
  <2>1. entries'[e].parent = sessions[s].leaf /\ entries'[e].type = type
          /\ entries'[e].mode = mode
    BY <1>1
  <2>2. e \notin EntriesOf(s)
    BY <1>3
  <2>3. /\ HasNearest(entries', EntriesOf(s) \cup {e}, e)
        /\ ModeAt(entries', EntriesOf(s) \cup {e}, e) =
             IF type = "mode_change" THEN mode
             ELSE ModeAt(entries, EntriesOf(s), sessions[s].leaf)
    BY <1>8, <1>9, <2>1, <2>2, ModeAtAppend
  <2>4. sessions[s].mode = ModeAt(entries, EntriesOf(s), sessions[s].leaf)
    BY <1>1 DEF Inv, ModeCacheConsistent, walkActiveModeIdAt
  <2> QED
    BY <1>3, <2>3, <2>4
<1>11. \A x \in EntriesOf(s) : HasNearest(entries', EntriesOf(s)', x)
  <2>1. EntriesOf(s) \in SUBSET (EntriesOf(s) \cup {e})
    OBVIOUS
  <2> QED
    BY <1>3, <1>8, <2>1, ModeAtRestrict DEF Inv, WalksHaveNearest
<1>12. \A t \in Sessions : t # s =>
         \A x \in EntriesOf(t) :
            /\ HasNearest(entries', EntriesOf(t), x)
            /\ ModeAt(entries', EntriesOf(t), x) = ModeAt(entries, EntriesOf(t), x)
  BY <1>8, ModeAtRestrict DEF Inv, WalksHaveNearest
<1>13. WalksHaveNearest'
  BY <1>3, <1>10, <1>11, <1>12 DEF WalksHaveNearest
<1>14. ModeCacheConsistent'
  <2> SUFFICES ASSUME NEW t \in DOMAIN sessions'
               PROVE  sessions'[t].mode = ModeAt(entries', EntriesOf(t)', sessions'[t].leaf)
    BY DEF ModeCacheConsistent, walkActiveModeIdAt
  <2>1. CASE t = s
    BY <2>1, <1>1, <1>10
  <2>2. CASE t # s
    <3>1. /\ t \in Sessions /\ sessions'[t] = sessions[t]
          /\ EntriesOf(t)' = EntriesOf(t)
          /\ sessions[t].mode = ModeAt(entries, EntriesOf(t), sessions[t].leaf)
      BY <2>2, <1>1, <1>3 DEF Inv, TypeOK, ModeCacheConsistent, walkActiveModeIdAt
    <3>2. CASE sessions[t].leaf \in EntriesOf(t)
      BY <2>2, <3>1, <3>2, <1>12
    <3>3. CASE sessions[t].leaf \notin EntriesOf(t)
      BY <3>1, <3>3, ChainEmpty DEF ModeAt, ModeChanges
    <3> QED
      BY <3>2, <3>3
  <2> QED
    BY <2>1, <2>2
<1> QED
  BY <1>5, <1>6, <1>7, <1>13, <1>14 DEF Inv

\* Creating a session keeps the invariant: a fresh id owns no rows.
LEMMA CreateStep ==
  ASSUME Inv, NEW s \in Sessions, create(s)
  PROVE  Inv'
<1> USE NullAssumption
<1>1. /\ s \notin usedSessions
      /\ usedSessions' = usedSessions \cup {s}
      /\ DOMAIN sessions' = DOMAIN sessions \cup {s}
      /\ sessions'[s] = [leaf |-> NoEntry, mode |-> NoMode]
      /\ \A x \in DOMAIN sessions : x # s /\ sessions'[x] = sessions[x]
      /\ entries' = entries /\ usedEntries' = usedEntries /\ pager' = pager
  BY DEF create, Inv, TypeOK
<1>2. \A t : EntriesOf(t)' = EntriesOf(t)
  BY <1>1 DEF EntriesOf
<1>3. TypeOK'
  <2>1. sessions' \in [DOMAIN sessions' -> SessionRow]
    BY <1>1 DEF create, Inv, TypeOK, SessionRow
  <2> QED
    BY <1>1, <2>1 DEF Inv, TypeOK
<1>4. LogIsTree'
  BY <1>1 DEF Inv, LogIsTree, LeafInSession, ParentOlder, SeqUnique, NoOrphans, EntriesOf
<1>5. HasLastRow' /\ WalksHaveNearest'
  BY <1>1, <1>2 DEF Inv, HasLastRow, WalksHaveNearest
<1>6. ModeCacheConsistent'
  <2> SUFFICES ASSUME NEW t \in DOMAIN sessions'
               PROVE  sessions'[t].mode = ModeAt(entries, EntriesOf(t), sessions'[t].leaf)
    BY <1>1, <1>2 DEF ModeCacheConsistent, walkActiveModeIdAt
  <2>1. CASE t = s
    <3>1. NoEntry \notin EntriesOf(s)
      BY DEF Inv, TypeOK, EntriesOf
    <3> QED
      BY <2>1, <3>1, <1>1, ChainEmpty DEF ModeAt, ModeChanges
  <2>2. CASE t # s
    BY <2>2, <1>1 DEF Inv, ModeCacheConsistent, walkActiveModeIdAt
  <2> QED
    BY <2>1, <2>2
<1> QED
  BY <1>3, <1>4, <1>5, <1>6 DEF Inv

\* Removing rows keeps the invariant when each session loses all its rows, or
\* keeps a set closed under parents that holds its leaf.
LEMMA ShrinkStep ==
  ASSUME Inv,
         TypeOK',
         DOMAIN entries' \subseteq DOMAIN entries,
         \A x \in DOMAIN entries' : entries'[x] = entries[x],
         DOMAIN sessions' \subseteq DOMAIN sessions,
         \A t \in DOMAIN sessions' : sessions'[t] = sessions[t],
         NoOrphans',
         \A t \in DOMAIN sessions' :
           /\ ParentClosed(entries, EntriesOf(t), EntriesOf(t)')
           /\ sessions[t].leaf # NoEntry => sessions[t].leaf \in EntriesOf(t)'
  PROVE  Inv'
<1> USE NullAssumption
<1>1. \A t : EntriesOf(t)' \subseteq EntriesOf(t)
  BY DEF EntriesOf
<1>2. \A x \in DOMAIN entries' : entries'[x].session \in DOMAIN sessions'
  BY DEF NoOrphans
<1>3. DOMAIN sessions' \subseteq Sessions /\ DOMAIN sessions \subseteq Sessions
  BY DEF Inv, TypeOK
<1>4. LogIsTree'
  <2>1. LeafInSession'
    BY DEF LeafInSession
  <2>2. ParentOlder'
    <3> SUFFICES ASSUME NEW x \in DOMAIN entries', entries'[x].parent # NoEntry
                 PROVE  /\ entries'[x].parent \in DOMAIN entries'
                        /\ entries'[entries'[x].parent].session = entries'[x].session
                        /\ entries'[entries'[x].parent].seq < entries'[x].seq
      BY DEF ParentOlder, EntriesOf
    <3> DEFINE p == entries[x].parent
               t == entries[x].session
    <3>1. p \in EntriesOf(t) /\ entries[p].seq < entries[x].seq
      BY DEF Inv, LogIsTree, ParentOlder
    <3>2. t \in DOMAIN sessions' /\ x \in EntriesOf(t)'
      BY <1>2 DEF EntriesOf
    <3>3. p \in EntriesOf(t)'
      BY <3>1, <3>2 DEF ParentClosed
    <3> QED
      BY <3>1, <3>3 DEF EntriesOf
  <2>3. SeqUnique'
    BY DEF Inv, LogIsTree, SeqUnique
  <2> QED
    BY <2>1, <2>2, <2>3 DEF LogIsTree
<1>5. HasLastRow'
  <2> SUFFICES ASSUME NEW t \in Sessions, NEW S \in SUBSET EntriesOf(t)', S # {}
               PROVE  \E y \in S : \A x \in S : entries'[x].seq <= entries'[y].seq
    BY DEF HasLastRow
  <2>1. PICK y \in S : \A x \in S : entries[x].seq <= entries[y].seq
    BY <1>1 DEF Inv, HasLastRow
  <2> QED
    BY <2>1 DEF EntriesOf
<1>6. \A t \in DOMAIN sessions' : \A x \in EntriesOf(t)' :
        /\ HasNearest(entries', EntriesOf(t)', x)
        /\ ModeAt(entries', EntriesOf(t)', x) = ModeAt(entries, EntriesOf(t), x)
  <2> SUFFICES ASSUME NEW t \in DOMAIN sessions', NEW x \in EntriesOf(t)'
               PROVE  /\ HasNearest(entries', EntriesOf(t)', x)
                      /\ ModeAt(entries', EntriesOf(t)', x)
                           = ModeAt(entries, EntriesOf(t), x)
    OBVIOUS
  <2>1. EntriesOf(t)' \in SUBSET EntriesOf(t)
    BY <1>1
  <2>2. \A y \in EntriesOf(t)' : entries'[y] = entries[y]
    BY DEF EntriesOf
  <2>3. ParentClosed(entries, EntriesOf(t), EntriesOf(t)')
    OBVIOUS
  <2>4. HasNearest(entries, EntriesOf(t), x)
    BY <1>3, <2>1 DEF Inv, WalksHaveNearest
  <2> QED
    BY <2>1, <2>2, <2>3, <2>4, ModeAtRestrict
<1>7. WalksHaveNearest'
  <2> SUFFICES ASSUME NEW t \in Sessions, NEW x \in EntriesOf(t)'
               PROVE  HasNearest(entries', EntriesOf(t)', x)
    BY DEF WalksHaveNearest
  <2>1. t \in DOMAIN sessions'
    BY <1>2 DEF EntriesOf
  <2> QED
    BY <1>6, <2>1
<1>8. ModeCacheConsistent'
  <2> SUFFICES ASSUME NEW t \in DOMAIN sessions'
               PROVE  sessions[t].mode = ModeAt(entries', EntriesOf(t)', sessions[t].leaf)
    BY DEF ModeCacheConsistent, walkActiveModeIdAt
  <2>1. sessions[t].mode = ModeAt(entries, EntriesOf(t), sessions[t].leaf)
    BY DEF Inv, ModeCacheConsistent, walkActiveModeIdAt
  <2>2. CASE sessions[t].leaf \in EntriesOf(t)'
    BY <1>6, <2>1, <2>2
  <2>3. CASE sessions[t].leaf \notin EntriesOf(t)'
    <3>1. sessions[t].leaf = NoEntry /\ NoEntry \notin EntriesOf(t)
      BY <2>3 DEF Inv, TypeOK, EntriesOf
    <3> QED
      BY <2>1, <2>3, <3>1, ChainEmpty DEF ModeAt, ModeChanges
  <2> QED
    BY <2>2, <2>3
<1> QED
  BY <1>4, <1>5, <1>7, <1>8 DEF Inv

\* Deleting a session, with the cascade, keeps the invariant.
LEMMA DeleteStep ==
  ASSUME Inv, NEW s \in Sessions, delete(s)
  PROVE  Inv'
<1>1. /\ DOMAIN entries' = DOMAIN entries \ EntriesOf(s)
      /\ \A x \in DOMAIN entries' : entries'[x] = entries[x]
      /\ DOMAIN sessions' = DOMAIN sessions \ {s}
      /\ \A t \in DOMAIN sessions' : sessions'[t] = sessions[t]
      /\ usedSessions' = usedSessions /\ usedEntries' = usedEntries /\ pager' = pager
  BY DEF delete
<1>2. TypeOK'
  <2>1. /\ sessions' \in [DOMAIN sessions' -> SessionRow]
        /\ entries' \in [DOMAIN entries' -> EntryRow]
    BY <1>1 DEF delete, Inv, TypeOK
  <2> QED
    BY <1>1, <2>1 DEF Inv, TypeOK
<1>3. NoOrphans'
  BY <1>1 DEF Inv, LogIsTree, NoOrphans, EntriesOf
<1>4. \A t \in DOMAIN sessions' : EntriesOf(t)' = EntriesOf(t)
  BY <1>1 DEF EntriesOf
<1>5. \A t \in DOMAIN sessions' :
        /\ ParentClosed(entries, EntriesOf(t), EntriesOf(t)')
        /\ sessions[t].leaf # NoEntry => sessions[t].leaf \in EntriesOf(t)'
  BY <1>1, <1>4 DEF ParentClosed, Inv, LogIsTree, LeafInSession
<1> QED
  BY <1>1, <1>2, <1>3, <1>5, ShrinkStep

\* gc keeps the invariant: what it keeps is the walk from the leaf.
LEMMA GcStep ==
  ASSUME Inv, NEW s \in Sessions, gc(s)
  PROVE  Inv'
<1> DEFINE path == Path(s, sessions[s].leaf)
<1>1. /\ s \in DOMAIN sessions /\ sessions[s].leaf # NoEntry
      /\ DOMAIN entries' = DOMAIN entries \ (EntriesOf(s) \ path)
      /\ \A x \in DOMAIN entries' : entries'[x] = entries[x]
      /\ sessions' = sessions
      /\ usedSessions' = usedSessions /\ usedEntries' = usedEntries
      /\ pager' = IF pager.session = s THEN [pager EXCEPT !.gced = TRUE] ELSE pager
  BY DEF gc
<1>2. TypeOK'
  <2>1. entries' \in [DOMAIN entries' -> EntryRow]
    BY <1>1 DEF gc, Inv, TypeOK
  <2>2. pager' \in [session : Sessions \cup {NoSession}, seen : SUBSET Entries,
                    cursor : Nat, more : BOOLEAN, gced : BOOLEAN]
    BY <1>1 DEF Inv, TypeOK
  <2> QED
    BY <1>1, <2>1, <2>2 DEF Inv, TypeOK
<1>3. NoOrphans'
  BY <1>1 DEF Inv, LogIsTree, NoOrphans
<1>4. path \subseteq EntriesOf(s)
  BY ChainSubset DEF Path
<1>5. /\ EntriesOf(s)' = path
      /\ \A t \in DOMAIN sessions : t # s => EntriesOf(t)' = EntriesOf(t)
  BY <1>1, <1>4 DEF EntriesOf
<1>6. ParentClosed(entries, EntriesOf(s), path)
  BY ChainClosed DEF ParentClosed, Path
<1>7. sessions[s].leaf \in path
  BY <1>1, ChainSelf DEF Path, Inv, LogIsTree, LeafInSession
<1>8. \A t \in DOMAIN sessions' :
        /\ ParentClosed(entries, EntriesOf(t), EntriesOf(t)')
        /\ sessions[t].leaf # NoEntry => sessions[t].leaf \in EntriesOf(t)'
  BY <1>1, <1>5, <1>6, <1>7 DEF ParentClosed, Inv, LogIsTree, LeafInSession
<1> QED
  BY <1>1, <1>2, <1>3, <1>8, ShrinkStep

\* branch keeps the invariant: the cache is re-seeded by the walk.
LEMMA BranchStep ==
  ASSUME Inv, NEW s \in Sessions, NEW e \in Entries, branch(s, e)
  PROVE  Inv'
<1> USE NullAssumption
<1> DEFINE srow == [leaf |-> e, mode |-> walkActiveModeIdAt(s, e)]
<1>1. /\ s \in DOMAIN sessions /\ e \in EntriesOf(s)
      /\ DOMAIN sessions' = DOMAIN sessions
      /\ sessions'[s] = srow
      /\ \A t \in DOMAIN sessions : t # s => sessions'[t] = sessions[t]
      /\ entries' = entries /\ usedSessions' = usedSessions
      /\ usedEntries' = usedEntries /\ pager' = pager
  BY DEF branch, Inv, TypeOK
<1>2. \A t : EntriesOf(t)' = EntriesOf(t)
  BY <1>1 DEF EntriesOf
<1>3. walkActiveModeIdAt(s, e) \in Modes \cup {NoMode}
  <2> DEFINE X == ModeChanges(entries, EntriesOf(s), e)
  <2>1. CASE X = {}
    BY <2>1 DEF walkActiveModeIdAt, ModeAt
  <2>2. CASE X # {}
    <3>1. HasNearest(entries, EntriesOf(s), e)
      BY <1>1 DEF Inv, WalksHaveNearest
    <3>2. Nearest(entries, EntriesOf(s), X) \in X
      BY <2>2, <3>1 DEF HasNearest, Nearest
    <3>3. X \subseteq DOMAIN entries
      BY ChainSubset DEF ModeChanges, EntriesOf
    <3> QED
      BY <2>2, <3>2, <3>3 DEF walkActiveModeIdAt, ModeAt, Inv, TypeOK, EntryRow
  <2> QED
    BY <2>1, <2>2
<1>4. TypeOK'
  <2>1. sessions' \in [DOMAIN sessions' -> SessionRow]
    BY <1>1, <1>3 DEF branch, Inv, TypeOK, SessionRow
  <2> QED
    BY <1>1, <2>1 DEF Inv, TypeOK
<1>5. LogIsTree'
  BY <1>1 DEF Inv, LogIsTree, LeafInSession, ParentOlder, SeqUnique, NoOrphans, EntriesOf
<1>6. HasLastRow' /\ WalksHaveNearest'
  BY <1>1, <1>2 DEF Inv, HasLastRow, WalksHaveNearest
<1>7. ModeCacheConsistent'
  BY <1>1, <1>2 DEF Inv, ModeCacheConsistent, walkActiveModeIdAt
<1> QED
  BY <1>4, <1>5, <1>6, <1>7 DEF Inv

\* A step of the paging client keeps the invariant: it only reads the tables.
LEMMA PagerStep ==
  ASSUME Inv, (\E s \in Sessions : SyncSession(s)) \/ requestSync
  PROVE  Inv'
<1> DEFINE Pager == [session : Sessions \cup {NoSession}, seen : SUBSET Entries,
                     cursor : Nat, more : BOOLEAN, gced : BOOLEAN]
<1>1. UNCHANGED <<sessions, entries, usedSessions, usedEntries>>
  BY DEF SyncSession, requestSync
<1>2. ASSUME NEW s \in Sessions, NEW afterSeq \in Nat, NEW seen \in SUBSET Entries,
             NEW gced \in BOOLEAN, ReceivePage(s, afterSeq, seen, gced)
      PROVE  pager' \in Pager
  <2> DEFINE page == getEntriesPaginated(s, afterSeq)
             seqs == {entries[e].seq : e \in page}
             cursor == IF page = {} THEN afterSeq
                       ELSE CHOOSE n \in seqs : \A e \in page : entries[e].seq <= n
  <2>1. page \subseteq EntriesOf(s)
    BY DEF getEntriesPaginated
  <2>2. page \subseteq Entries /\ seqs \subseteq Nat
    BY <2>1 DEF EntriesOf, Inv, TypeOK, EntryRow
  <2>3. cursor \in Nat
    <3>1. CASE page = {}
      BY <3>1
    <3>2. CASE page # {}
      <4>1. PICK y \in page : \A x \in page : entries[x].seq <= entries[y].seq
        BY <2>1, <3>2 DEF Inv, HasLastRow
      <4>2. \E n \in seqs : \A e \in page : entries[e].seq <= n
        BY <4>1
      <4> QED
        BY <2>2, <3>2, <4>2
    <3> QED
      BY <3>1, <3>2
  <2> QED
    BY <1>2, <2>2, <2>3 DEF ReceivePage
<1>3. pager' \in Pager
  <2>1. CASE \E s \in Sessions : SyncSession(s)
    BY <1>2, <2>1 DEF SyncSession
  <2>2. CASE requestSync
    <3>1. pager \in Pager /\ DOMAIN sessions \subseteq Sessions
      BY DEF Inv, TypeOK
    <3>2. CASE pager.session \in DOMAIN sessions
      <4>1. /\ pager.session \in Sessions /\ pager.cursor \in Nat
            /\ pager.seen \in SUBSET Entries /\ pager.gced \in BOOLEAN
        BY <3>1, <3>2
      <4>2. ReceivePage(pager.session, pager.cursor, pager.seen, pager.gced)
        BY <2>2, <3>2 DEF requestSync
      <4> QED
        BY <1>2, <4>1, <4>2
    <3>3. CASE pager.session \notin DOMAIN sessions
      BY <2>2, <3>1, <3>3 DEF requestSync
    <3> QED
      BY <3>2, <3>3
  <2> QED
    BY <2>1, <2>2
<1>4. TypeOK'
  BY <1>1, <1>3 DEF Inv, TypeOK
<1>5. LogIsTree'
  BY <1>1 DEF Inv, LogIsTree, LeafInSession, ParentOlder, SeqUnique, NoOrphans, EntriesOf
<1>6. (HasLastRow /\ WalksHaveNearest /\ ModeCacheConsistent)'
  BY <1>1 DEF Inv, HasLastRow, WalksHaveNearest, ModeCacheConsistent,
              walkActiveModeIdAt, EntriesOf
<1> QED
  BY <1>4, <1>5, <1>6 DEF Inv

-----------------------------------------------------------------------------
\* The invariant holds in every state the store can reach.
THEOREM Invariance == Spec => []Inv
<1>1. Init => Inv
  BY DEF Init, Inv, TypeOK, LogIsTree, LeafInSession, ParentOlder, SeqUnique,
         NoOrphans, HasLastRow, WalksHaveNearest, ModeCacheConsistent, EntriesOf
<1>2. Inv /\ [Next]_vars => Inv'
  <2> SUFFICES ASSUME Inv, [Next]_vars
               PROVE  Inv'
    OBVIOUS
  <2>1. ASSUME NEW s \in Sessions, create(s) PROVE Inv'
    BY <2>1, CreateStep
  <2>2. ASSUME NEW s \in Sessions, delete(s) PROVE Inv'
    BY <2>2, DeleteStep
  <2>3. ASSUME NEW s \in Sessions, gc(s) PROVE Inv'
    BY <2>3, GcStep
  <2>4. ASSUME NEW s \in Sessions, NEW e \in Entries, Append(s, e) PROVE Inv'
    <3>1. CASE AppendPlain(s, e)
      BY <3>1, AppendStep DEF AppendPlain, EntryTypes
    <3>2. CASE \E m \in Modes : enterModeOnSession(s, e, m)
      BY <3>2, AppendStep DEF enterModeOnSession, EntryTypes
    <3>3. CASE exitModeOnSession(s, e)
      BY <3>3, AppendStep DEF exitModeOnSession, EntryTypes
    <3>4. CASE AppendCompaction(s, e)
      <4>1. EntriesOf(s) \subseteq Entries
        BY DEF Inv, TypeOK, EntriesOf
      <4> QED
        BY <3>4, <4>1, AppendStep DEF AppendCompaction, EntryTypes
    <3> QED
      BY <2>4, <3>1, <3>2, <3>3, <3>4 DEF Append
  <2>5. ASSUME NEW s \in Sessions, NEW e \in Entries, branch(s, e) PROVE Inv'
    BY <2>5, BranchStep
  <2>6. CASE (\E s \in Sessions : SyncSession(s)) \/ requestSync
    BY <2>6, PagerStep
  <2>7. CASE UNCHANGED vars
    <3>1. LogIsTree'
      BY <2>7 DEF vars, Inv, LogIsTree, LeafInSession, ParentOlder, SeqUnique,
                  NoOrphans, EntriesOf
    <3>2. TypeOK'
      BY <2>7 DEF vars, Inv, TypeOK
    <3>3. HasLastRow' /\ WalksHaveNearest' /\ ModeCacheConsistent'
      BY <2>7 DEF vars, Inv, HasLastRow, WalksHaveNearest,
                  ModeCacheConsistent, walkActiveModeIdAt, EntriesOf
    <3> QED
      BY <3>1, <3>2, <3>3 DEF Inv
  <2> QED
    BY <2>1, <2>2, <2>3, <2>4, <2>5, <2>6, <2>7 DEF Next
<1> QED
  BY <1>1, <1>2, PTL DEF Spec

\* The tables keep their shape: session-store.ts never writes a malformed row.
THEOREM TypeCorrect == Spec => []TypeOK
BY Invariance, PTL DEF Inv

\* The log stays a forest of trees, one per live session, so every walk of it
\* (buildContext, gc, branch, resolveActiveMode) ends.
THEOREM LogStaysTree == Spec => []LogIsTree
BY Invariance, PTL DEF Inv

\* active_mode_id is always what walking the log from the leaf would return.
THEOREM ModeCacheCorrect == Spec => []ModeCacheConsistent
BY Invariance, PTL DEF Inv

-----------------------------------------------------------------------------
(***************************************************************************)
(* What the model is given.  Two rows of a walk are on one walk, so the    *)
(* last compaction is the one with the greatest seq, and the entry it      *)
(* keeps, being older, is behind it.                                       *)
(***************************************************************************)
\* A walk from a row: the row, then the walk from its parent.
LEMMA ChainUnfold ==
  ASSUME NEW T, NEW D, NEW x \in D
  PROVE  Chain(T, D, x) = {x} \cup Chain(T, D, T[x].parent)
<1> DEFINE p == T[x].parent
           S == {x} \cup Chain(T, D, p)
<1>1. Chain(T, D, x) \subseteq S
  <2>1. S \in SUBSET D /\ x \in S
    BY ChainSubset
  <2>2. ParentClosed(T, D, S)
    <3> SUFFICES ASSUME NEW y \in S, T[y].parent \in D
                 PROVE  T[y].parent \in S
      BY DEF ParentClosed
    <3>1. CASE y = x
      BY <3>1, ChainSelf
    <3>2. CASE y # x
      BY <3>2, ChainClosed
    <3> QED
      BY <3>1, <3>2
  <2> QED
    BY <2>1, <2>2, ChainMinimal
<1>2. Chain(T, D, p) \subseteq Chain(T, D, x)
  <2>1. CASE p \in D
    BY <2>1, ChainSelf, ChainClosed, ChainTransitive
  <2>2. CASE p \notin D
    BY <2>2, ChainEmpty
  <2> QED
    BY <2>1, <2>2
<1> QED
  BY <1>1, <1>2, ChainSelf

\* Of two rows of a walk, one is on the walk from the other.
LEMMA ChainTotal ==
  ASSUME NEW T, NEW D, NEW e, NEW a \in Chain(T, D, e), NEW b \in Chain(T, D, e)
  PROVE  a \in Chain(T, D, b) \/ b \in Chain(T, D, a)
<1> DEFINE C == Chain(T, D, e)
           S == {x \in C : x \in Chain(T, D, b) \/ b \in Chain(T, D, x)}
<1>1. e \in D /\ C \subseteq D
  BY ChainSubset, ChainEmpty
<1>2. e \in S /\ S \in SUBSET D
  BY <1>1, ChainSelf
<1>3. ParentClosed(T, D, S)
  <2> SUFFICES ASSUME NEW x \in S, T[x].parent \in D
               PROVE  T[x].parent \in S
    BY DEF ParentClosed
  <2>1. T[x].parent \in C /\ x \in D
    BY <1>1, ChainClosed
  <2>2. CASE x \in Chain(T, D, b)
    BY <2>1, <2>2, ChainClosed
  <2>3. CASE b \in Chain(T, D, x)
    <3>1. b = x \/ b \in Chain(T, D, T[x].parent)
      BY <2>1, <2>3, ChainUnfold
    <3>2. CASE b = x
      BY <2>1, <3>2, ChainSelf, ChainClosed
    <3> QED
      BY <2>1, <3>1, <3>2
  <2> QED
    BY <2>2, <2>3
<1>4. C \subseteq S
  BY <1>2, <1>3, ChainMinimal
<1> QED
  BY <1>4

\* A walk goes to older rows.
LEMMA ChainOlder ==
  ASSUME Inv, NEW s, NEW e, NEW x \in Path(s, e)
  PROVE  entries[x].seq <= entries[e].seq
<1> DEFINE D == EntriesOf(s)
           S == {y \in D : entries[y].seq <= entries[e].seq}
<1>1. \A y \in D : entries[y].seq \in Nat
  BY DEF Inv, TypeOK, EntriesOf, EntryRow
<1>2. e \in D
  BY ChainEmpty DEF Path
<1>3. ParentClosed(entries, D, S)
  <2> SUFFICES ASSUME NEW y \in S, entries[y].parent \in D
               PROVE  entries[y].parent \in S
    BY DEF ParentClosed
  <2>1. entries[y].parent # NoEntry
    BY NullAssumption DEF Inv, TypeOK, EntriesOf
  <2>2. entries[entries[y].parent].seq < entries[y].seq
    BY <2>1 DEF Inv, LogIsTree, ParentOlder, EntriesOf
  <2> QED
    BY <1>1, <1>2, <2>2
<1>4. e \in S /\ S \in SUBSET D
  BY <1>1, <1>2
<1>5. Chain(entries, D, e) \subseteq S
  BY <1>3, <1>4, ChainMinimal
<1> QED
  BY <1>5 DEF Path

\* Among rows of one walk there is one that the walk meets first.
LEMMA NearestExists ==
  ASSUME Inv, NEW s \in Sessions, NEW e, NEW X \in SUBSET Path(s, e), X # {}
  PROVE  /\ Nearest(entries, EntriesOf(s), X) \in X
         /\ X \subseteq Path(s, Nearest(entries, EntriesOf(s), X))
<1>1. X \subseteq EntriesOf(s)
  BY ChainSubset DEF Path
<1>2. PICK y \in X : \A x \in X : entries[x].seq <= entries[y].seq
  BY <1>1 DEF Inv, HasLastRow
<1>3. X \subseteq Chain(entries, EntriesOf(s), y)
  <2> SUFFICES ASSUME NEW x \in X PROVE x \in Path(s, y)
    BY DEF Path
  <2>1. CASE y \in Path(s, x)
    <3>1. entries[y].seq <= entries[x].seq
      BY <2>1, ChainOlder
    <3>2. entries[y].seq \in Nat /\ entries[x].seq \in Nat
      BY <1>1 DEF Inv, TypeOK, EntriesOf, EntryRow
    <3>3. entries[y].seq = entries[x].seq
      BY <1>2, <3>1, <3>2
    <3>4. x = y
      BY <1>1, <3>3 DEF Inv, LogIsTree, SeqUnique, EntriesOf
    <3> QED
      BY <2>1, <3>4
  <2>2. CASE y \notin Path(s, x)
    BY <2>2, ChainTotal DEF Path
  <2> QED
    BY <2>1, <2>2
<1> QED
  BY <1>2, <1>3 DEF Nearest, Path

\* The entry a compaction keeps is older than the compaction, as long as it is
\* there; its id is not given to another entry when it is not.
KeptOlder ==
  \A e \in DOMAIN entries :
    LET k == entries[e].kept IN
      k # NoEntry => /\ k \in usedEntries
                     /\ k \in DOMAIN entries => entries[k].seq < entries[e].seq

\* Each operation preserves KeptOlder.
LEMMA KeptStep ==
  Inv /\ KeptOlder /\ [Next]_vars => KeptOlder'
<1> SUFFICES ASSUME Inv, KeptOlder, [Next]_vars PROVE KeptOlder'
  OBVIOUS
<1>1. ASSUME DOMAIN entries' \subseteq DOMAIN entries, usedEntries' = usedEntries,
             \A x \in DOMAIN entries' : entries'[x] = entries[x]
      PROVE  KeptOlder'
  BY <1>1 DEF KeptOlder
<1>2. ASSUME NEW s \in Sessions, NEW e \in Entries, Append(s, e) PROVE KeptOlder'
  <2>1. PICK type, mode, kept, summary :
          /\ appendEntry(s, e, type, mode, kept, summary)
          /\ kept \in EntriesOf(s) \cup {NoEntry}
    BY <1>2 DEF Append, AppendPlain, enterModeOnSession, exitModeOnSession,
                AppendCompaction
  <2>2. /\ e \notin usedEntries /\ usedEntries' = usedEntries \cup {e}
        /\ DOMAIN entries' = DOMAIN entries \cup {e}
        /\ \A x \in DOMAIN entries \ {e} : entries'[x] = entries[x]
        /\ entries'[e].kept = kept /\ entries'[e].seq = NextSeq(s)
    BY <2>1 DEF appendEntry
  <2>3. DOMAIN entries \subseteq usedEntries /\ e \notin DOMAIN entries
    BY <2>2 DEF Inv, TypeOK
  <2> SUFFICES ASSUME NEW x \in DOMAIN entries', entries'[x].kept # NoEntry
               PROVE  /\ entries'[x].kept \in usedEntries'
                      /\ entries'[x].kept \in DOMAIN entries' =>
                           entries'[entries'[x].kept].seq < entries'[x].seq
    BY DEF KeptOlder
  <2>4. CASE x = e
    <3>1. kept \in EntriesOf(s) /\ kept \in DOMAIN entries
      BY <2>1, <2>2, <2>4 DEF EntriesOf
    <3>2. entries[kept].seq < NextSeq(s)
      BY <3>1, NextSeqAbove DEF Inv
    <3> QED
      BY <2>2, <2>3, <2>4, <3>1, <3>2
  <2>5. CASE x # e
    <3>1. x \in DOMAIN entries /\ entries'[x] = entries[x]
      BY <2>2, <2>5
    <3>2. entries[x].kept \in usedEntries /\ entries[x].kept # e
      BY <2>2, <3>1 DEF KeptOlder
    <3> QED
      BY <2>2, <3>1, <3>2 DEF KeptOlder
  <2> QED
    BY <2>4, <2>5
<1>3. ASSUME NEW s \in Sessions, create(s) \/ delete(s) \/ gc(s) \/ SyncSession(s)
      PROVE  KeptOlder'
  BY <1>1, <1>3 DEF create, delete, gc, SyncSession
<1>4. ASSUME NEW s \in Sessions, NEW e \in Entries, branch(s, e) PROVE KeptOlder'
  BY <1>1, <1>4 DEF branch
<1>5. CASE requestSync \/ UNCHANGED vars
  BY <1>1, <1>5 DEF requestSync, vars
<1> QED
  BY <1>2, <1>3, <1>4, <1>5 DEF Next

\* What comes after the last compaction is told to the model.
LEMMA KeptBehind ==
  ASSUME Inv, KeptOlder
  PROVE  NewMessagesInContext
<1> SUFFICES ASSUME NEW s \in DOMAIN sessions, LastCompaction(s) # NoEntry,
                    NEW x \in OnPath(s, sessions[s].leaf, "message"),
                    LastCompaction(s) \in Path(s, x)
             PROVE  x \in buildContext(s).messages
  BY DEF NewMessagesInContext
<1> DEFINE c == LastCompaction(s)
           leaf == sessions[s].leaf
           compactions == OnPath(s, leaf, "compaction")
<1>1. s \in Sessions
  BY DEF Inv, TypeOK
<1>2. c \in compactions
  <2>1. compactions # {} /\ c = Nearest(entries, EntriesOf(s), compactions)
    BY DEF LastCompaction
  <2>2. compactions \in SUBSET Path(s, leaf)
    BY DEF OnPath
  <2> QED
    BY <1>1, <2>1, <2>2, NearestExists
<1>3. c \in Path(s, leaf) /\ entries[c].type = "compaction" /\ c \in DOMAIN entries
  BY <1>2, ChainSubset DEF OnPath, Path, EntriesOf
<1>4. FromIndex(s, c, x)
  <2> DEFINE k == entries[c].kept
  <2>1. CASE k \in Path(s, leaf)
    <3>1. k \in DOMAIN entries /\ k \in Entries /\ k # NoEntry
      BY <2>1, ChainSubset, NullAssumption DEF Path, EntriesOf, Inv, TypeOK
    <3>2. entries[k].seq < entries[c].seq
      BY <1>3, <3>1 DEF KeptOlder
    <3>3. c \notin Path(s, k)
      <4>1. entries[k].seq \in Nat /\ entries[c].seq \in Nat
        BY <1>3, <3>1 DEF Inv, TypeOK, EntryRow
      <4> QED
        BY <3>2, <4>1, ChainOlder
    <3>4. k \in Path(s, c)
      BY <1>3, <2>1, <3>3, ChainTotal DEF Path
    <3>5. k \in Path(s, x)
      BY <3>4, ChainTransitive DEF Path
    <3> QED
      BY <2>1, <3>5 DEF FromIndex
  <2>2. CASE k \notin Path(s, leaf)
    BY <1>3, <2>2 DEF FromIndex, OnPath
  <2> QED
    BY <2>1, <2>2
<1> QED
  BY <1>4 DEF buildContext

\* Whatever was branched, collected and appended: a message after the last
\* compaction is in the context that buildContext gives the model.
THEOREM NewMessagesAreTold == Spec => []NewMessagesInContext
<1>1. Init => KeptOlder
  BY DEF Init, KeptOlder
<1> QED
  BY <1>1, KeptStep, KeptBehind, Invariance, PTL DEF Spec

\* A context is read off the walk from the leaf: it stays while no row of that
\* walk is taken away or written.
LEMMA ContextKept ==
  ASSUME Inv, NEW s \in DOMAIN sessions,
         s \in DOMAIN sessions', sessions'[s].leaf = sessions[s].leaf,
         EntriesOf(s)' \subseteq EntriesOf(s),
         \A x \in EntriesOf(s)' : entries'[x] = entries[x],
         ParentClosed(entries, EntriesOf(s), EntriesOf(s)'),
         sessions[s].leaf # NoEntry => sessions[s].leaf \in EntriesOf(s)'
  PROVE  buildContext(s)' = buildContext(s)
<1> DEFINE D == EntriesOf(s)
           C == EntriesOf(s)'
           leaf == sessions[s].leaf
           K == OnPath(s, leaf, "compaction")
           c == LastCompaction(s)
<1>1. s \in Sessions /\ NoEntry \notin D
  BY NullAssumption DEF Inv, TypeOK, EntriesOf
<1>2. \A x \in C : Chain(entries', C, x) = Chain(entries, D, x)
  BY ChainRestrict
<1>3. \A x \in C : Path(s, x)' = Path(s, x)
  BY <1>2 DEF Path
<1>4. Path(s, leaf)' = Path(s, leaf) /\ Path(s, leaf) \subseteq C
  <2>1. CASE leaf \in C
    <3>1. Chain(entries', C, leaf) \subseteq C
      BY ChainSubset
    <3> QED
      BY <1>2, <2>1, <3>1 DEF Path
  <2>2. CASE leaf \notin C
    <3>1. leaf \notin D
      BY <1>1, <2>2
    <3>2. Chain(entries', C, leaf) = {} /\ Chain(entries, D, leaf) = {}
      BY <2>2, <3>1, ChainEmpty
    <3> QED
      BY <3>2 DEF Path
  <2> QED
    BY <2>1, <2>2
<1>5. \A t : OnPath(s, leaf, t)' = OnPath(s, leaf, t)
  BY <1>4 DEF OnPath
<1>6. LastCompaction(s)' = c /\ (c # NoEntry => c \in K)
  <2>1. CASE K = {}
    BY <1>5, <2>1 DEF LastCompaction
  <2>2. CASE K # {}
    <3>1. K \subseteq C
      BY <1>4 DEF OnPath
    <3>2. {y \in K : K \subseteq Chain(entries', C, y)}
            = {y \in K : K \subseteq Chain(entries, D, y)}
      BY <1>2, <3>1
    <3>3. Nearest(entries', C, K) = Nearest(entries, D, K)
      BY <3>2 DEF Nearest
    <3>4. Nearest(entries, D, K) \in K
      BY <1>1, <2>2, NearestExists DEF OnPath
    <3> QED
      BY <1>5, <2>2, <3>3, <3>4 DEF LastCompaction
  <2> QED
    BY <2>1, <2>2
<1>7. \A x \in OnPath(s, leaf, "message") :
        c # NoEntry => FromIndex(s, c, x)' = FromIndex(s, c, x)
  <2> SUFFICES ASSUME NEW x \in OnPath(s, leaf, "message"), c # NoEntry
               PROVE  FromIndex(s, c, x)' = FromIndex(s, c, x)
    OBVIOUS
  <2>1. x \in C /\ c \in C
    BY <1>4, <1>6 DEF OnPath
  <2>2. entries'[c] = entries[c] /\ Path(s, x)' = Path(s, x)
    BY <1>3, <2>1
  <2> QED
    BY <1>4, <1>6, <2>2 DEF FromIndex
<1>8. c # NoEntry => entries'[c] = entries[c]
  BY <1>4, <1>6 DEF OnPath
<1> QED
  BY <1>5, <1>6, <1>7, <1>8 DEF buildContext

\* gc, and whatever is done to other sessions, leaves what the model of a
\* session is given as it is.
LEMMA ContextStep ==
  ASSUME Inv, [Next]_vars, entries' # entries, NEW s \in DOMAIN sessions,
         s \in DOMAIN sessions', sessions'[s].leaf = sessions[s].leaf
  PROVE  buildContext(s)' = buildContext(s)
<1> DEFINE leaf == sessions[s].leaf
<1>1. s \in Sessions /\ leaf \in Entries \cup {NoEntry} /\ DOMAIN entries \subseteq usedEntries
  BY DEF Inv, TypeOK, SessionRow
<1>2. leaf # NoEntry => leaf \in EntriesOf(s)
  BY DEF Inv, LogIsTree, LeafInSession
<1>3. ASSUME EntriesOf(s)' = EntriesOf(s),
             \A x \in EntriesOf(s) : entries'[x] = entries[x]
      PROVE  buildContext(s)' = buildContext(s)
  <2>1. ParentClosed(entries, EntriesOf(s), EntriesOf(s)')
    BY <1>3 DEF ParentClosed
  <2> QED
    BY <1>2, <1>3, <2>1, ContextKept
<1>4. ASSUME NEW t \in Sessions, NEW e \in Entries, Append(t, e)
      PROVE  buildContext(s)' = buildContext(s)
  <2>1. PICK type, mode, kept, summary : appendEntry(t, e, type, mode, kept, summary)
    BY <1>4 DEF Append, AppendPlain, enterModeOnSession, exitModeOnSession,
                AppendCompaction
  <2>2. /\ e \notin usedEntries /\ t \in DOMAIN sessions /\ sessions'[t].leaf = e
        /\ DOMAIN entries' = DOMAIN entries \cup {e}
        /\ \A x \in DOMAIN entries \ {e} : entries'[x] = entries[x]
        /\ entries'[e].session = t
    BY <2>1 DEF appendEntry
  <2>3. s # t
    BY <1>1, <1>2, <2>2, NullAssumption DEF EntriesOf
  <2>4. EntriesOf(s)' = EntriesOf(s)
    BY <1>1, <2>2, <2>3 DEF EntriesOf
  <2>5. \A x \in EntriesOf(s) : entries'[x] = entries[x]
    BY <1>1, <2>2 DEF EntriesOf
  <2> QED
    BY <1>3, <2>4, <2>5
<1>5. ASSUME NEW t \in Sessions, delete(t) PROVE buildContext(s)' = buildContext(s)
  <2>1. /\ s # t /\ DOMAIN entries' = DOMAIN entries \ EntriesOf(t)
        /\ \A x \in DOMAIN entries' : entries'[x] = entries[x]
    BY <1>5 DEF delete
  <2> QED
    BY <1>3, <2>1 DEF EntriesOf
<1>6. ASSUME NEW t \in Sessions, gc(t) PROVE buildContext(s)' = buildContext(s)
  <2> DEFINE path == Path(t, sessions[t].leaf)
  <2>1. /\ sessions[t].leaf # NoEntry /\ t \in DOMAIN sessions
        /\ DOMAIN entries' = DOMAIN entries \ (EntriesOf(t) \ path)
        /\ \A x \in DOMAIN entries' : entries'[x] = entries[x]
    BY <1>6 DEF gc
  <2>2. CASE s # t
    BY <1>3, <2>1, <2>2 DEF EntriesOf
  <2>3. CASE s = t
    <3>1. path \subseteq EntriesOf(s)
      BY <2>3, ChainSubset DEF Path
    <3>2. EntriesOf(s)' = path /\ \A x \in EntriesOf(s)' : entries'[x] = entries[x]
      BY <2>1, <2>3, <3>1 DEF EntriesOf
    <3>3. ParentClosed(entries, EntriesOf(s), path)
      BY <2>3, ChainClosed DEF ParentClosed, Path
    <3>4. leaf \in path
      BY <1>2, <2>1, <2>3, ChainSelf DEF Path
    <3> QED
      BY <3>1, <3>2, <3>3, <3>4, ContextKept
  <2> QED
    BY <2>2, <2>3
<1> QED
  BY <1>4, <1>5, <1>6 DEF Next, vars, create, branch, SyncSession, requestSync

\* A session's model is given another context only when that session's leaf
\* moves.
THEOREM ContextFollowsLeaf == Spec => ContextMovesOnlyWithLeaf
<1>1. Inv /\ [Next]_vars =>
        [entries' # entries =>
           \A s \in DOMAIN sessions :
             s \in DOMAIN sessions' /\ sessions'[s].leaf = sessions[s].leaf
               => buildContext(s)' = buildContext(s)]_vars
  BY ContextStep
<1> QED
  BY <1>1, Invariance, PTL DEF Spec, ContextMovesOnlyWithLeaf

-----------------------------------------------------------------------------
(***************************************************************************)
(* The paging client.  A page is the rows after the cursor that have fewer *)
(* than PageLimit of them below, so with a row it holds those below.  What *)
(* is appended gets a seq above the cursor because the row the cursor came *)
(* from is still there, or the session is gone and its id not used again.  *)
(***************************************************************************)
CursorHasRow ==
  \/ pager.cursor = 0
  \/ pager.session \notin DOMAIN sessions
  \/ \E e \in EntriesOf(pager.session) : entries[e].seq = pager.cursor

PagerInv ==
  /\ IsFiniteSet(DOMAIN entries)
  /\ pager.session \in usedSessions \cup {NoSession}
  /\ PagerComplete
  /\ ~pager.gced => CursorHasRow

\* A page after afterSeq holds all rows up to the cursor it leaves.
LEMMA PageStep ==
  ASSUME Inv, IsFiniteSet(DOMAIN entries), UNCHANGED <<sessions, entries>>,
         NEW s \in DOMAIN sessions, NEW afterSeq \in Nat, NEW seen, NEW gced,
         {e \in EntriesOf(s) : entries[e].seq <= afterSeq} \subseteq seen,
         ReceivePage(s, afterSeq, seen, gced)
  PROVE  /\ pager'.session = s /\ pager'.gced = gced
         /\ PagerComplete'
         /\ \/ pager'.cursor = afterSeq
            \/ \E e \in EntriesOf(s) : entries[e].seq = pager'.cursor
<1> DEFINE rest == {e \in EntriesOf(s) : entries[e].seq > afterSeq}
           Below(e) == {x \in rest : entries[x].seq < entries[e].seq}
           page == getEntriesPaginated(s, afterSeq)
<1>1. page = {e \in rest : Cardinality(Below(e)) < PageLimit}
  BY DEF getEntriesPaginated
<1>2. /\ pager'.session = s /\ pager'.gced = gced /\ pager'.seen = seen \cup page
      /\ pager'.cursor = IF page = {} THEN afterSeq
                         ELSE CHOOSE n \in {entries[e].seq : e \in page} :
                                \A e \in page : entries[e].seq <= n
  BY DEF ReceivePage
<1>3. /\ s \in Sessions /\ page \subseteq rest /\ rest \subseteq EntriesOf(s)
      /\ \A e \in EntriesOf(s) : entries[e].seq \in Nat
  BY <1>1 DEF Inv, TypeOK, EntriesOf, EntryRow
<1>4. EntriesOf(s)' = EntriesOf(s) /\ entries' = entries
  BY DEF EntriesOf
<1>. HIDE DEF page
<1>5. CASE page = {}
  BY <1>2, <1>4, <1>5 DEF PagerComplete
<1>6. CASE page # {}
  <2>1. PICK y \in page : \A e \in page : entries[e].seq <= entries[y].seq
    BY <1>3, <1>6 DEF Inv, HasLastRow
  <2>2. PICK z \in page : pager'.cursor = entries[z].seq
    <3>1. \E n \in {entries[e].seq : e \in page} : \A e \in page : entries[e].seq <= n
      BY <2>1
    <3> QED
      BY <1>2, <1>6, <3>1
  <2>3. ASSUME NEW x \in rest, entries[x].seq <= entries[z].seq
        PROVE  x \in page
    <3>1. z \in rest /\ Cardinality(Below(z)) < PageLimit
      BY <1>1
    <3>2. Below(x) \subseteq Below(z)
      BY <1>3, <2>3, <3>1
    <3>3. IsFiniteSet(Below(z))
      BY FS_Subset DEF EntriesOf
    <3>4. /\ Cardinality(Below(x)) <= Cardinality(Below(z))
          /\ Cardinality(Below(x)) \in Nat /\ Cardinality(Below(z)) \in Nat
      <4>1. IsFiniteSet(Below(x))
        BY <3>2, <3>3, FS_Subset
      <4> QED
        BY <3>2, <3>3, <4>1, FS_Subset, FS_CardinalityType
    <3> QED
      BY <1>1, <3>1, <3>4, PageAssumption
  <2>4. \A x \in EntriesOf(s) : entries[x].seq <= entries[z].seq => x \in seen \cup page
    <3> SUFFICES ASSUME NEW x \in EntriesOf(s), entries[x].seq <= entries[z].seq
                 PROVE  x \in seen \cup page
      OBVIOUS
    <3>1. CASE entries[x].seq <= afterSeq
      BY <3>1
    <3>2. CASE entries[x].seq > afterSeq
      BY <2>3, <3>2
    <3> QED
      BY <1>3, <3>1, <3>2
  <2> QED
    BY <1>2, <1>3, <1>4, <2>2, <2>4 DEF PagerComplete
<1> QED
  BY <1>5, <1>6

\* Each operation and each page preserves PagerInv.
LEMMA PagerInvStep ==
  Inv /\ PagerInv /\ [Next]_vars => PagerInv'
<1> SUFFICES ASSUME Inv, PagerInv, [Next]_vars PROVE PagerInv'
  OBVIOUS
<1> DEFINE w == pager.session
<1>1. /\ w \in usedSessions \cup {NoSession} /\ pager.cursor \in Nat
      /\ DOMAIN sessions \subseteq usedSessions /\ DOMAIN sessions \subseteq Sessions
      /\ usedSessions \subseteq Sessions
  BY DEF PagerInv, Inv, TypeOK
<1>2. w \notin DOMAIN sessions => EntriesOf(w) = {}
  BY DEF Inv, LogIsTree, NoOrphans, EntriesOf
\* Rows of the watched session are taken away at most.
<1>3. ASSUME pager' = pager, usedSessions \subseteq usedSessions',
             DOMAIN entries' \subseteq DOMAIN entries,
             \A x \in DOMAIN entries' : entries'[x] = entries[x],
             w \in DOMAIN sessions' =>
               w \in DOMAIN sessions /\ EntriesOf(w)' = EntriesOf(w)
      PROVE  PagerInv'
  <2>1. IsFiniteSet(DOMAIN entries')
    BY <1>3, FS_Subset DEF PagerInv
  <2>2. EntriesOf(w)' \subseteq EntriesOf(w) /\ \A x \in EntriesOf(w)' : entries'[x] = entries[x]
    BY <1>3 DEF EntriesOf
  <2>3. PagerComplete'
    BY <1>3, <2>2 DEF PagerInv, PagerComplete
  <2>4. ~pager.gced => CursorHasRow'
    BY <1>3, <2>2 DEF PagerInv, CursorHasRow
  <2> QED
    BY <1>1, <1>3, <2>1, <2>3, <2>4 DEF PagerInv
<1>4. ASSUME NEW s \in Sessions, create(s) PROVE PagerInv'
  <2>1. /\ s # w /\ UNCHANGED <<entries, pager>> /\ DOMAIN sessions' = DOMAIN sessions \cup {s}
        /\ usedSessions' = usedSessions \cup {s}
    BY <1>1, <1>4, NullAssumption DEF create
  <2>2. EntriesOf(w)' = EntriesOf(w)
    BY <2>1 DEF EntriesOf
  <2> QED
    BY <1>3, <2>1, <2>2
<1>5. ASSUME NEW s \in Sessions, delete(s) PROVE PagerInv'
  <2>1. /\ UNCHANGED <<usedSessions, pager>> /\ DOMAIN sessions' = DOMAIN sessions \ {s}
        /\ DOMAIN entries' = DOMAIN entries \ EntriesOf(s)
        /\ \A x \in DOMAIN entries' : entries'[x] = entries[x]
    BY <1>5 DEF delete
  <2>2. w # s => EntriesOf(w)' = EntriesOf(w)
    BY <2>1 DEF EntriesOf
  <2> QED
    BY <1>3, <2>1, <2>2
<1>6. ASSUME NEW s \in Sessions, gc(s) PROVE PagerInv'
  <2>1. /\ UNCHANGED <<usedSessions, sessions>>
        /\ DOMAIN entries' \subseteq DOMAIN entries
        /\ DOMAIN entries \ EntriesOf(s) \subseteq DOMAIN entries'
        /\ \A x \in DOMAIN entries' : entries'[x] = entries[x]
        /\ pager' = IF w = s THEN [pager EXCEPT !.gced = TRUE] ELSE pager
    BY <1>6 DEF gc
  <2>2. CASE w = s
    <3>1. pager'.gced = TRUE /\ pager'.session = w
      BY <2>1, <2>2 DEF Inv, TypeOK
    <3>2. IsFiniteSet(DOMAIN entries')
      BY <2>1, FS_Subset DEF PagerInv
    <3> QED
      BY <1>1, <2>1, <3>1, <3>2 DEF PagerInv, PagerComplete
  <2>3. CASE w # s
    <3>1. EntriesOf(w)' = EntriesOf(w)
      BY <2>1, <2>3 DEF EntriesOf
    <3> QED
      BY <1>3, <2>1, <2>3, <3>1
  <2> QED
    BY <2>2, <2>3
<1>7. ASSUME NEW s \in Sessions, NEW e \in Entries, Append(s, e) PROVE PagerInv'
  <2>1. PICK type, mode, kept, summary : appendEntry(s, e, type, mode, kept, summary)
    BY <1>7 DEF Append, AppendPlain, enterModeOnSession, exitModeOnSession,
                AppendCompaction
  <2>2. /\ e \notin DOMAIN entries /\ s \in DOMAIN sessions
        /\ UNCHANGED <<usedSessions, pager>> /\ DOMAIN sessions' = DOMAIN sessions
        /\ DOMAIN entries' = DOMAIN entries \cup {e}
        /\ \A x \in DOMAIN entries : entries'[x] = entries[x]
        /\ entries'[e].session = s /\ entries'[e].seq = NextSeq(s)
    BY <2>1 DEF appendEntry, Inv, TypeOK
  <2>3. IsFiniteSet(DOMAIN entries')
    BY <2>2, FS_AddElement DEF PagerInv
  <2>4. CASE w # s
    <3>1. EntriesOf(w)' = EntriesOf(w) /\ \A x \in EntriesOf(w) : entries'[x] = entries[x]
      BY <2>2, <2>4 DEF EntriesOf
    <3>2. PagerComplete'
      BY <2>2, <3>1 DEF PagerInv, PagerComplete
    <3>3. ~pager.gced => CursorHasRow'
      BY <2>2, <3>1 DEF PagerInv, CursorHasRow
    <3> QED
      BY <1>1, <2>2, <2>3, <3>2, <3>3 DEF PagerInv
  <2>5. CASE w = s
    <3>1. EntriesOf(w)' = EntriesOf(w) \cup {e} /\ \A x \in EntriesOf(w) : entries'[x] = entries[x]
      BY <2>2, <2>5 DEF EntriesOf
    <3>2. /\ NextSeq(s) \in Nat \ {0}
          /\ \A x \in EntriesOf(s) : entries[x].seq < NextSeq(s)
      BY NextSeqAbove DEF Inv
    <3>3. ASSUME ~pager.gced PROVE ~(entries'[e].seq <= pager.cursor)
      BY <1>1, <2>2, <2>5, <3>2, <3>3 DEF PagerInv, CursorHasRow
    <3>4. PagerComplete'
      BY <2>2, <3>1, <3>3 DEF PagerInv, PagerComplete
    <3>5. ~pager.gced => CursorHasRow'
      BY <2>2, <3>1 DEF PagerInv, CursorHasRow
    <3> QED
      BY <1>1, <2>2, <2>3, <3>4, <3>5 DEF PagerInv
  <2> QED
    BY <2>4, <2>5
<1>8. ASSUME NEW s \in Sessions, NEW e \in Entries, branch(s, e) PROVE PagerInv'
  <2>1. UNCHANGED <<usedSessions, pager, entries>> /\ DOMAIN sessions' = DOMAIN sessions
    BY <1>8 DEF branch
  <2> QED
    BY <1>3, <2>1 DEF EntriesOf
<1>9. ASSUME NEW s \in Sessions, SyncSession(s) PROVE PagerInv'
  <2>1. /\ s \in DOMAIN sessions /\ ReceivePage(s, 0, {}, FALSE)
        /\ UNCHANGED <<sessions, entries, usedSessions>>
    BY <1>9 DEF SyncSession
  <2>2. {e \in EntriesOf(s) : entries[e].seq <= 0} \subseteq {}
    BY DEF Inv, TypeOK, EntriesOf, EntryRow
  <2>3. /\ pager'.session = s /\ PagerComplete'
        /\ pager'.cursor = 0 \/ \E e \in EntriesOf(s) : entries[e].seq = pager'.cursor
    BY <2>1, <2>2, PageStep DEF PagerInv
  <2> QED
    BY <1>1, <2>1, <2>3 DEF PagerInv, CursorHasRow, EntriesOf
<1>10. CASE requestSync
  <2>1. CASE w \in DOMAIN sessions
    <3>1. /\ ReceivePage(w, pager.cursor, pager.seen, pager.gced)
          /\ UNCHANGED <<sessions, entries, usedSessions>>
      BY <1>10, <2>1 DEF requestSync
    <3>2. CASE pager.gced
      <4>1. pager'.gced = pager.gced /\ pager'.session = w
        BY <3>1 DEF ReceivePage
      <4> QED
        BY <1>1, <3>1, <3>2, <4>1 DEF PagerInv, PagerComplete
    <3>3. CASE ~pager.gced
      <4>1. {e \in EntriesOf(w) : entries[e].seq <= pager.cursor} \subseteq pager.seen
        BY <3>3 DEF PagerInv, PagerComplete
      <4>2. /\ pager'.session = w /\ PagerComplete'
            /\ \/ pager'.cursor = pager.cursor
               \/ \E e \in EntriesOf(w) : entries[e].seq = pager'.cursor
        BY <1>1, <2>1, <3>1, <4>1, PageStep DEF PagerInv
      <4> QED
        BY <1>1, <3>1, <3>3, <4>2 DEF PagerInv, CursorHasRow, EntriesOf
    <3> QED
      BY <3>2, <3>3
  <2>2. CASE w \notin DOMAIN sessions
    <3>1. /\ pager' = [pager EXCEPT !.more = FALSE]
          /\ UNCHANGED <<sessions, entries, usedSessions>>
      BY <1>10, <2>2 DEF requestSync
    <3>2. /\ pager'.session = pager.session /\ pager'.cursor = pager.cursor
          /\ pager'.seen = pager.seen /\ pager'.gced = pager.gced
      BY <3>1 DEF Inv, TypeOK
    <3> QED
      BY <1>1, <3>1, <3>2 DEF PagerInv, PagerComplete, CursorHasRow, EntriesOf
  <2> QED
    BY <2>1, <2>2
<1>11. CASE UNCHANGED vars
  BY <1>11 DEF vars, PagerInv, PagerComplete, CursorHasRow, EntriesOf
<1> QED
  BY <1>4, <1>5, <1>6, <1>7, <1>8, <1>9, <1>10, <1>11 DEF Next

\* A client that has paged up to its cursor has every row at or below it,
\* whatever was appended, branched and deleted between its requests.
THEOREM PagesAreComplete == Spec => []PagerComplete
<1>1. Init => PagerInv
  BY FS_EmptySet DEF Init, PagerInv, PagerComplete, CursorHasRow, EntriesOf
<1>2. PagerInv => PagerComplete
  BY DEF PagerInv
<1> QED
  BY <1>1, <1>2, PagerInvStep, Invariance, PTL DEF Spec
=============================================================================
