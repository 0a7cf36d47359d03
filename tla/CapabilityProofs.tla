-------------------------- MODULE CapabilityProofs --------------------------
(***************************************************************************)
(* What a turn uses: the capability lists of the runtime                   *)
(* (CapabilityLifecycle), the child agents it starts (Subagent), the       *)
(* configuration (Configuration), the sandbox its tools run in (Sandbox),  *)
(* the stream the model answers in (ModelStream) and the tasks it keeps    *)
(* (TaskTracker).  Each theorem is about one of them by itself, and about  *)
(* the property of it that Capabilities states.                            *)
(***************************************************************************)
EXTENDS Capabilities, ListsProofs, FiniteSetTheorems, TLAPS

-----------------------------------------------------------------------------
(***************************************************************************)
(* CapabilityLifecycle.  Lists are numbered from 1, so that 0 disposes of  *)
(* nothing; with that the two properties are inductive together.           *)
(***************************************************************************)
ListInv ==
  /\ L!ListsAreDisposed
  /\ caps \in Nat /\ gens \in Nat /\ disposers \in Nat /\ 0 \notin setUp

\* Each step of the shared capability list preserves ListInv.
LEMMA NextListInv == ASSUME ListInv, [L!Next]_(L!vars) PROVE ListInv'
<1> USE DEF ListInv, L!ListsAreDisposed, L!SetUpIsDisposed, L!CachesAgree, L!NoList
<1>1. ASSUME NEW s \in Sessions, L!ensureAgent(s) PROVE ListInv'
  BY <1>1 DEF L!ensureAgent, L!Install, L!getCachedCapabilities, L!cachedGen
<1>2. ASSUME NEW s \in Sessions, L!agentStarts(s) \/ L!startFails(s) PROVE ListInv'
  BY <1>2 DEF L!agentStarts, L!startFails
<1>3. ASSUME NEW s \in Sessions, L!agentEnd(s) PROVE ListInv'
  BY <1>3 DEF L!agentEnd, L!disposeCapabilities, L!cachedGen
<1>4. ASSUME NEW s \in Sessions, L!bundleHook(s) PROVE ListInv'
  BY <1>4 DEF L!bundleHook, L!Install, L!getCachedCapabilities, L!cachedGen
<1>5. CASE L!resolveForCall
  BY <1>5 DEF L!resolveForCall, L!getCachedCapabilities, L!cachedGen
<1>6. CASE L!handleTransportOpen
  BY <1>6 DEF L!handleTransportOpen
<1>7. CASE L!handleTransportClose
  BY <1>7 DEF L!handleTransportClose, L!disposeCapabilities
<1>8. CASE UNCHANGED L!vars
  BY <1>8 DEF L!vars
<1>9. QED
  BY <1>1, <1>2, <1>3, <1>4, <1>5, <1>6, <1>7, <1>8 DEF L!Next

\* For any sessions, of the agent's own loop and of bundles, whose runs and hook
\* calls overlap, and sockets that come and go: a capability list that was set
\* up is disposed or will be, and what is cached is of the cached list.
THEOREM ListsGo == L!Spec => []ListsAreDisposed
<1>1. L!Init => ListInv
  BY DEF L!Init, ListInv, L!ListsAreDisposed, L!SetUpIsDisposed, L!CachesAgree, L!NoList
<1>2. ListInv /\ [L!Next]_(L!vars) => ListInv'
  BY NextListInv
<1>3. ListInv => ListsAreDisposed
  BY DEF ListInv, ListsAreDisposed
<1>4. QED
  BY <1>1, <1>2, <1>3, PTL DEF L!Spec

-----------------------------------------------------------------------------
(***************************************************************************)
(* Subagent.  A child has one completion callback, and only once its run   *)
(* is over; a row is there only of a child that was started.  What is left *)
(* to show then is that whoever may have written a row is still at work.   *)
(***************************************************************************)
Before == {"get", "put", "then"}      \* places of a callback that did not report
Places == Before \cup {"prompting", "delete"}
Ends == {"completed", "failed", "canceled"}
Rows == Ends \cup {"none", "running"}
Actors == {S!Callback, S!Cancel} \cup {S!Hook(k) : k \in S!Connects}

\* One callback per child; the others have nothing to do after their write.
JobsKnown ==
  /\ jobs \subseteq [by : Actors, of : Children, as : Ends, at : Places]
  /\ \A j, k \in jobs : j.by = S!Callback /\ k.by = S!Callback /\ j.of = k.of => j = k
  /\ \A j \in jobs : j.by # S!Callback => j.at \in Before

Reported(c) ==
  reports[c] = 1 \/ \E j \in jobs : j.by = S!Callback /\ j.of = c /\ j.at \in Before
Cleared(c) == row[c] = "none" \/ \E j \in jobs : j.of = c

ChildTypes ==
  /\ row \in [Children -> Rows]
  /\ childRun \in [Children -> {"none", "called", "running", "over", "lost"}]
  /\ reports \in [Children -> {0, 1}]
  /\ sweep \in [S!Connects -> SUBSET Children]
  /\ connects \in Nat /\ evictions \in Nat

ChildInv ==
  /\ ChildTypes /\ JobsKnown
  /\ \A j \in jobs : childRun[j.of] \notin {"none", "called"}
  /\ \A j \in jobs : j.by = S!Callback =>
       childRun[j.of] = "over" /\ (j.at \in Before => reports[j.of] = 0)
  /\ \A c \in Children : childRun[c] # "over" => reports[c] = 0
  /\ \A c \in Children : childRun[c] \in {"none", "called"} =>
       row[c] = "none" /\ \A k \in S!Connects : c \notin sweep[k]
  /\ evictions = 0 => \A c \in Children : childRun[c] = "over" => Reported(c) /\ Cleared(c)

\* The callback, the cancel and the sweeps of a child are different actors.
LEMMA ActorsDiffer == S!Callback # S!Cancel /\ \A k : S!Callback # S!Hook(k)
BY DEF S!Callback, S!Cancel, S!Hook

\* A job that goes to its next place, with what it does to row and log.
LEMMA JobMoves ==
  ASSUME MaxConnects \in Nat, ChildInv, NEW j \in jobs, NEW p \in Places, S!At(j, p),
         UNCHANGED <<childRun, parentBusy, sweep, connects, evictions>>,
         j.by # S!Callback => p \in Before,
         \/ UNCHANGED <<row, reports>> /\ (p \in Before <=> j.at \in Before)
         \/ row' = [row EXCEPT ![j.of] = j.as] /\ reports' = reports /\ p \in Before /\ j.at \in Before
         \/ /\ row' = row /\ reports' = [reports EXCEPT ![j.of] = @ + 1]
            /\ p \notin Before /\ j.at \in Before /\ j.by = S!Callback
  PROVE  ChildInv'
<1>1. PICK k : /\ k \in [by : Actors, of : Children, as : Ends, at : Places]
               /\ k.by = j.by /\ k.of = j.of /\ k.at = p
               /\ jobs' = (jobs \ {j}) \cup {k}
  <2> DEFINE k == [j EXCEPT !.at = p]
  <2>1. j \in [by : Actors, of : Children, as : Ends, at : Places]
    BY DEF ChildInv, JobsKnown
  <2>2. k \in [by : Actors, of : Children, as : Ends, at : Places] /\ k.by = j.by /\ k.of = j.of /\ k.at = p
    BY <2>1
  <2>3. jobs' = (jobs \ {j}) \cup {k}
    BY DEF S!At
  <2>4. QED
    BY <2>2, <2>3
<1> USE DEF ChildInv, Before, Places
<1>2. ChildTypes'
  BY DEF ChildTypes, JobsKnown, Rows
<1>3. JobsKnown'
  BY <1>1 DEF JobsKnown
<1>4. /\ \A h \in jobs' : childRun'[h.of] \notin {"none", "called"}
      /\ \A h \in jobs' : h.by = S!Callback =>
           childRun'[h.of] = "over" /\ (h.at \in Before => reports'[h.of] = 0)
  <2> SUFFICES ASSUME NEW h \in jobs'
               PROVE  /\ childRun[h.of] \notin {"none", "called"}
                      /\ h.by = S!Callback =>
                           childRun[h.of] = "over" /\ (h.at \in Before => reports'[h.of] = 0)
    OBVIOUS
  <2>1. CASE h = k
    BY <1>1, <2>1 DEF JobsKnown, ChildTypes
  <2>2. CASE h \in jobs /\ h # j
    <3>1. h.by = S!Callback /\ j.by = S!Callback => h.of # j.of
      BY <2>2 DEF JobsKnown
    <3>2. h.of \in Children /\ (h.by = S!Callback => reports'[h.of] = reports[h.of] \/ j.by # S!Callback)
      BY <2>2, <3>1 DEF JobsKnown, ChildTypes
    <3>3. reports' = reports \/ j.by = S!Callback
      OBVIOUS
    <3>4. QED
      BY <2>2, <3>2, <3>3
  <2>3. QED
    BY <1>1, <2>1, <2>2
<1>5. /\ \A c \in Children : childRun'[c] # "over" => reports'[c] = 0
      /\ \A c \in Children : childRun'[c] \in {"none", "called"} =>
           row'[c] = "none" /\ \A h \in S!Connects : c \notin sweep'[h]
  BY <1>1 DEF JobsKnown, ChildTypes
<1>6. evictions' = 0 => \A c \in Children : childRun'[c] = "over" => Reported(c)' /\ Cleared(c)'
  <2> SUFFICES ASSUME evictions = 0, NEW c \in Children, childRun[c] = "over"
               PROVE  Reported(c)' /\ Cleared(c)'
    OBVIOUS
  <2>1. Cleared(c)'
    BY <1>1 DEF Cleared, JobsKnown, ChildTypes
  <2>2. Reported(c)'
    BY <1>1 DEF Reported, JobsKnown, ChildTypes
  <2>3. QED
    BY <2>1, <2>2
<1>7. QED
  BY <1>2, <1>3, <1>4, <1>5, <1>6

\* Each step of a child run preserves ChildInv.
LEMMA NextChildInv ==
  ASSUME MaxConnects \in Nat, ChildInv, [S!Next]_(S!vars)
  PROVE  ChildInv'
<1> USE DEF Before
<1>1. ASSUME NEW c \in Children, S!start(c) \/ S!call(c) PROVE ChildInv'
  BY <1>1 DEF S!start, S!call, ChildInv, ChildTypes, JobsKnown, Rows, Reported, Cleared
<1>2. ASSUME NEW c \in Children, S!childEnds(c) PROVE ChildInv'
  <2>1. CASE childRun[c] = "called" /\ reports' = [reports EXCEPT ![c] = @ + 1] /\ UNCHANGED jobs
    BY <1>2, <2>1 DEF S!childEnds, ChildInv, ChildTypes, JobsKnown, Rows, Reported, Cleared
  <2>2. ASSUME childRun[c] = "running", NEW s \in {"completed", "failed"}, reports' = reports,
               jobs' = jobs \cup {S!Job(S!Callback, c, s)}
        PROVE  ChildInv'
    <3> DEFINE k == S!Job(S!Callback, c, s)
    <3>1. /\ k \in [by : Actors, of : Children, as : Ends, at : Places]
          /\ k.by = S!Callback /\ k.of = c /\ k.at = "get"
      BY DEF S!Job, Actors, Ends, Places
    <3>2. jobs' = jobs \cup {k}
      BY <2>2
    <3> HIDE DEF k
    <3>3. \A j \in jobs : j.by = S!Callback => j.of # c
      BY <2>2 DEF ChildInv
    <3>4. JobsKnown'
      BY <3>1, <3>2, <3>3 DEF ChildInv, JobsKnown
    <3>5. ChildTypes' /\ childRun' = [childRun EXCEPT ![c] = "over"] /\ reports' = reports /\ evictions' = evictions
          /\ row' = row /\ sweep' = sweep
      BY <1>2, <2>2 DEF S!childEnds, ChildInv, ChildTypes
    <3>6. QED
      BY <2>2, <3>1, <3>2, <3>3, <3>4, <3>5 DEF ChildInv, ChildTypes, Reported, Cleared, JobsKnown
  <2>3. QED
    BY <1>2, <2>1, <2>2 DEF S!childEnds
\* A job of cancel_subagent or of the onConnect hook begins.
<1>3. ASSUME NEW c \in Children, NEW a \in Actors, a # S!Callback, NEW s \in Ends,
             jobs' = jobs \cup {S!Job(a, c, s)}, childRun[c] \notin {"none", "called"},
             UNCHANGED <<row, childRun, reports, connects, evictions>>,
             \A k \in S!Connects : sweep'[k] \subseteq sweep[k],
             sweep' \in [S!Connects -> SUBSET Children]
      PROVE  ChildInv'
  <2> DEFINE k == S!Job(a, c, s)
  <2>1. /\ k \in [by : Actors, of : Children, as : Ends, at : Places]
        /\ k.by = a /\ k.of = c /\ k.at = "get"
    BY DEF S!Job, Places
  <2>2. jobs' = jobs \cup {k}
    BY <1>3
  <2> HIDE DEF k
  <2>3. JobsKnown'
    BY <1>3, <2>1, <2>2 DEF ChildInv, JobsKnown
  <2>4. ChildTypes'
    BY <1>3 DEF ChildInv, ChildTypes
  <2>5. QED
    BY <1>3, <2>1, <2>2, <2>3, <2>4 DEF ChildInv, Reported, Cleared
<1>4. ASSUME NEW c \in Children, S!cancel(c) PROVE ChildInv'
  <2>1. S!Cancel \in Actors /\ S!Cancel # S!Callback /\ "canceled" \in Ends
    BY ActorsDiffer DEF Actors, Ends
  <2>2. childRun[c] \notin {"none", "called"}
    BY <1>4 DEF S!cancel, ChildInv
  <2>3. QED
    BY <1>3, <1>4, <2>1, <2>2 DEF S!cancel, ChildInv, ChildTypes
<1>5. ASSUME S!onConnect PROVE ChildInv'
  <2> DEFINE R == {c \in Children : row[c] = "running"}
  <2>1. sweep' = [sweep EXCEPT ![connects + 1] = R] /\ connects' = connects + 1
        /\ UNCHANGED <<row, childRun, parentBusy, jobs, reports, evictions>>
    BY <1>5 DEF S!onConnect
  <2>2. \A c \in R : childRun[c] \notin {"none", "called"}
    BY DEF ChildInv
  <2>3. R \subseteq Children
    OBVIOUS
  <2> HIDE DEF R
  <2>4. ChildTypes'
    <3>1. sweep' \in [S!Connects -> SUBSET Children]
      BY <2>1, <2>3 DEF ChildInv, ChildTypes
    <3>2. connects' \in Nat
      BY <2>1 DEF ChildInv, ChildTypes
    <3>3. QED
      BY <2>1, <3>1, <3>2 DEF ChildInv, ChildTypes
  <2>5. \A k \in S!Connects : sweep'[k] = sweep[k] \/ sweep'[k] = R
    BY <2>1 DEF ChildInv, ChildTypes
  <2>6. QED
    BY <2>1, <2>2, <2>4, <2>5 DEF ChildInv, JobsKnown, Reported, Cleared
<1>6. ASSUME NEW k \in S!Connects, S!sweepNext(k) PROVE ChildInv'
  <2>1. PICK c \in sweep[k] : /\ sweep' = [sweep EXCEPT ![k] = @ \ {c}]
                              /\ jobs' = jobs \cup {S!Job(S!Hook(k), c, "failed")}
    BY <1>6 DEF S!sweepNext
  <2>2. S!Hook(k) \in Actors /\ S!Hook(k) # S!Callback /\ "failed" \in Ends
    BY ActorsDiffer DEF Actors, Ends
  <2>3. c \in Children /\ childRun[c] \notin {"none", "called"}
    BY DEF ChildInv, ChildTypes
  <2>4. \A h \in S!Connects : sweep'[h] \subseteq sweep[h]
    BY <2>1 DEF ChildInv, ChildTypes
  <2>5. sweep' \in [S!Connects -> SUBSET Children]
    BY <2>1 DEF ChildInv, ChildTypes
  <2>6. QED
    BY <1>3, <1>6, <2>1, <2>2, <2>3, <2>4, <2>5 DEF S!sweepNext
<1>7. ASSUME NEW j \in jobs, S!updateGet(j) \/ S!updatePut(j) \/ S!report(j) \/ S!promptEnds(j)
      PROVE  ChildInv'
  <2>1. UNCHANGED <<childRun, sweep, connects, evictions, parentBusy>>
    BY <1>7 DEF S!updateGet, S!updatePut, S!report, S!promptEnds
  <2>2. j.at \in Before \/ j.by = S!Callback
    BY DEF ChildInv, JobsKnown
  <2>3. CASE S!updateGet(j)
    <3>1. PICK p \in {"then", "put"} : S!At(j, p)
      BY <2>3 DEF S!updateGet
    <3>2. QED
      BY <2>1, <2>3, <3>1, JobMoves DEF S!updateGet, Places
  <2>4. CASE S!updatePut(j)
    BY <2>1, <2>4, JobMoves DEF S!updatePut, Places
  <2>5. CASE S!report(j)
    <3>1. PICK p \in {"delete", "prompting"} : S!At(j, p)
      BY <2>5 DEF S!report
    <3>2. QED
      BY <2>1, <2>5, <3>1, JobMoves DEF S!report, Places
  <2>6. CASE S!promptEnds(j)
    BY <2>1, <2>2, <2>6, JobMoves DEF S!promptEnds, Places
  <2>7. QED
    BY <1>7, <2>3, <2>4, <2>5, <2>6
<1>8. ASSUME NEW j \in jobs, S!deleteRow(j) PROVE ChildInv'
  <2>1. /\ row' = [row EXCEPT ![j.of] = "none"] /\ jobs' = jobs \ {j}
        /\ UNCHANGED <<childRun, parentBusy, sweep, reports, connects, evictions>>
        /\ j.by = S!Callback => j.at \notin Before
    BY <1>8 DEF S!deleteRow
  <2>2. ChildTypes'
    BY <2>1 DEF ChildInv, ChildTypes, Rows, JobsKnown
  <2>3. JobsKnown'
    BY <2>1 DEF ChildInv, JobsKnown
  <2>4. \A c \in Children : (Reported(c) => Reported(c)') /\ (Cleared(c) => Cleared(c)')
    BY <2>1 DEF ChildInv, ChildTypes, Reported, Cleared
  <2>5. QED
    BY <2>1, <2>2, <2>3, <2>4 DEF ChildInv, ChildTypes
<1>9. ASSUME S!parentTurn \/ UNCHANGED S!vars PROVE ChildInv'
  BY <1>9 DEF S!parentTurn, S!vars, ChildInv, ChildTypes, JobsKnown, Reported, Cleared
<1>10. ASSUME S!evict PROVE ChildInv'
  BY <1>10 DEF S!evict, ChildInv, ChildTypes, JobsKnown
<1>11. QED
  BY <1>1, <1>2, <1>4, <1>5, <1>6, <1>7, <1>8, <1>9, <1>10 DEF S!Next

\* For any children and connections, whatever interleaving of completion callbacks,
\* cancels and onConnect sweeps: the end of a child is in its parent's log once,
\* and no row of it stays when nobody is at work on it any more.
THEOREM ChildrenAreReported ==
  ASSUME MaxConnects \in Nat PROVE S!Spec => []SubagentReports
<1>1. S!Init => ChildInv
  BY DEF S!Init, ChildInv, ChildTypes, JobsKnown, Rows
<1>2. ChildInv /\ [S!Next]_(S!vars) => ChildInv'
  BY NextChildInv
<1>3. ChildInv => SubagentReports
  BY DEF SubagentReports, ChildInv, ChildTypes, JobsKnown, S!SubagentReports, S!ReportedOnce, S!RowsGo, S!AtWork,
     S!Jobs, Reported, Cleared, Before
<1>4. QED
  BY <1>1, <1>2, <1>3, PTL DEF S!Spec

-----------------------------------------------------------------------------
(***************************************************************************)
(* Configuration.  A storage operation takes effect when it is issued and  *)
(* the snapshot is changed when it is answered, in the order of issue.  So *)
(* of the operations under way that will change a namespace of the         *)
(* snapshot, the last one has the stored value, and if there is none the   *)
(* snapshot has it.  That holds from the end of the first load on; until   *)
(* then nothing is written and a load has what it has read right.          *)
(***************************************************************************)
Loading == {"load", "orphans", "recorded"}
Waiting == Loading \cup {"put"}

Changes(r, n) ==
  \/ r.pc = "put" /\ r.n = n
  \/ r.pc = "load" /\ Namespaces[r.k] = n
NewValue(r) == IF r.pc = "put" THEN r.v ELSE G!Loads(r.read)

Settled(n) ==
  /\ \A i \in 1..Len(io) :
       Changes(call[io[i]], n) /\ (\A j \in 1..Len(io) : i < j => ~Changes(call[io[j]], n))
         => NewValue(call[io[i]]) = G!Loads(store[n])
  /\ (\A i \in 1..Len(io) : ~Changes(call[io[i]], n)) => snap[n] = G!Loads(store[n])

Stored == Values \cup {G!Unset, Bad}

LoadCall == [pc : Loading, k : 1..Len(Namespaces),
             then : [n : G!Names \cup {G!Unset}, v : Values], read : Stored]
CallShape(r) ==
  /\ r.pc \in Loading => r \in LoadCall
  /\ r.pc = "put" => r.n \in G!Names /\ r.v \in Values
  /\ r.pc = "hooks" => r \in [pc : {"hooks"}, c : {r.c}, v : {r.v}, n : {r.n}, prior : {r.prior}]
  /\ r.pc = "change" => r \in [pc : {"change"}, v : Values]

ConfigTypes ==
  /\ store \in [G!Names -> Stored] /\ snap \in [G!Names -> Values \cup {G!Unset}]
  /\ loaded \in BOOLEAN
  /\ DOMAIN call = Callers /\ \A p \in Callers : CallShape(call[p])

\* A caller waits for one operation at a time.
QueueInv ==
  /\ io \in Seq(Callers)
  /\ \A i, j \in 1..Len(io) : io[i] = io[j] => i = j
  /\ \A i \in 1..Len(io) : call[io[i]].pc \in Waiting

Untouched ==
  \A p \in Callers :
    /\ call[p].pc # "put"
    /\ call[p].pc \in Loading =>
         /\ call[p].read = store[Namespaces[call[p].k]]
         /\ \A m \in 1..Len(Namespaces) :
              m < call[p].k \/ (m = call[p].k /\ call[p].pc # "load") =>
                snap[Namespaces[m]] = G!Loads(store[Namespaces[m]])

ConfigInv ==
  /\ ConfigTypes /\ QueueInv
  /\ loaded => \A n \in G!Names : Settled(n)
  /\ ~loaded => Untouched

\* What a step of one caller may do for a namespace to stay settled.
Moves(p) == DOMAIN call' = Callers /\ \A q \in Callers \ {p} : call'[q] = call[q]
Issued(p, n) ==
  /\ Changes(call'[p], n) => NewValue(call'[p]) = G!Loads(store'[n])
  /\ ~Changes(call'[p], n) => store'[n] = store[n]
Applied(p, n) ==
  /\ Changes(call[p], n) => snap'[n] = NewValue(call[p])
  /\ ~Changes(call[p], n) => snap'[n] = snap[n]

\* A storage operation that waits again, for the next namespace, leaves the
\* queue in order and no namespace less settled.
LEMMA AgainKeeps ==
  ASSUME QueueInv, NEW p \in Callers, G!Turn(p), G!Again(p), Moves(p), call'[p].pc \in Waiting
  PROVE  QueueInv' /\ \A n : Settled(n) /\ Issued(p, n) /\ Applied(p, n) => Settled(n)'
<1>1. /\ io # <<>> /\ io \in Seq(Callers) /\ io' = Append(Tail(io), p) /\ io[1] = p
      /\ \A i, j \in 1..Len(io) : io[i] = io[j] => i = j
  BY DEF QueueInv, G!Turn, G!Again
<1>2. PICK m \in Nat : m = Len(io) /\ m > 0
  BY <1>1
<1>3. /\ Len(io') = m /\ io' \in Seq(Callers) /\ io'[m] = p
      /\ \A i \in 1..(m - 1) : io'[i] = io[i + 1] /\ io[i + 1] # p /\ io[i + 1] \in Callers
  BY <1>1, <1>2
<1>4. QueueInv'
  <2>1. \A i, j \in 1..m : io'[i] = io'[j] => i = j
    BY <1>1, <1>2, <1>3
  <2>2. \A i \in 1..m : call'[io'[i]].pc \in Waiting
    BY <1>1, <1>2, <1>3 DEF QueueInv, Moves
  <2>3. QED
    BY <1>2, <1>3, <2>1, <2>2 DEF QueueInv
<1>5. ASSUME NEW n, Settled(n), Issued(p, n), Applied(p, n) PROVE Settled(n)'
  <2>1. \A i \in 1..(m - 1) : /\ Changes(call'[io'[i]], n) <=> Changes(call[io[i + 1]], n)
                              /\ NewValue(call'[io'[i]]) = NewValue(call[io[i + 1]])
    BY <1>3 DEF Moves
  <2>2. ASSUME NEW i \in 1..m, Changes(call'[io'[i]], n),
               \A j \in 1..m : i < j => ~Changes(call'[io'[j]], n)
        PROVE  NewValue(call'[io'[i]]) = G!Loads(store'[n])
    <3>1. CASE i = m
      BY <1>3, <2>2, <3>1, <1>5 DEF Issued
    <3>2. CASE i < m
      <4>1. ~Changes(call'[p], n) /\ store'[n] = store[n]
        BY <1>2, <1>3, <1>5, <2>2, <3>2 DEF Issued
      <4>2. Changes(call[io[i + 1]], n) /\ \A j \in 1..m : i + 1 < j => ~Changes(call[io[j]], n)
        <5>1. i \in 1..(m - 1)
          BY <1>2, <3>2
        <5>2. Changes(call[io[i + 1]], n)
          BY <2>1, <2>2, <5>1
        <5>3. ASSUME NEW j \in 1..m, i + 1 < j PROVE ~Changes(call[io[j]], n)
          <6>1. j - 1 \in 1..(m - 1) /\ j - 1 \in 1..m /\ i < j - 1 /\ (j - 1) + 1 = j
            BY <1>2, <5>3
          <6>2. ~Changes(call'[io'[j - 1]], n)
            BY <2>2, <6>1
          <6>3. QED
            BY <2>1, <6>1, <6>2
        <5>4. QED
          BY <5>2, <5>3
      <4>3. NewValue(call[io[i + 1]]) = G!Loads(store[n])
        BY <1>2, <1>5, <3>2, <4>2 DEF Settled
      <4>4. QED
        BY <1>2, <2>1, <3>2, <4>1, <4>3
    <3>3. QED
      BY <1>2, <3>1, <3>2
  <2>3. ASSUME \A i \in 1..m : ~Changes(call'[io'[i]], n)
        PROVE  snap'[n] = G!Loads(store'[n])
    <3>1. store'[n] = store[n]
      BY <1>2, <1>3, <1>5, <2>3 DEF Issued
    <3>2. \A j \in 1..m : 1 < j => ~Changes(call[io[j]], n)
      <4>1. SUFFICES ASSUME NEW j \in 1..m, 1 < j PROVE ~Changes(call[io[j]], n)
        OBVIOUS
      <4>2. j - 1 \in 1..(m - 1) /\ j - 1 \in 1..m /\ (j - 1) + 1 = j
        BY <1>2, <4>1
      <4>3. ~Changes(call'[io'[j - 1]], n)
        BY <2>3, <4>2
      <4>4. QED
        BY <2>1, <4>2, <4>3
    <3>3. CASE Changes(call[p], n)
      BY <1>1, <1>2, <1>5, <3>1, <3>2, <3>3 DEF Settled, Applied
    <3>4. CASE ~Changes(call[p], n)
      <4>1. \A j \in 1..m : ~Changes(call[io[j]], n)
        BY <1>1, <1>2, <3>2, <3>4
      <4>2. QED
        BY <1>2, <1>5, <3>1, <3>4, <4>1 DEF Settled, Applied
    <3>5. QED
      BY <3>3, <3>4
  <2>4. QED
    BY <1>2, <1>3, <2>2, <2>3 DEF Settled
<1>6. QED
  BY <1>4, <1>5

\* An answered operation leaves the queue, and what it did is settled by its caller.
LEMMA AnsweredKeeps ==
  ASSUME QueueInv, NEW p \in Callers, G!Turn(p), G!Answered, Moves(p)
  PROVE  QueueInv' /\ \A n : Settled(n) /\ store'[n] = store[n] /\ Applied(p, n) => Settled(n)'
<1>1. /\ io # <<>> /\ io \in Seq(Callers) /\ io' = Tail(io) /\ io[1] = p
      /\ \A i, j \in 1..Len(io) : io[i] = io[j] => i = j
  BY DEF QueueInv, G!Turn, G!Answered
<1>2. PICK m \in Nat : m = Len(io) /\ m > 0
  BY <1>1
<1>3. /\ Len(io') = m - 1 /\ io' \in Seq(Callers)
      /\ \A i \in 1..(m - 1) : io'[i] = io[i + 1] /\ io[i + 1] # p /\ io[i + 1] \in Callers
  BY <1>1, <1>2
<1>4. QueueInv'
  <2>1. \A i, j \in 1..(m - 1) : io'[i] = io'[j] => i = j
    BY <1>1, <1>2, <1>3
  <2>2. \A i \in 1..(m - 1) : call'[io'[i]].pc \in Waiting
    BY <1>1, <1>2, <1>3 DEF QueueInv, Moves
  <2>3. QED
    BY <1>2, <1>3, <2>1, <2>2 DEF QueueInv
<1>5. ASSUME NEW n, Settled(n), store'[n] = store[n], Applied(p, n) PROVE Settled(n)'
  <2>1. \A i \in 1..(m - 1) : /\ Changes(call'[io'[i]], n) <=> Changes(call[io[i + 1]], n)
                              /\ NewValue(call'[io'[i]]) = NewValue(call[io[i + 1]])
    BY <1>3 DEF Moves
  <2>2. ASSUME NEW i \in 1..(m - 1), Changes(call'[io'[i]], n),
               \A j \in 1..(m - 1) : i < j => ~Changes(call'[io'[j]], n)
        PROVE  NewValue(call'[io'[i]]) = G!Loads(store'[n])
    <3>1. ASSUME NEW j \in 1..m, i + 1 < j PROVE ~Changes(call[io[j]], n)
      <4>1. j - 1 \in 1..(m - 1) /\ i < j - 1 /\ (j - 1) + 1 = j
        BY <1>2, <3>1
      <4>2. ~Changes(call'[io'[j - 1]], n)
        BY <2>2, <4>1
      <4>3. QED
        BY <2>1, <4>1, <4>2
    <3>2. Changes(call[io[i + 1]], n) /\ i + 1 \in 1..m
      BY <1>2, <2>1, <2>2
    <3>3. NewValue(call[io[i + 1]]) = G!Loads(store[n])
      BY <1>2, <1>5, <3>1, <3>2 DEF Settled
    <3>4. QED
      BY <1>5, <2>1, <3>3
  <2>3. ASSUME \A i \in 1..(m - 1) : ~Changes(call'[io'[i]], n)
        PROVE  snap'[n] = G!Loads(store'[n])
    <3>1. \A j \in 1..m : 1 < j => ~Changes(call[io[j]], n)
      <4>1. SUFFICES ASSUME NEW j \in 1..m, 1 < j PROVE ~Changes(call[io[j]], n)
        OBVIOUS
      <4>2. j - 1 \in 1..(m - 1) /\ (j - 1) + 1 = j
        BY <1>2, <4>1
      <4>3. QED
        BY <2>1, <2>3, <4>2
    <3>2. CASE Changes(call[p], n)
      BY <1>1, <1>2, <1>5, <3>1, <3>2 DEF Settled, Applied
    <3>3. CASE ~Changes(call[p], n)
      <4>1. \A j \in 1..m : ~Changes(call[io[j]], n)
        BY <1>1, <1>2, <3>1, <3>3
      <4>2. QED
        BY <1>2, <1>5, <3>3, <4>1 DEF Settled, Applied
    <3>4. QED
      BY <3>2, <3>3
  <2>4. QED
    BY <1>2, <1>3, <2>2, <2>3 DEF Settled
<1>6. QED
  BY <1>4, <1>5

\* A new operation joins the queue at the end; what it is to settle is its own.
LEMMA IssueKeeps ==
  ASSUME QueueInv, NEW p \in Callers, call[p].pc \notin Waiting, G!Issue(p), Moves(p),
         call'[p].pc \in Waiting
  PROVE  QueueInv' /\ \A n : Settled(n) /\ Issued(p, n) /\ snap'[n] = snap[n] => Settled(n)'
<1>1. /\ io \in Seq(Callers) /\ io' = Append(io, p)
      /\ \A i, j \in 1..Len(io) : io[i] = io[j] => i = j
      /\ \A i \in 1..Len(io) : io[i] # p
  BY DEF QueueInv, G!Issue
<1>2. PICK m \in Nat : m = Len(io)
  BY <1>1
<1>3. /\ Len(io') = m + 1 /\ io' \in Seq(Callers) /\ io'[m + 1] = p
      /\ \A i \in 1..m : io'[i] = io[i] /\ io[i] # p /\ io[i] \in Callers
  BY <1>1, <1>2
<1>4. QueueInv'
  <2>1. \A i, j \in 1..(m + 1) : io'[i] = io'[j] => i = j
    BY <1>1, <1>2, <1>3
  <2>2. \A i \in 1..(m + 1) : call'[io'[i]].pc \in Waiting
    BY <1>1, <1>2, <1>3 DEF QueueInv, Moves
  <2>3. QED
    BY <1>2, <1>3, <2>1, <2>2 DEF QueueInv
<1>5. ASSUME NEW n, Settled(n), Issued(p, n), snap'[n] = snap[n] PROVE Settled(n)'
  <2>1. \A i \in 1..m : call'[io'[i]] = call[io[i]] /\ i \in 1..(m + 1)
    BY <1>3 DEF Moves
  <2>2. ASSUME NEW i \in 1..(m + 1), Changes(call'[io'[i]], n),
               \A j \in 1..(m + 1) : i < j => ~Changes(call'[io'[j]], n)
        PROVE  NewValue(call'[io'[i]]) = G!Loads(store'[n])
    <3>1. CASE i = m + 1
      BY <1>3, <1>5, <2>2, <3>1 DEF Issued
    <3>2. CASE i \in 1..m
      <4>1. ~Changes(call'[p], n)
        BY <1>2, <1>3, <2>2, <3>2
      <4>2. Changes(call[io[i]], n) /\ \A j \in 1..m : i < j => ~Changes(call[io[j]], n)
        BY <2>1, <2>2, <3>2
      <4>3. NewValue(call[io[i]]) = G!Loads(store[n])
        BY <1>2, <1>5, <3>2, <4>2 DEF Settled
      <4>4. QED
        BY <1>5, <2>1, <3>2, <4>1, <4>3 DEF Issued
    <3>3. QED
      BY <1>2, <3>1, <3>2
  <2>3. ASSUME \A i \in 1..(m + 1) : ~Changes(call'[io'[i]], n)
        PROVE  snap'[n] = G!Loads(store'[n])
    <3>1. ~Changes(call'[p], n) /\ \A i \in 1..m : ~Changes(call[io[i]], n)
      BY <1>2, <1>3, <2>1, <2>3
    <3>2. QED
      BY <1>2, <1>5, <3>1 DEF Settled, Issued
  <2>4. QED
    BY <1>2, <1>3, <2>2, <2>3 DEF Settled
<1>6. QED
  BY <1>4, <1>5

\* A caller that neither issues nor is answered disturbs no settled namespace.
LEMMA OtherKeeps ==
  ASSUME QueueInv, NEW p \in Callers, call[p].pc \notin Waiting, Moves(p), UNCHANGED <<io, store, snap>>
  PROVE  QueueInv' /\ \A n : Settled(n) => Settled(n)'
<1>1. \A i \in 1..Len(io) : io[i] \in Callers /\ io[i] # p /\ call'[io[i]] = call[io[i]]
  BY DEF QueueInv, Moves
<1>2. QueueInv'
  BY <1>1 DEF QueueInv
<1>3. ASSUME NEW n, Settled(n) PROVE Settled(n)'
  BY <1>1, <1>3 DEF Settled
<1>4. QED
  BY <1>2, <1>3

\* The namespaces in the order of their loading: every name once at least.
LEMMA NamesOf ==
  ASSUME G!ConfigConstants
  PROVE  /\ Len(Namespaces) \in Nat /\ Len(Namespaces) >= 1
         /\ \A k \in 1..Len(Namespaces) : Namespaces[k] \in G!Names
         /\ \A n \in G!Names : \E k \in 1..Len(Namespaces) : Namespaces[k] = n
         /\ \A v \in Stored : G!Loads(v) \in Values
         /\ \A v \in Values : G!Loads(v) = v
<1>1. Namespaces \in Seq(G!Names) /\ Namespaces # <<>> /\ G!Default \in Values
  BY DEF G!ConfigConstants
<1>2. DOMAIN Namespaces = 1..Len(Namespaces)
  BY <1>1
<1> HIDE DEF G!Names
<1>3. Len(Namespaces) \in Nat /\ Len(Namespaces) >= 1
  BY <1>1
<1>4. /\ \A k \in 1..Len(Namespaces) : Namespaces[k] \in G!Names
      /\ \A n \in G!Names : \E k \in 1..Len(Namespaces) : Namespaces[k] = n
  BY <1>2 DEF G!Names
<1>5. \A v : G!Loads(v) \in Values /\ (v \in Values => G!Loads(v) = v)
  BY <1>1 DEF G!Loads, G!Valid
<1>6. QED
  BY <1>3, <1>4, <1>5

\* A load begins: it has what it has read right.
LEMMA StartLoadStep ==
  ASSUME G!ConfigConstants, ConfigInv, NEW p \in Callers, call[p] = G!Done,
         NEW then \in [n : G!Names \cup {G!Unset}, v : Values], G!StartLoad(p, then),
         UNCHANGED <<store, snap, loaded>>
  PROVE  ConfigInv'
<1> DEFINE r == [pc |-> "load", k |-> 1, then |-> then, read |-> store[Namespaces[1]]]
<1>1. call' = [call EXCEPT ![p] = r] /\ G!Issue(p)
  BY DEF G!StartLoad
<1>2. /\ r.pc = "load" /\ r.k = 1 /\ r.read = store[Namespaces[1]] /\ r \in LoadCall
      /\ Namespaces[1] \in G!Names
  BY NamesOf DEF LoadCall, Loading, ConfigInv, ConfigTypes
<1> HIDE DEF r
<1>3. Moves(p) /\ call'[p] = r
  BY <1>1 DEF Moves, ConfigInv, ConfigTypes
<1>4. CallShape(r)
  BY <1>2 DEF CallShape, Loading
<1>5. ConfigTypes'
  BY <1>3, <1>4 DEF ConfigInv, ConfigTypes, Moves
<1>6. \A n : Issued(p, n)
  BY <1>2, <1>3 DEF Issued, Changes, NewValue
<1>7. call[p].pc = "idle" /\ "idle" \notin Waiting /\ call'[p].pc \in Waiting
  BY <1>2, <1>3 DEF G!Done, Waiting, Loading
<1>8. QueueInv' /\ \A n : Settled(n) => Settled(n)'
  BY <1>1, <1>3, <1>6, <1>7, IssueKeeps DEF ConfigInv
<1>9. Untouched => Untouched'
  BY <1>2, <1>3 DEF Untouched, Moves
<1>10. QED
  BY <1>5, <1>8, <1>9 DEF ConfigInv

\* A write begins: it is the last one.
LEMMA PutStep ==
  ASSUME G!ConfigConstants, ConfigInv, NEW p \in Callers, call[p] = G!Done, loaded,
         NEW n \in G!Names, NEW v \in Values, G!Put(p, n, v), G!Issue(p), UNCHANGED <<snap, loaded>>
  PROVE  ConfigInv'
<1>1. PICK old : /\ call' = [call EXCEPT ![p] = [pc |-> "put", n |-> n, v |-> v, old |-> old]]
                 /\ store' = [store EXCEPT ![n] = v]
  BY DEF G!Put
<1> DEFINE r == [pc |-> "put", n |-> n, v |-> v, old |-> old]
<1>2. call' = [call EXCEPT ![p] = r] /\ r.pc = "put" /\ r.n = n /\ r.v = v
  BY <1>1
<1> HIDE DEF r
<1>3. Moves(p) /\ call'[p] = r
  BY <1>2 DEF Moves, ConfigInv, ConfigTypes
<1>4. ConfigTypes'
  BY <1>1, <1>2, <1>3 DEF ConfigInv, ConfigTypes, Moves, CallShape, Stored, Loading
<1>5. ASSUME NEW x \in G!Names PROVE Issued(p, x)
  <2>1. CASE x = n
    BY <1>1, <1>2, <1>3, <2>1, NamesOf DEF Issued, Changes, NewValue, ConfigInv, ConfigTypes
  <2>2. CASE x # n
    BY <1>1, <1>2, <1>3, <2>2 DEF Issued, Changes, ConfigInv, ConfigTypes
  <2>3. QED
    BY <2>1, <2>2
<1>6. call[p].pc = "idle" /\ "idle" \notin Waiting /\ call'[p].pc \in Waiting
  BY <1>2, <1>3 DEF G!Done, Waiting, Loading
<1>7. QueueInv' /\ \A x \in G!Names : Settled(x) => Settled(x)'
  BY <1>3, <1>5, <1>6, IssueKeeps DEF ConfigInv
<1>8. QED
  BY <1>4, <1>7 DEF ConfigInv

\* The end of the first load: all is settled before it.
LEMMA FirstLoadEnds ==
  ASSUME G!ConfigConstants, ConfigInv, ~loaded, NEW p \in Callers, G!Turn(p),
         call[p].pc \in {"load", "recorded"}, call[p].k = Len(Namespaces), NEW n \in G!Names
  PROVE  Settled(n)
<1>1. Untouched /\ io[1] = p /\ 1 \in 1..Len(io) /\ \A i \in 1..Len(io) : io[i] \in Callers
  BY DEF ConfigInv, QueueInv, G!Turn
<1>2. ASSUME NEW i \in 1..Len(io), Changes(call[io[i]], n)
      PROVE  NewValue(call[io[i]]) = G!Loads(store[n])
  BY <1>1, <1>2 DEF Untouched, Changes, NewValue, Loading
<1>3. ASSUME \A i \in 1..Len(io) : ~Changes(call[io[i]], n) PROVE snap[n] = G!Loads(store[n])
  <2>1. PICK m \in 1..Len(Namespaces) : Namespaces[m] = n
    BY NamesOf
  <2>2. m < call[p].k \/ m = call[p].k
    BY NamesOf
  <2>3. m = call[p].k => call[p].pc # "load"
    BY <1>1, <1>3, <2>1 DEF Changes
  <2>4. QED
    BY <1>1, <2>1, <2>2, <2>3 DEF Untouched, Loading
<1>4. QED
  BY <1>2, <1>3 DEF Settled

\* After an answer: the next namespace, or the end of the load.
LEMMA NextNamespaceStep ==
  ASSUME G!ConfigConstants, ConfigInv, NEW p \in Callers, G!Turn(p),
         call[p].pc \in {"load", "recorded"}, NEW s, G!NextNamespace(p, s),
         snap' = IF call[p].pc = "load"
                   THEN [snap EXCEPT ![Namespaces[call[p].k]] = G!Loads(call[p].read)] ELSE snap
  PROVE  ConfigInv'
<1> DEFINE c == call[p]
           here == Namespaces[c.k]
<1>1. /\ c \in LoadCall /\ c.k \in 1..Len(Namespaces) /\ here \in G!Names
      /\ c.then \in [n : G!Names \cup {G!Unset}, v : Values] /\ c.read \in Stored
      /\ c.pc \in {"load", "recorded"}
  BY NamesOf DEF ConfigInv, ConfigTypes, CallShape, Loading, LoadCall
<1>2. /\ snap' \in [G!Names -> Values \cup {G!Unset}]
      /\ \A n \in G!Names : Applied(p, n)
      /\ c.pc = "load" => snap'[here] = G!Loads(c.read)
      /\ \A n \in G!Names : snap'[n] = snap[n] \/ (n = here /\ c.pc = "load")
  BY <1>1, NamesOf DEF Applied, Changes, NewValue, ConfigInv, ConfigTypes
<1>3. \A r : call' = [call EXCEPT ![p] = r] => Moves(p) /\ call'[p] = r
  BY DEF Moves, ConfigInv, ConfigTypes
<1>4. CASE c.k < Len(Namespaces)
  <2> DEFINE next == Namespaces[c.k + 1]
             r == [c EXCEPT !.pc = "load", !.k = c.k + 1, !.read = store[next]]
  <2>1. call' = [call EXCEPT ![p] = r] /\ G!Again(p) /\ loaded' = loaded /\ store' = store
    BY <1>4 DEF G!NextNamespace
  <2>2. c.k + 1 \in 1..Len(Namespaces) /\ next \in G!Names /\ store[next] \in Stored
    BY <1>1, <1>4, NamesOf DEF ConfigInv, ConfigTypes
  <2>3. r \in LoadCall /\ r.pc = "load" /\ r.k = c.k + 1 /\ r.read = store[next]
    <3>1. c \in [pc : Loading, k : 1..Len(Namespaces),
                 then : [n : G!Names \cup {G!Unset}, v : Values], read : Stored]
      BY <1>1 DEF LoadCall
    <3> DEFINE r1 == [c EXCEPT !.pc = "load"]
               r2 == [r1 EXCEPT !.k = c.k + 1]
               r3 == [r2 EXCEPT !.read = store[next]]
    <3>2. r1 \in LoadCall /\ r1.pc = "load"
      BY <3>1 DEF LoadCall, Loading
    <3>3. r = r3
      OBVIOUS
    <3> HIDE DEF r1, c, next, r
    <3>4. r2 \in LoadCall /\ r2.pc = "load" /\ r2.k = c.k + 1
      BY <2>2, <3>2 DEF LoadCall
    <3> HIDE DEF r2
    <3>5. r3 \in LoadCall /\ r3.pc = "load" /\ r3.k = c.k + 1 /\ r3.read = store[next]
      BY <2>2, <3>4 DEF LoadCall
    <3>6. QED
      BY <3>3, <3>5
  <2> HIDE DEF r
  <2>4. Moves(p) /\ call'[p] = r
    BY <1>3, <2>1
  <2>5. ConfigTypes'
    BY <1>2, <2>1, <2>3, <2>4 DEF ConfigInv, ConfigTypes, Moves, CallShape, Loading
  <2>6. \A n : Issued(p, n)
    BY <2>1, <2>3, <2>4 DEF Issued, Changes, NewValue
  <2>7. QueueInv' /\ \A n \in G!Names : Settled(n) => Settled(n)'
    <3>1. call'[p].pc \in Waiting /\ QueueInv
      BY <2>3, <2>4 DEF Waiting, Loading, ConfigInv
    <3>2. QED
      BY <1>2, <2>1, <2>4, <2>6, <3>1, AgainKeeps
  <2>8. ASSUME ~loaded PROVE Untouched'
    <3>1. Untouched
      BY <2>8 DEF ConfigInv
    <3>2. c.read = store[here]
      BY <1>1, <3>1 DEF Untouched, Loading
    <3>3. \A m \in 1..Len(Namespaces) :
            snap[Namespaces[m]] = G!Loads(store[Namespaces[m]]) =>
              snap'[Namespaces[m]] = G!Loads(store[Namespaces[m]])
      BY <1>1, <1>2, <3>2, NamesOf
    <3>4. ASSUME NEW m \in 1..Len(Namespaces), m < c.k + 1
          PROVE  snap'[Namespaces[m]] = G!Loads(store[Namespaces[m]])
      <4>1. m < c.k \/ m = c.k
        BY <1>1, <3>4, NamesOf
      <4>2. CASE m = c.k /\ c.pc = "load"
        BY <1>2, <3>2, <4>2
      <4>3. CASE m < c.k \/ (m = c.k /\ c.pc # "load")
        <5>1. snap[Namespaces[m]] = G!Loads(store[Namespaces[m]])
          BY <1>1, <3>1, <4>3 DEF Untouched, Loading
        <5>2. QED
          BY <3>3, <5>1
      <4>4. QED
        BY <4>1, <4>2, <4>3
    <3>5. QED
      BY <1>1, <2>1, <2>3, <2>4, <3>1, <3>3, <3>4 DEF Untouched, Moves
  <2>9. QED
    BY <2>1, <2>5, <2>7, <2>8 DEF ConfigInv
<1>5. CASE ~(c.k < Len(Namespaces))
  <2>1. \A n \in G!Names : Settled(n)
    <3>1. c.k = Len(Namespaces)
      BY <1>1, <1>5, NamesOf
    <3>2. QED
      BY <1>1, <3>1, FirstLoadEnds DEF ConfigInv, ConfigTypes
  <2>2. loaded' = TRUE
    BY <1>5 DEF G!NextNamespace
  <2>3. CASE c.then.n = G!Unset
    <3>1. call' = [call EXCEPT ![p] = G!Done] /\ G!Answered /\ store' = store
      BY <1>5, <2>3 DEF G!NextNamespace
    <3>2. Moves(p) /\ call'[p].pc = "idle"
      BY <1>3, <3>1 DEF G!Done
    <3>3. ConfigTypes'
      BY <1>2, <2>2, <3>1, <3>2 DEF ConfigInv, ConfigTypes, Moves, CallShape, Loading
    <3>4. QueueInv' /\ \A n \in G!Names : Settled(n)'
      BY <1>2, <2>1, <3>1, <3>2, AnsweredKeeps DEF ConfigInv
    <3>5. QED
      BY <2>2, <3>3, <3>4 DEF ConfigInv
  <2>4. CASE c.then.n # G!Unset
    <3> DEFINE r == [pc |-> "put", n |-> c.then.n, v |-> c.then.v, old |-> s[c.then.n]]
    <3>1. /\ call' = [call EXCEPT ![p] = r] /\ G!Again(p)
          /\ store' = [store EXCEPT ![c.then.n] = c.then.v]
      BY <1>5, <2>4 DEF G!NextNamespace
    <3>2. r.pc = "put" /\ r.n = c.then.n /\ r.v = c.then.v /\ r.n \in G!Names /\ r.v \in Values
      BY <1>1, <2>4
    <3> HIDE DEF r
    <3>3. Moves(p) /\ call'[p] = r
      BY <1>3, <3>1
    <3>4. ConfigTypes'
      BY <1>2, <2>2, <3>1, <3>2, <3>3 DEF ConfigInv, ConfigTypes, Moves, CallShape, Stored, Loading
    <3>5. ASSUME NEW x \in G!Names PROVE Issued(p, x)
      <4>1. CASE x = r.n
        BY <3>1, <3>2, <3>3, <4>1, NamesOf DEF Issued, Changes, NewValue, ConfigInv, ConfigTypes
      <4>2. CASE x # r.n
        BY <3>1, <3>2, <3>3, <4>2 DEF Issued, Changes, ConfigInv, ConfigTypes
      <4>3. QED
        BY <4>1, <4>2
    <3>6. call'[p].pc \in Waiting
      BY <3>2, <3>3 DEF Waiting
    <3>7. QueueInv' /\ \A n \in G!Names : Settled(n)'
      BY <1>2, <2>1, <3>1, <3>3, <3>5, <3>6, AgainKeeps DEF ConfigInv
    <3>8. QED
      BY <2>2, <3>4, <3>7 DEF ConfigInv
  <2>5. QED
    BY <2>3, <2>4
<1>6. QED
  BY <1>4, <1>5

\* The answers that do not go on to the next namespace.
LEMMA AnswerStep ==
  ASSUME G!ConfigConstants, ConfigInv, NEW p \in Callers,
         G!loadAnswered(p) \/ G!orphansAnswered(p) \/ G!orphanRecorded(p) \/ G!putAnswered(p)
  PROVE  ConfigInv'
<1>1. G!Turn(p) /\ DOMAIN call = Callers /\ CallShape(call[p]) /\ QueueInv
  BY DEF G!loadAnswered, G!orphansAnswered, G!orphanRecorded, G!putAnswered, ConfigInv, ConfigTypes
\* A stored value that is refused, and its record: the namespace was loaded.
<1>2. ASSUME call[p].pc \in {"load", "orphans"}, G!Again(p), UNCHANGED <<store, loaded>>,
             NEW q \in {"orphans", "recorded"}, call' = [call EXCEPT ![p].pc = q],
             snap' = IF call[p].pc = "load"
                       THEN [snap EXCEPT ![Namespaces[call[p].k]] = G!Loads(call[p].read)] ELSE snap
      PROVE  ConfigInv'
  <2> DEFINE c == call[p]
             here == Namespaces[c.k]
             r == [c EXCEPT !.pc = q]
  <2>1. c \in LoadCall /\ c.k \in 1..Len(Namespaces) /\ here \in G!Names /\ c.read \in Stored
    BY <1>1, <1>2, NamesOf DEF CallShape, Loading, LoadCall
  <2>2. r \in LoadCall /\ r.pc = q /\ r.k = c.k /\ r.read = c.read
    BY <2>1 DEF LoadCall, Loading
  <2>3. call' = [call EXCEPT ![p] = r]
    BY <1>2
  <2> HIDE DEF r
  <2>4. Moves(p) /\ call'[p] = r
    BY <1>1, <2>3 DEF Moves
  <2>5. /\ snap' \in [G!Names -> Values \cup {G!Unset}]
        /\ \A n \in G!Names : Applied(p, n)
        /\ c.pc = "load" => snap'[here] = G!Loads(c.read)
        /\ \A n \in G!Names : snap'[n] = snap[n] \/ (n = here /\ c.pc = "load")
    BY <1>2, <2>1, NamesOf DEF Applied, Changes, NewValue, ConfigInv, ConfigTypes
  <2>6. ConfigTypes'
    BY <1>1, <1>2, <2>2, <2>4, <2>5 DEF ConfigInv, ConfigTypes, Moves, CallShape, Loading
  <2>7. (\A n : Issued(p, n)) /\ call'[p].pc \in Waiting
    BY <1>2, <2>2, <2>4 DEF Issued, Changes, Waiting, Loading
  <2>8. QueueInv' /\ \A n \in G!Names : Settled(n) => Settled(n)'
    BY <1>1, <1>2, <2>4, <2>5, <2>7, AgainKeeps
  <2>9. ASSUME ~loaded PROVE Untouched'
    <3>1. Untouched
      BY <2>9 DEF ConfigInv
    <3>2. c.read = store[here]
      BY <1>2, <2>1, <3>1 DEF Untouched, Loading
    <3>3. \A m \in 1..Len(Namespaces) :
            snap[Namespaces[m]] = G!Loads(store[Namespaces[m]]) =>
              snap'[Namespaces[m]] = G!Loads(store[Namespaces[m]])
      BY <2>1, <2>5, <3>2, NamesOf
    <3>4. snap'[here] = G!Loads(store[here])
      BY <1>2, <2>1, <2>5, <3>1, <3>2, <3>3 DEF Untouched, Loading
    <3>5. ASSUME NEW m \in 1..Len(Namespaces), m < c.k \/ m = c.k
          PROVE  snap'[Namespaces[m]] = G!Loads(store[Namespaces[m]])
      BY <1>2, <2>1, <3>1, <3>3, <3>4, <3>5 DEF Untouched, Loading
    <3>6. QED
      BY <1>2, <2>1, <2>2, <2>4, <3>1, <3>2, <3>3, <3>5 DEF Untouched, Moves
  <2>10. QED
    BY <1>2, <2>6, <2>8, <2>9 DEF ConfigInv
<1>3. CASE G!loadAnswered(p)
  <2> DEFINE n == Namespaces[call[p].k]
             v == call[p].read
  <2>1. call[p].pc = "load" /\ snap' = [snap EXCEPT ![n] = G!Loads(v)]
    BY <1>3 DEF G!loadAnswered
  <2>2. CASE v = G!Unset \/ G!Valid(v)
    BY <1>1, <1>3, <2>1, <2>2, NextNamespaceStep DEF G!loadAnswered
  <2>3. CASE ~(v = G!Unset \/ G!Valid(v))
    BY <1>2, <1>3, <2>1, <2>3 DEF G!loadAnswered
  <2>4. QED
    BY <2>2, <2>3
<1>4. CASE G!orphansAnswered(p)
  BY <1>2, <1>4 DEF G!orphansAnswered
<1>5. CASE G!orphanRecorded(p)
  <2>1. call[p].pc = "recorded" /\ G!NextNamespace(p, snap) /\ snap' = snap
    BY <1>5 DEF G!orphanRecorded
  <2>2. QED
    BY <1>1, <2>1, NextNamespaceStep
<1>6. CASE G!putAnswered(p)
  <2>1. /\ call[p].pc = "put" /\ G!Answered /\ UNCHANGED <<store, loaded>>
        /\ snap' = [snap EXCEPT ![call[p].n] = call[p].v]
        /\ call[p].n \in G!Names /\ call[p].v \in Values
    BY <1>1, <1>6 DEF G!putAnswered, CallShape
  <2> DEFINE r == [pc |-> "hooks", c |-> 1, v |-> call[p].v, n |-> call[p].n,
                   prior |-> G!Prior(call[p].n, call[p].old)]
  <2>2. call' = [call EXCEPT ![p] = r]
    BY <1>6 DEF G!putAnswered
  <2>3. r.pc = "hooks" /\ CallShape(r)
    BY DEF CallShape, Loading
  <2> HIDE DEF r
  <2>4. Moves(p) /\ call'[p] = r
    BY <1>1, <2>2 DEF Moves
  <2>5. ConfigTypes'
    BY <2>1, <2>3, <2>4 DEF ConfigInv, ConfigTypes, Moves
  <2>6. \A n \in G!Names : Applied(p, n)
    BY <2>1 DEF Applied, Changes, NewValue, ConfigInv, ConfigTypes
  <2>7. QueueInv' /\ \A n \in G!Names : Settled(n) => Settled(n)'
    BY <1>1, <2>1, <2>4, <2>6, AnsweredKeeps
  <2>8. loaded
    BY <2>1 DEF ConfigInv, Untouched
  <2>9. QED
    BY <2>1, <2>5, <2>7, <2>8 DEF ConfigInv
<1>7. QED
  BY <1>3, <1>4, <1>5, <1>6

\* What is neither a storage operation nor its answer.
Resting == {"idle", "hooks", "change", "store"}

\* A step of one caller between operations that touches no shared state.
LEMMA CallerStep ==
  ASSUME G!ConfigConstants, ConfigInv, NEW p \in Callers,
         call[p].pc \in Resting, NEW r, r.pc \in Resting, CallShape(r),
         call' = [call EXCEPT ![p] = r], UNCHANGED <<store, snap, loaded, io>>
  PROVE  ConfigInv'
<1>1. Moves(p) /\ call'[p] = r /\ call[p].pc \notin Waiting
  BY DEF Moves, ConfigInv, ConfigTypes, Waiting, Loading, Resting
<1>2. ConfigTypes'
  BY <1>1 DEF ConfigInv, ConfigTypes, Moves
<1>3. QueueInv' /\ \A n : Settled(n) => Settled(n)'
  BY <1>1, OtherKeeps DEF ConfigInv
<1>4. Untouched => Untouched'
  BY <1>1 DEF Untouched, Moves, Loading, Resting
<1>5. QED
  BY <1>2, <1>3, <1>4 DEF ConfigInv

\* Each step of a load, a set or a client's write preserves ConfigInv.
LEMMA NextConfigInv ==
  ASSUME G!ConfigConstants, ConfigInv, [G!Next]_(G!vars)
  PROVE  ConfigInv'
<1>1. ASSUME NEW p \in Callers, G!load(p) PROVE ConfigInv'
  <2>1. [n |-> G!Unset, v |-> G!Default] \in [n : G!Names \cup {G!Unset}, v : Values]
    BY DEF G!ConfigConstants
  <2>2. QED
    BY <1>1, <2>1, StartLoadStep DEF G!load
<1>2. ASSUME NEW p \in Callers, NEW n \in G!Names, NEW v \in Values,
             G!applyAgentConfigSet(p, n, v) \/ G!configSet(p, n, v)
      PROVE  ConfigInv'
  <2>1. CASE loaded
    BY <1>2, <2>1, PutStep DEF G!applyAgentConfigSet, G!configSet
  <2>2. CASE ~loaded
    <3>1. /\ call[p] = G!Done /\ G!StartLoad(p, [n |-> n, v |-> v])
          /\ UNCHANGED <<store, snap, loaded>>
      BY <1>2, <2>2 DEF G!applyAgentConfigSet, G!configSet
    <3>2. [n |-> n, v |-> v] \in [n : G!Names \cup {G!Unset}, v : Values]
      OBVIOUS
    <3>3. QED
      BY <3>1, <3>2, StartLoadStep
  <2>3. QED
    BY <2>1, <2>2
<1>3. G!Done.pc = "idle" /\ CallShape(G!Done)
  BY DEF G!Done, CallShape, Loading
<1>4. ASSUME NEW p \in Callers, G!handleAgentConfigSet(p) PROVE ConfigInv'
  <2> DEFINE r == IF call[p].c = Len(Mapped) THEN G!Done ELSE [call[p] EXCEPT !.c = call[p].c + 1]
  <2>1. /\ call[p].pc = "hooks" /\ call' = [call EXCEPT ![p] = r]
        /\ UNCHANGED <<store, snap, loaded, io>>
    BY <1>4 DEF G!handleAgentConfigSet
  <2>2. r.pc \in {"idle", "hooks"} /\ CallShape(r)
    <3>1. CASE call[p].c = Len(Mapped)
      BY <1>3, <3>1
    <3>2. CASE call[p].c # Len(Mapped)
      <4> DEFINE h == [call[p] EXCEPT !.c = call[p].c + 1]
      <4>1. call[p] \in [pc : {"hooks"}, c : {call[p].c}, v : {call[p].v}, n : {call[p].n},
                         prior : {call[p].prior}]
        BY <2>1 DEF ConfigInv, ConfigTypes, CallShape
      <4>2. /\ h \in [pc : {"hooks"}, c : {call[p].c + 1}, v : {call[p].v}, n : {call[p].n},
                      prior : {call[p].prior}]
            /\ h.pc = "hooks" /\ h.c = call[p].c + 1 /\ h.v = call[p].v /\ h.n = call[p].n
            /\ h.prior = call[p].prior
        BY <4>1
      <4>3. r = h
        BY <3>2
      <4> HIDE DEF h, r
      <4>4. CallShape(h)
        BY <4>2 DEF CallShape, Loading
      <4>5. QED
        BY <4>2, <4>3, <4>4
    <3>3. QED
      BY <3>1, <3>2
  <2> HIDE DEF r
  <2>3. call[p].pc \in Resting /\ r.pc \in Resting
    BY <2>1, <2>2 DEF Resting
  <2>4. QED
    BY <2>1, <2>2, <2>3, CallerStep, Zenon
<1>5. ASSUME NEW p \in Callers, NEW v \in Values, G!configSetCapability(p, v) PROVE ConfigInv'
  <2> DEFINE r == [pc |-> "change", v |-> v]
  <2>1. r.pc = "change" /\ CallShape(r)
    BY DEF CallShape, Loading
  <2>2. call' = [call EXCEPT ![p] = r] /\ UNCHANGED <<store, snap, loaded, io>> /\ call[p].pc = "idle"
    BY <1>3, <1>5 DEF G!configSetCapability
  <2> HIDE DEF r
  <2>3. call[p].pc \in Resting /\ r.pc \in Resting
    BY <2>1, <2>2 DEF Resting
  <2>4. QED
    BY <2>1, <2>2, <2>3, CallerStep, Zenon
<1>6. ASSUME NEW p \in Callers, G!onConfigChange(p) \/ G!capabilityStored(p) PROVE ConfigInv'
  <2>1. CASE call' = [call EXCEPT ![p] = G!Done]
    <3>1. call[p].pc \in {"change", "store"} /\ UNCHANGED <<store, snap, loaded, io>>
      BY <1>6 DEF G!onConfigChange, G!capabilityStored
    <3>2. call[p].pc \in Resting /\ G!Done.pc \in Resting
      BY <1>3, <3>1 DEF Resting
    <3>3. QED
      BY <1>3, <2>1, <3>1, <3>2, CallerStep, Zenon
  <2>2. CASE call[p].pc = "change" /\ call' = [call EXCEPT ![p].pc = "store"]
    <3> DEFINE r == [call[p] EXCEPT !.pc = "store"]
    <3>1. call[p] \in [pc : {"change"}, v : Values]
      BY <2>2 DEF ConfigInv, ConfigTypes, CallShape
    <3>2. r.pc = "store" /\ CallShape(r)
      BY <3>1 DEF CallShape, Loading
    <3>3. call' = [call EXCEPT ![p] = r] /\ UNCHANGED <<store, snap, loaded, io>>
      BY <1>6, <2>2 DEF G!onConfigChange, G!capabilityStored
    <3> HIDE DEF r
    <3>4. call[p].pc \in Resting /\ r.pc \in Resting
      BY <2>2, <3>2 DEF Resting
    <3>5. QED
      BY <3>2, <3>3, <3>4, CallerStep, Zenon
  <2>3. QED
    BY <1>6, <2>1, <2>2 DEF G!onConfigChange, G!capabilityStored
<1>7. ASSUME G!evict PROVE ConfigInv'
  <2>1. /\ store' = store /\ snap' = [n \in G!Names |-> G!Unset] /\ loaded' = FALSE /\ io' = <<>>
        /\ call' = [q \in Callers |-> G!Done]
    BY <1>7 DEF G!evict
  <2>2. \A q \in Callers : call'[q].pc = "idle" /\ CallShape(call'[q])
    BY <1>3, <2>1
  <2>3. QueueInv'
    BY <2>1 DEF QueueInv
  <2>4. ConfigTypes'
    BY <2>1, <2>2 DEF ConfigInv, ConfigTypes
  <2>5. Untouched'
    BY <2>2 DEF Untouched, Loading
  <2>6. QED
    BY <2>1, <2>3, <2>4, <2>5 DEF ConfigInv
<1>8. CASE UNCHANGED G!vars
  BY <1>8 DEF G!vars, ConfigInv, ConfigTypes, QueueInv, Settled, Untouched
<1>9. QED
  BY <1>1, <1>2, <1>4, <1>5, <1>6, <1>7, <1>8, AnswerStep DEF G!Next

\* For any callers, namespaces and values, with loads and writes that overlap and
\* evictions: when all callers are done, the snapshot is what a restart would load.
THEOREM SnapshotAgrees ==
  ASSUME G!ConfigConstants PROVE G!Spec => []SnapshotIsStored
<1>1. G!Init => ConfigInv
  <2> SUFFICES ASSUME G!Init PROVE ConfigInv
    OBVIOUS
  <2>1. \A p \in Callers : call[p].pc = "idle" /\ CallShape(call[p])
    BY DEF G!Init, G!Done, CallShape, Loading
  <2>2. QueueInv
    BY DEF G!Init, QueueInv
  <2>3. ConfigTypes
    BY <2>1 DEF G!Init, ConfigTypes, Stored
  <2>4. Untouched
    BY <2>1 DEF Untouched, Loading
  <2>5. QED
    BY <2>2, <2>3, <2>4 DEF G!Init, ConfigInv
<1>2. ConfigInv /\ [G!Next]_(G!vars) => ConfigInv'
  BY NextConfigInv
<1>3. ConfigInv => SnapshotIsStored
  <2> SUFFICES ASSUME ConfigInv, loaded, \A p \in Callers : call[p] = G!Done, NEW n \in G!Names
               PROVE  snap[n] = G!Loads(store[n])
    BY DEF SnapshotIsStored, G!SnapshotIsStored, G!Quiet
  <2>1. \A i \in 1..Len(io) : ~Changes(call[io[i]], n)
    BY DEF ConfigInv, QueueInv, Changes, G!Done
  <2>2. QED
    BY <2>1 DEF ConfigInv, Settled
<1>4. QED
  BY <1>1, <1>2, <1>3, PTL DEF G!Spec

-----------------------------------------------------------------------------
(***************************************************************************)
(* Sandbox.  There is one teardown promise.  As long as no stop comes      *)
(* during another one, it is the promise of the stop that is in flight, if *)
(* there is one; so a call that asks for the promise takes that of every   *)
(* stop in flight, and has seen them all arrive when it starts the         *)
(* container.                                                              *)
(***************************************************************************)
Promised(r) == r.saw \subseteq r.pending /\ (r.pc = "start" => r.saw = {})

StopIsPromised ==
  /\ DOMAIN toolCall = B!Calls
  /\ stopping = teardown
  /\ \A c \in B!Calls : Promised(toolCall[c])

\* A call that is at a place of its own waits for nothing, and one that asks for
\* the promise waits for all it sees.
LEMMA CallsPromised ==
  /\ \A tool, pc : Promised(B!Entry(tool, pc))
  /\ Promised(B!No)
  /\ stopping = teardown => \A tool : Promised(B!Asked(tool))
BY DEF Promised, B!No, B!Entry, B!Asked, B!ToolCall

\* Each step of the sandbox preserves StopIsPromised while stops are apart.
LEMMA StopIsPromisedStep ==
  ASSUME StopIsPromised, [B!Next]_(B!vars), B!StopsApart'
  PROVE  StopIsPromised'
<1> USE DEF StopIsPromised
<1> DEFINE Same == UNCHANGED <<stopping, teardown>>
<1>1. ASSUME UNCHANGED <<stopping, teardown, toolCall>> PROVE StopIsPromised'
  BY <1>1
<1>2. ASSUME NEW c \in B!Calls, NEW r, toolCall' = [toolCall EXCEPT ![c] = r], Promised(r), Same
      PROVE  StopIsPromised'
  BY <1>2
<1> HIDE DEF Same
<1>3. ASSUME NEW c \in B!Calls, B!Return(c), Same PROVE StopIsPromised'
  BY <1>2, <1>3, CallsPromised DEF B!Return
<1>4. ASSUME NEW c \in B!Calls, NEW pc, B!Goto(c, pc), Same PROVE StopIsPromised'
  BY <1>2, <1>4, CallsPromised DEF B!Goto
<1>5. ASSUME NEW c \in B!Calls, B!Ask(c), Same PROVE StopIsPromised'
  BY <1>2, <1>5, CallsPromised DEF B!Ask
<1>6. ASSUME NEW s \in Elevators, B!turnStarts(s) \/ B!turnEnds(s) \/ B!onConnect(s)
      PROVE  StopIsPromised'
  BY <1>1, <1>6 DEF B!turnStarts, B!turnEnds, B!onConnect
<1>7. ASSUME NEW s \in Elevators, NEW n, NEW tools, B!message(s, n, tools) PROVE StopIsPromised'
  <2>1. Same
    BY <1>7 DEF B!message, Same
  <2>2. \A tool : Promised(B!Begun(s, tool))
    BY CallsPromised DEF B!Begun
  <2>3. toolCall' = [c \in B!Calls |->
           IF B!SessionOf(c) = s /\ c[2] <= n THEN B!Begun(s, tools[c[2]]) ELSE toolCall[c]]
    BY <1>7 DEF B!message
  <2>4. QED
    BY <2>1, <2>2, <2>3 DEF Same
<1>8. ASSUME NEW c \in B!Calls, B!elevateOwn(c) \/ B!checkElevation(c) PROVE StopIsPromised'
  BY <1>3, <1>4, <1>5, <1>8 DEF B!elevateOwn, B!checkElevation, Same
<1>9. ASSUME NEW c \in B!Calls, B!elevateOthers(c) PROVE StopIsPromised'
  BY <1>3, <1>5, <1>9 DEF B!elevateOthers, Same
<1>10. ASSUME NEW c \in B!Calls, B!deElevate(c) PROVE StopIsPromised'
  <2>1. toolCall' = [toolCall EXCEPT ![c] = B!No]
    BY <1>10 DEF B!deElevate, B!Return
  <2>2. CASE elevated' # {}
    BY <1>3, <1>10, <2>2 DEF B!deElevate, Same
  <2>3. CASE elevated' = {}
    <3>1. PICK i : stopping' = stopping \union {i} /\ teardown' = {i}
      BY <1>10, <2>3 DEF B!deElevate
    <3>2. stopping' = {i}
      BY <3>1 DEF B!StopsApart
    <3>3. QED
      BY <2>1, <3>1, <3>2, CallsPromised
  <2>4. QED
    BY <2>2, <2>3
<1>11. ASSUME NEW i, B!stopped(i) PROVE StopIsPromised'
  <2>1. stopping' = teardown'
    BY <1>11 DEF B!stopped
  <2>2. toolCall' = [c \in B!Calls |->
           B!ToolCall(toolCall[c].tool, toolCall[c].pc, toolCall[c].pending \ {i}, toolCall[c].saw \ {i})]
    BY <1>11 DEF B!stopped
  <2>3. ASSUME NEW c \in B!Calls PROVE Promised(toolCall'[c])
    BY <2>2 DEF Promised, B!ToolCall
  <2>4. QED
    BY <2>1, <2>2, <2>3
<1>12. ASSUME NEW c \in B!Calls, B!awaitTeardown(c) PROVE StopIsPromised'
  <2>1. toolCall[c].saw = {} /\ Same
    BY <1>12 DEF B!awaitTeardown, Promised, Same
  <2>2. toolCall' = [toolCall EXCEPT ![c] =
           B!ToolCall(toolCall[c].tool, "start", toolCall[c].pending, toolCall[c].saw)]
    BY <1>12 DEF B!awaitTeardown
  <2>3. Promised(B!ToolCall(toolCall[c].tool, "start", toolCall[c].pending, toolCall[c].saw))
    BY <2>1 DEF Promised, B!ToolCall
  <2>4. QED
    BY <1>2, <2>1, <2>2, <2>3
<1>13. ASSUME NEW c \in B!Calls,
              B!provideStart(c) \/ B!startFails(c) \/ B!mark(c) \/ B!runCommand(c)
                \/ B!removeProcess(c) \/ B!resetDeElevationTimer(c)
       PROVE  StopIsPromised'
  BY <1>3, <1>4, <1>13 DEF B!provideStart, B!startFails, B!mark, B!runCommand,
     B!removeProcess, B!resetDeElevationTimer, Same
<1>14. CASE B!timerFires \/ B!timerStops \/ B!timerReturns \/ B!containerDies
  BY <1>1, <1>14 DEF B!timerFires, B!timerStops, B!timerReturns, B!containerDies
<1>15. CASE B!hibernate
  BY <1>15 DEF B!hibernate
<1>16. CASE UNCHANGED B!vars
  BY <1>1, <1>16 DEF B!vars
<1>17. QED
  BY <1>6, <1>7, <1>8, <1>9, <1>10, <1>11, <1>12, <1>13, <1>14, <1>15, <1>16 DEF B!Next

\* For any sessions that elevate and de-elevate, use the sandbox and connect, with
\* any number of calls at once, while its timer fires and the container dies: a
\* call that asks for the teardown promise starts the container only when the
\* stops that were in flight then have arrived, in every behaviour in which a stop
\* ends before the next one begins.
THEOREM StopIsAwaited == B!Spec /\ []B!StopsApart => []ReelevateWaits
<1>1. B!Init => StopIsPromised
  BY CallsPromised DEF B!Init, StopIsPromised
<1>2. StopIsPromised /\ [B!Next]_(B!vars) /\ B!StopsApart' => StopIsPromised'
  BY StopIsPromisedStep
<1>3. StopIsPromised => ReelevateWaits
  BY DEF StopIsPromised, Promised, ReelevateWaits, B!ReelevateWaits
<1>4. QED
  BY <1>1, <1>2, <1>3, PTL DEF B!Spec

-----------------------------------------------------------------------------
(***************************************************************************)
(* ModelStream, the streams.  An event that is pushed is at the end of     *)
(* what is in flight, whether it went to a waiting reader or to the queue; *)
(* the reader takes what is in flight from the front.                      *)
(***************************************************************************)
Kinds == {"text", "thinking", "toolCall"}
Ev == [type : {"start", "delta", "end", "done", "error"},
       kind : {"text", "thinking", "toolCall", "message"}, at : Nat]

Streams == [queue : Seq(Ev), waiter : BOOLEAN, handed : Seq(Ev), done : BOOLEAN,
            result : {"none", "done", "error"}]

StreamOK(s) ==
  /\ s \in Streams /\ Len(s.handed) <= 1
  /\ s.waiter => s.queue = <<>> /\ s.handed = <<>> /\ ~s.done

\* What the events are that the provider makes.
LEMMA EventTypes ==
  /\ \A t \in {"start", "delta", "end", "done", "error"},
        k \in {"text", "thinking", "toolCall", "message"}, n \in Nat :
       /\ M!Event(t, k, n) \in Ev
       /\ M!Event(t, k, n).type = t /\ M!Event(t, k, n).kind = k /\ M!Event(t, k, n).at = n
  /\ \A t \in {"done", "error"} : /\ M!Final(t) \in Ev /\ M!isComplete(M!Final(t))
                                  /\ M!Final(t).type = t /\ M!Final(t).at = 0
BY DEF M!Event, M!Final, M!isComplete, Ev

LEMMA Pushed ==
  ASSUME NEW s, StreamOK(s), NEW e \in Ev, ~s.done
  PROVE  /\ StreamOK(M!push(s, e)) /\ M!InFlight(M!push(s, e)) = Append(M!InFlight(s), e)
         /\ M!push(s, e).done = M!isComplete(e)
         /\ M!push(s, e).result = IF M!isComplete(e) THEN e.type ELSE s.result
<1> DEFINE p == M!push(s, e)
<1>1. /\ s.queue \in Seq(Ev) /\ s.handed \in Seq(Ev) /\ s.waiter \in BOOLEAN
      /\ s.result \in {"none", "done", "error"} /\ Len(s.handed) <= 1
      /\ s.waiter => s.queue = <<>> /\ s.handed = <<>>
  BY DEF StreamOK, Streams
<1>2. M!isComplete(e) \in BOOLEAN /\ (M!isComplete(e) => e.type \in {"done", "error"})
  BY DEF M!isComplete
<1>3. /\ p.queue = IF s.waiter THEN s.queue ELSE Append(s.queue, e)
      /\ p.handed = IF s.waiter THEN <<e>> ELSE s.handed
      /\ p.waiter = FALSE /\ p.done = M!isComplete(e)
      /\ p.result = IF M!isComplete(e) THEN e.type ELSE s.result
      /\ p = [queue |-> p.queue, handed |-> p.handed, waiter |-> p.waiter,
              done |-> p.done, result |-> p.result]
  BY DEF M!push
<1> HIDE DEF p
<1>4. p.queue \in Seq(Ev) /\ p.handed \in Seq(Ev) /\ Len(p.handed) <= 1
      /\ p.result \in {"none", "done", "error"} /\ p.done \in BOOLEAN /\ p.waiter \in BOOLEAN
  <2>1. Append(s.queue, e) \in Seq(Ev) /\ <<e>> \in Seq(Ev) /\ Len(<<e>>) <= 1
    BY <1>1
  <2>2. p.queue \in Seq(Ev) /\ p.handed \in Seq(Ev)
    BY <1>1, <1>3, <2>1
  <2>3. Len(p.handed) <= 1
    BY <1>1, <1>3, <2>1
  <2>4. QED
    BY <1>1, <1>2, <1>3, <2>2, <2>3
<1>5. p \in Streams
  BY <1>3, <1>4 DEF Streams
<1>6. p.handed \o p.queue = Append(s.handed \o s.queue, e)
  <2>1. CASE s.waiter
    <3>1. p.handed = <<e>> /\ p.queue = <<>> /\ s.handed = <<>> /\ s.queue = <<>>
      BY <1>1, <1>3, <2>1
    <3>2. <<e>> \o <<>> = Append(<<>> \o <<>>, e)
      OBVIOUS
    <3>3. QED
      BY <3>1, <3>2
  <2>2. CASE ~s.waiter
    <3>1. ASSUME NEW a \in Seq(Ev), NEW b \in Seq(Ev)
          PROVE  a \o Append(b, e) = Append(a \o b, e)
      BY <3>1
    <3>2. s.handed \o Append(s.queue, e) = Append(s.handed \o s.queue, e)
      BY <1>1, <3>1
    <3>3. QED
      BY <1>3, <2>2, <3>2
  <2>3. QED
    BY <2>1, <2>2
<1>7. QED
  BY <1>3, <1>4, <1>5, <1>6 DEF StreamOK, M!InFlight, p

LEMMA Ended ==
  ASSUME NEW s, StreamOK(s)
  PROVE  /\ StreamOK(M!end(s)) /\ M!InFlight(M!end(s)) = M!InFlight(s)
         /\ M!end(s).done = TRUE /\ M!end(s).result = s.result
BY DEF StreamOK, Streams, M!end, M!InFlight

LEMMA AtMostOne ==
  ASSUME NEW q \in Seq(Ev), q # <<>>, Len(q) <= 1
  PROVE  \E e \in Ev : q = <<e>>
<1>1. Len(q) = 1 /\ q[1] \in Ev
  <2>1. PICK n \in Nat : n = Len(q) /\ n # 0
    BY EmptySeq
  <2>2. n <= 1
    BY <2>1
  <2>3. n = 1
    BY <2>1, <2>2
  <2>4. QED
    BY <2>1, <2>3
<1>2. q = <<q[1]>>
  BY <1>1
<1>3. QED
  BY <1>1, <1>2

LEMMA TakenOne ==
  ASSUME NEW s, StreamOK(s), M!HasNext(s)
  PROVE  /\ StreamOK(M!Taken(s)) /\ M!InFlight(s) \in Seq(Ev) /\ M!InFlight(s) # <<>>
         /\ M!InFlight(M!Taken(s)) = Tail(M!InFlight(s))
         /\ M!Taken(s).done = s.done /\ M!Taken(s).result = s.result
<1>1. /\ s.queue \in Seq(Ev) /\ s.handed \in Seq(Ev) /\ Len(s.handed) <= 1 /\ ~s.waiter
      /\ s.handed \o s.queue # <<>> /\ s.handed \o s.queue \in Seq(Ev)
  BY DEF StreamOK, Streams, M!HasNext, M!InFlight
<1>2. CASE s.handed = <<>>
  <2>1. s.handed \o s.queue = s.queue
    BY <1>1, <1>2
  <2>2. Tail(s.queue) \in Seq(Ev) /\ <<>> \o Tail(s.queue) = Tail(s.queue)
    BY <1>1, <2>1
  <2>3. M!Taken(s) = [s EXCEPT !.queue = Tail(s.queue)]
    BY <1>2 DEF M!Taken
  <2>4. M!Taken(s) \in Streams /\ M!Taken(s).handed = <<>> /\ M!Taken(s).waiter = s.waiter
        /\ M!Taken(s).queue = Tail(s.queue) /\ M!Taken(s).done = s.done
        /\ M!Taken(s).result = s.result
    BY <1>2, <2>2, <2>3 DEF StreamOK, Streams
  <2>5. QED
    BY <1>1, <1>2, <2>1, <2>2, <2>4 DEF StreamOK, M!InFlight
<1>3. CASE s.handed # <<>>
  <2>1. PICK e \in Ev : s.handed = <<e>>
    BY <1>1, <1>3, AtMostOne
  <2>2. Tail(<<e>> \o s.queue) = s.queue /\ <<>> \o s.queue = s.queue
    BY <1>1
  <2>3. M!Taken(s) = [s EXCEPT !.handed = <<>>]
    BY <1>3 DEF M!Taken
  <2>4. M!Taken(s) \in Streams /\ M!Taken(s).handed = <<>> /\ M!Taken(s).waiter = s.waiter
        /\ M!Taken(s).queue = s.queue /\ M!Taken(s).done = s.done
        /\ M!Taken(s).result = s.result
    BY <2>3, EmptySeq DEF StreamOK, Streams
  <2>5. QED
    BY <1>1, <2>1, <2>2, <2>4 DEF StreamOK, M!InFlight
<1>4. QED
  BY <1>2, <1>3

LEMMA Waits ==
  ASSUME NEW s, StreamOK(s), M!MustWait(s)
  PROVE  /\ StreamOK(M!Waiting(s)) /\ M!InFlight(M!Waiting(s)) = M!InFlight(s)
         /\ M!Waiting(s).done = s.done /\ M!Waiting(s).result = s.result
         /\ M!Waiting(s).waiter
<1>1. s.handed \o s.queue = <<>> /\ s.handed \in Seq(Ev) /\ s.queue \in Seq(Ev) /\ ~s.done
  BY DEF StreamOK, Streams, M!MustWait, M!InFlight
<1>2. s.handed = <<>> /\ s.queue = <<>>
  <2>1. Len(s.handed) = 0 /\ Len(s.queue) = 0
    <3>1. Len(s.handed \o s.queue) = 0
      BY <1>1, EmptySeq
    <3>2. QED
      BY <1>1, <3>1, ConcatProperties, LenProperties
  <2>2. QED
    BY <1>1, <2>1
<1>3. QED
  BY <1>1, <1>2 DEF StreamOK, Streams, M!Waiting, M!InFlight

-----------------------------------------------------------------------------
\* f pushes the first k of the events es, one after the other.
Pushes(f, s, es, k) ==
  f = [n \in 0 .. k |-> IF n = 0 THEN s ELSE M!push(f[n - 1], es[n])]

LEMMA PushesExist ==
  ASSUME NEW s, NEW es
  PROVE  \A k \in Nat : \E f : Pushes(f, s, es, k)
<1> DEFINE N == {k \in Nat : \E f : Pushes(f, s, es, k)}
<1>1. 0 \in N
  <2>1. Pushes([n \in 0 .. 0 |-> s], s, es, 0)
    BY DEF Pushes
  <2>2. QED
    BY <2>1
<1>2. ASSUME NEW k \in Nat, k \in N PROVE k + 1 \in N
  <2>1. PICK f : Pushes(f, s, es, k)
    BY <1>2
  <2> DEFINE x == M!push(f[k], es[k + 1])
             g == [n \in 0 .. k + 1 |-> IF n = k + 1 THEN x ELSE f[n]]
  <2>2. ASSUME NEW n \in 0 .. k + 1
        PROVE  g[n] = IF n = 0 THEN s ELSE M!push(g[n - 1], es[n])
    <3>1. CASE n = k + 1
      BY <3>1
    <3>2. CASE n # k + 1
      <4>1. n \in 0 .. k /\ (n # 0 => n - 1 \in 0 .. k + 1 /\ n - 1 # k + 1)
        BY <3>2
      <4>2. f[n] = IF n = 0 THEN s ELSE M!push(f[n - 1], es[n])
        BY <2>1, <4>1 DEF Pushes
      <4>3. QED
        BY <3>2, <4>1, <4>2
    <3>3. QED
      BY <3>1, <3>2
  <2>3. Pushes(g, s, es, k + 1)
    BY <2>2, Zenon DEF Pushes
  <2>4. QED
    BY <2>3
<1>3. QED
  <2> HIDE DEF N
  <2>1. \A k \in Nat : k \in N
    BY <1>1, <1>2, NatInduct
  <2>2. QED
    BY <2>1 DEF N

LEMMA PushesAgree ==
  ASSUME NEW s, NEW es, NEW fs, NEW k \in Nat,
         \A n \in 1 .. k : es[n] = fs[n],
         NEW f, Pushes(f, s, es, k), NEW g, Pushes(g, s, fs, k + 1)
  PROVE  f[k] = g[k]
<1> DEFINE N == {n \in Nat : n <= k => f[n] = g[n]}
<1>1. 0 \in N
  BY DEF Pushes
<1>2. ASSUME NEW n \in Nat, n \in N PROVE n + 1 \in N
  <2>1. SUFFICES ASSUME n + 1 <= k PROVE f[n + 1] = g[n + 1]
    OBVIOUS
  <2>2. /\ n + 1 \in 0 .. k /\ n + 1 \in 0 .. k + 1 /\ n + 1 # 0
        /\ (n + 1) - 1 = n /\ n + 1 \in 1 .. k
    BY <2>1
  <2>3. f[n] = g[n] /\ es[n + 1] = fs[n + 1]
    BY <1>2, <2>1, <2>2
  <2>4. f[n + 1] = M!push(f[n], es[n + 1])
    BY <2>2 DEF Pushes
  <2>5. g[n + 1] = M!push(g[n], fs[n + 1])
    BY <2>2 DEF Pushes
  <2>6. QED
    BY <2>3, <2>4, <2>5
<1>3. QED
  <2> HIDE DEF N
  <2>1. k \in N
    BY <1>1, <1>2, NatInduct
  <2>2. QED
    BY <2>1 DEF N

LEMMA PushAllIs ==
  ASSUME NEW s, NEW es \in Seq(Ev)
  PROVE  \E f : Pushes(f, s, es, Len(es)) /\ M!PushAll(s, es) = f[Len(es)]
<1>1. \E f : Pushes(f, s, es, Len(es))
  BY PushesExist, LenProperties
<1>2. M!PushAll(s, es) = (CHOOSE f : Pushes(f, s, es, Len(es)))[Len(es)]
  BY DEF M!PushAll, Pushes
<1>3. QED
  BY <1>1, <1>2

\* What PushAll does, event by event.
LEMMA PushAllEmpty == ASSUME NEW s PROVE M!PushAll(s, <<>>) = s
<1>1. <<>> \in Seq(Ev) /\ Len(<<>>) = 0
  BY EmptySeq
<1>2. PICK f : Pushes(f, s, <<>>, 0) /\ M!PushAll(s, <<>>) = f[0]
  BY <1>1, PushAllIs
<1>3. QED
  BY <1>2 DEF Pushes

LEMMA PushAllAppend ==
  ASSUME NEW s, NEW es \in Seq(Ev), NEW e \in Ev
  PROVE  M!PushAll(s, Append(es, e)) = M!push(M!PushAll(s, es), e)
<1> DEFINE r == Append(es, e)
           l == Len(es)
<1>1. /\ l \in Nat /\ r \in Seq(Ev) /\ Len(r) = l + 1 /\ r[l + 1] = e
      /\ \A n \in 1 .. l : es[n] = r[n]
  BY AppendProperties, LenProperties
<1>2. PICK f : Pushes(f, s, es, l) /\ M!PushAll(s, es) = f[l]
  BY PushAllIs
<1>3. PICK g : Pushes(g, s, r, l + 1) /\ M!PushAll(s, r) = g[l + 1]
  BY <1>1, PushAllIs
<1> HIDE DEF r, l
<1>4. f[l] = g[l]
  BY <1>1, <1>2, <1>3, PushesAgree
<1>5. g[l + 1] = M!push(g[l], r[l + 1])
  <2>1. l + 1 \in 0 .. l + 1 /\ l + 1 # 0 /\ (l + 1) - 1 = l
    BY <1>1
  <2>2. QED
    BY <1>3, <2>1 DEF Pushes
<1>6. QED
  BY <1>1, <1>2, <1>3, <1>4, <1>5 DEF r

\* Events of which none completes the stream, pushed one after the other.
LEMMA PushedAll ==
  ASSUME NEW s, StreamOK(s), ~s.done, NEW es \in Seq(Ev),
         \A i \in DOMAIN es : ~M!isComplete(es[i])
  PROVE  /\ StreamOK(M!PushAll(s, es)) /\ ~M!PushAll(s, es).done
         /\ M!InFlight(M!PushAll(s, es)) = M!InFlight(s) \o es
         /\ M!PushAll(s, es).result = s.result
<1> DEFINE None(l) == \A i \in DOMAIN l : ~M!isComplete(l[i])
           Goal(l) == /\ StreamOK(M!PushAll(s, l)) /\ ~M!PushAll(s, l).done
                      /\ M!InFlight(M!PushAll(s, l)) = M!InFlight(s) \o l
                      /\ M!PushAll(s, l).result = s.result
           Fine == {l \in Seq(Ev) : None(l) => Goal(l)}
<1>1. M!InFlight(s) \in Seq(Ev)
  <2>1. s.handed \in Seq(Ev) /\ s.queue \in Seq(Ev)
    BY DEF StreamOK, Streams
  <2>2. QED
    BY <2>1 DEF M!InFlight
<1>2. <<>> \in Fine
  <2>1. M!InFlight(s) \o <<>> = M!InFlight(s) /\ <<>> \in Seq(Ev)
    BY <1>1, EmptySeq, ConcatEmptySeq
  <2>2. QED
    BY <2>1, PushAllEmpty
<1>3. ASSUME NEW l \in Seq(Ev), NEW e \in Ev, l \in Fine PROVE Append(l, e) \in Fine
  <2>1. SUFFICES ASSUME None(Append(l, e)) PROVE Goal(Append(l, e))
    BY AppendProperties
  <2>2. /\ Len(l) \in Nat /\ DOMAIN l = 1 .. Len(l) /\ DOMAIN Append(l, e) = 1 .. Len(l) + 1
        /\ Append(l, e)[Len(l) + 1] = e /\ \A i \in 1 .. Len(l) : Append(l, e)[i] = l[i]
    OBVIOUS
  <2>3. ~M!isComplete(e) /\ None(l)
    BY <2>1, <2>2
  <2>4. Goal(l)
    BY <1>3, <2>3
  <2>5. M!PushAll(s, Append(l, e)) = M!push(M!PushAll(s, l), e)
    BY PushAllAppend
  <2> DEFINE t == M!PushAll(s, l)
  <2> HIDE DEF t
  <2>6. StreamOK(t) /\ ~t.done /\ M!InFlight(t) = M!InFlight(s) \o l /\ t.result = s.result
    BY <2>4 DEF t
  <2>7. /\ StreamOK(M!push(t, e)) /\ M!InFlight(M!push(t, e)) = Append(M!InFlight(t), e)
        /\ ~M!push(t, e).done /\ M!push(t, e).result = s.result
    BY <2>3, <2>6, Pushed
  <2>8. Append(M!InFlight(s) \o l, e) = M!InFlight(s) \o Append(l, e)
    <3>1. ASSUME NEW a \in Seq(Ev) PROVE Append(a \o l, e) = a \o Append(l, e)
      BY <3>1
    <3>2. QED
      BY <1>1, <3>1
  <2>9. QED
    BY <2>5, <2>6, <2>7, <2>8 DEF t
<1>4. QED
  <2> HIDE DEF Fine
  <2>1. es \in Fine
    BY <1>2, <1>3, ListInduct
  <2>2. QED
    BY <2>1 DEF Fine

-----------------------------------------------------------------------------
(***************************************************************************)
(* ModelStream, the way of the events.  The event that completes the       *)
(* answer is the last one that is pushed; the second stream is done when   *)
(* it has come there, which is when nothing is left in the first.          *)
(***************************************************************************)
Completes(p, over) == \A i \in DOMAIN p : M!isComplete(p[i]) <=> over /\ i = Len(p)

FlowTypes ==
  /\ pushed \in Seq(Ev) /\ handled \in Seq(Ev) /\ StreamOK(inner) /\ StreamOK(outer)
  /\ provider \in {"load", "create", "reading", "over"}
  /\ forwarder \in {"none", "reading", "over"} /\ reader \in {"reading", "returned"}

Forwarded ==
  /\ provider = "load" => forwarder = "none" /\ pushed = <<>>
  /\ provider \in {"create", "reading"} => forwarder = "reading"
  /\ forwarder = "none" => M!InFlight(inner) = <<>> /\ ~inner.done
  /\ forwarder # "none" => (inner.done <=> provider = "over")
  /\ outer.done <=> provider = "over" /\ M!InFlight(inner) = <<>>
  /\ outer.done => outer.result = pushed[Len(pushed)].type
  /\ forwarder = "over" => outer.done

Heard ==
  /\ reader = "reading" => \A i \in DOMAIN handled : ~M!isComplete(handled[i])
  /\ reader = "returned" => handled = pushed /\ provider = "over"

Flow ==
  /\ FlowTypes /\ Forwarded /\ Heard
  /\ M!NothingLost
  /\ Completes(pushed, provider = "over")
  /\ provider = "over" => pushed # <<>>

LEMMA FlightType == ASSUME NEW s, StreamOK(s) PROVE M!InFlight(s) \in Seq(Ev)
<1>1. s.handed \in Seq(Ev) /\ s.queue \in Seq(Ev)
  BY DEF StreamOK, Streams
<1>2. QED
  BY <1>1 DEF M!InFlight

\* What has completed and what has not, when events are added.
LEMMA CompletesMore ==
  ASSUME NEW p \in Seq(Ev), Completes(p, FALSE), NEW es \in Seq(Ev),
         \A i \in DOMAIN es : ~M!isComplete(es[i])
  PROVE  Completes(p \o es, FALSE)
<1>1. /\ Len(p) \in Nat /\ Len(es) \in Nat /\ DOMAIN p = 1 .. Len(p) /\ DOMAIN es = 1 .. Len(es)
      /\ DOMAIN (p \o es) = 1 .. Len(p) + Len(es)
      /\ \A i \in 1 .. Len(p) : (p \o es)[i] = p[i]
      /\ \A i \in 1 .. Len(es) : (p \o es)[Len(p) + i] = es[i]
  OBVIOUS
<1>2. SUFFICES ASSUME NEW i \in DOMAIN (p \o es) PROVE ~M!isComplete((p \o es)[i])
  BY DEF Completes
<1>3. CASE i <= Len(p)
  BY <1>1, <1>3 DEF Completes
<1>4. CASE i > Len(p)
  <2>1. i - Len(p) \in 1 .. Len(es) /\ Len(p) + (i - Len(p)) = i
    BY <1>1, <1>4
  <2>2. QED
    BY <1>1, <2>1
<1>5. QED
  BY <1>1, <1>3, <1>4

LEMMA CompletesLast ==
  ASSUME NEW p \in Seq(Ev), Completes(p, FALSE), NEW e \in Ev, M!isComplete(e)
  PROVE  Completes(Append(p, e), TRUE)
<1>1. /\ Len(p) \in Nat /\ DOMAIN p = 1 .. Len(p) /\ DOMAIN Append(p, e) = 1 .. Len(p) + 1
      /\ Len(Append(p, e)) = Len(p) + 1 /\ Append(p, e)[Len(p) + 1] = e
      /\ \A i \in 1 .. Len(p) : Append(p, e)[i] = p[i]
  OBVIOUS
<1>2. SUFFICES ASSUME NEW i \in DOMAIN Append(p, e)
               PROVE  M!isComplete(Append(p, e)[i]) <=> i = Len(Append(p, e))
  BY DEF Completes
<1>3. CASE i = Len(p) + 1
  BY <1>1, <1>3
<1>4. CASE i # Len(p) + 1
  BY <1>1, <1>4 DEF Completes
<1>5. QED
  BY <1>3, <1>4

LEMMA FlightGrowsBy ==
  ASSUME NEW a \in Seq(Ev), NEW b \in Seq(Ev), NEW c \in Seq(Ev), NEW e \in Ev
  PROVE  (a \o b) \o Append(c, e) = Append((a \o b) \o c, e) /\ Append(c, e) # <<>>
<1>1. a \o b \in Seq(Ev)
  BY ConcatProperties
<1>2. ASSUME NEW x \in Seq(Ev) PROVE x \o Append(c, e) = Append(x \o c, e)
  BY <1>2
<1>3. Append(c, e) # <<>>
  OBVIOUS
<1>4. QED
  BY <1>1, <1>2, <1>3

\* The provider pushes events and goes on.
LEMMA EmitFlows ==
  ASSUME Flow, NEW es \in Seq(Ev), \A i \in DOMAIN es : ~M!isComplete(es[i]), M!Emit(es),
         provider \in {"create", "reading"}, provider' = "reading",
         UNCHANGED <<outer, forwarder, reader, handled>>
  PROVE  Flow'
<1>1. /\ StreamOK(inner) /\ ~inner.done /\ pushed \in Seq(Ev) /\ forwarder = "reading"
      /\ inner' = M!PushAll(inner, es) /\ pushed' = pushed \o es
      /\ ~outer.done /\ reader = "reading" /\ StreamOK(outer) /\ handled \in Seq(Ev)
  BY DEF Flow, FlowTypes, Forwarded, Heard, M!Emit
<1>2. StreamOK(inner') /\ ~inner'.done /\ M!InFlight(inner') = M!InFlight(inner) \o es
  BY <1>1, PushedAll
<1>3. M!NothingLost'
  <2>1. (handled \o M!InFlight(outer)) \o (M!InFlight(inner) \o es) = pushed \o es
    <3>1. M!InFlight(inner) \in Seq(Ev) /\ M!InFlight(outer) \in Seq(Ev)
      BY <1>1, FlightType
    <3>2. (handled \o M!InFlight(outer)) \o (M!InFlight(inner) \o es)
            = ((handled \o M!InFlight(outer)) \o M!InFlight(inner)) \o es
      <4> DEFINE a == handled \o M!InFlight(outer)
                 c == M!InFlight(inner)
      <4>1. a \in Seq(Ev) /\ c \in Seq(Ev) /\ es \in Seq(Ev)
        BY <1>1, <3>1, ConcatProperties
      <4> HIDE DEF a, c
      <4>2. a \o (c \o es) = (a \o c) \o es
        BY <4>1, SMTT(30)
      <4>3. QED
        BY <4>2 DEF a, c
    <3>3. QED
      BY <3>2 DEF Flow, M!NothingLost
  <2>2. QED
    BY <1>1, <1>2, <2>1 DEF M!NothingLost, M!InFlight
<1>4. Completes(pushed', FALSE)
  BY <1>1, CompletesMore DEF Flow
<1>5. FlowTypes'
  BY <1>1, <1>2 DEF Flow, FlowTypes
<1>6. Forwarded' /\ Heard'
  BY <1>1, <1>2 DEF Flow, Forwarded, Heard
<1>7. QED
  BY <1>3, <1>4, <1>5, <1>6 DEF Flow

\* The provider pushes its last events.
LEMMA FinishFlows ==
  ASSUME Flow, NEW es \in Seq(Ev), \A i \in DOMAIN es : ~M!isComplete(es[i]),
         NEW e \in Ev, M!isComplete(e),
         inner' = M!end(M!push(M!PushAll(inner, es), e)), pushed' = Append(pushed \o es, e),
         provider \in {"create", "reading"}, provider' = "over",
         UNCHANGED <<outer, forwarder, reader, handled>>
  PROVE  Flow'
<1>1. /\ StreamOK(inner) /\ ~inner.done /\ pushed \in Seq(Ev) /\ forwarder = "reading"
      /\ ~outer.done /\ reader = "reading" /\ StreamOK(outer) /\ handled \in Seq(Ev)
  BY DEF Flow, FlowTypes, Forwarded, Heard
<1> DEFINE t == M!PushAll(inner, es)
<1>2. StreamOK(t) /\ ~t.done /\ M!InFlight(t) = M!InFlight(inner) \o es
  BY <1>1, PushedAll
<1> HIDE DEF t
<1>3. StreamOK(M!push(t, e)) /\ M!InFlight(M!push(t, e)) = Append(M!InFlight(t), e)
  BY <1>2, Pushed
<1>4. StreamOK(inner') /\ inner'.done /\ M!InFlight(inner') = Append(M!InFlight(inner) \o es, e)
  BY <1>2, <1>3, Ended DEF t
<1>5. M!NothingLost' /\ M!InFlight(inner)' # <<>>
  <2>1. M!InFlight(inner) \in Seq(Ev) /\ M!InFlight(outer) \in Seq(Ev)
        /\ M!InFlight(inner) \o es \in Seq(Ev)
    BY <1>1, FlightType, ConcatProperties
  <2>2. (handled \o M!InFlight(outer)) \o (M!InFlight(inner) \o es) = pushed \o es
    <3>1. (handled \o M!InFlight(outer)) \o (M!InFlight(inner) \o es)
            = ((handled \o M!InFlight(outer)) \o M!InFlight(inner)) \o es
      <4> DEFINE a == handled \o M!InFlight(outer)
                 c == M!InFlight(inner)
      <4>1. a \in Seq(Ev) /\ c \in Seq(Ev) /\ es \in Seq(Ev)
        BY <1>1, <2>1, ConcatProperties
      <4> HIDE DEF a, c
      <4>2. a \o (c \o es) = (a \o c) \o es
        BY <4>1, SMTT(30)
      <4>3. QED
        BY <4>2 DEF a, c
    <3>2. QED
      BY <3>1 DEF Flow, M!NothingLost
  <2>3. (handled \o M!InFlight(outer)) \o Append(M!InFlight(inner) \o es, e) = Append(pushed \o es, e)
    <3>1. \A c \in Seq(Ev) : (handled \o M!InFlight(outer)) \o Append(c, e)
                              = Append((handled \o M!InFlight(outer)) \o c, e)
      <4> DEFINE b == M!InFlight(outer)
      <4>1. handled \in Seq(Ev) /\ b \in Seq(Ev)
        BY <1>1, <2>1
      <4> HIDE DEF b
      <4>2. \A c \in Seq(Ev) : (handled \o b) \o Append(c, e) = Append((handled \o b) \o c, e)
        BY <4>1, FlightGrowsBy
      <4>3. QED
        BY <4>2 DEF b
    <3>2. QED
      BY <2>1, <2>2, <3>1
  <2>4. Append(M!InFlight(inner) \o es, e) # <<>>
    BY <1>1, <2>1, FlightGrowsBy
  <2>5. QED
    BY <1>4, <2>3, <2>4 DEF M!NothingLost, M!InFlight
<1>6. Completes(pushed', TRUE) /\ pushed' # <<>> /\ pushed' \in Seq(Ev)
  <2>1. pushed \o es \in Seq(Ev) /\ Completes(pushed \o es, FALSE)
    BY <1>1, CompletesMore, ConcatProperties DEF Flow
  <2>2. QED
    BY <2>1, CompletesLast, AppendProperties
<1>7. FlowTypes'
  BY <1>1, <1>4, <1>6 DEF Flow, FlowTypes
<1>8. Forwarded' /\ Heard'
  BY <1>1, <1>4, <1>5 DEF Flow, Forwarded, Heard, M!InFlight
<1>9. QED
  BY <1>5, <1>6, <1>7, <1>8 DEF Flow

-----------------------------------------------------------------------------
(***************************************************************************)
(* ModelStream, the blocks of an answer and the events that a delta makes. *)
(***************************************************************************)
Sources == Ids \cup {"text", "thinking"}
Block == [kind : Kinds, id : Ids \cup {M!NoId}, parts : Seq(Sources)]
PartType == [kind : Kinds, id : Ids \cup {M!NoId}, of : Sources]

LEMMA LastReplaced ==
  ASSUME NEW T, NEW r \in Seq(T), NEW t \in Seq(T), NEW l \in 1 .. Len(r), Len(t) = Len(r),
         \A i \in 1 .. Len(r) : i # l => t[i] = r[i]
  PROVE  [r EXCEPT ![l] = t[l]] = t
<1> DEFINE y == t[l]
           u == [r EXCEPT ![l] = y]
<1>1. y \in T
  OBVIOUS
<1> HIDE DEF y
<1>2. u \in Seq(T) /\ Len(u) = Len(r) /\ \A j \in 1 .. Len(r) : u[j] = IF j = l THEN y ELSE r[j]
  BY <1>1, ExceptSeq
<1> HIDE DEF u
<1>3. \A j \in 1 .. Len(u) : u[j] = t[j]
  BY <1>2 DEF y
<1>4. u = t
  BY <1>2, <1>3, SeqEqual
<1>5. QED
  BY <1>4 DEF u, y

\* The last block of an answer and the event that ends it.
LEMMA LastBlock ==
  ASSUME NEW bs \in Seq(Block), bs # <<>>
  PROVE  /\ Len(bs) \in Nat \ {0} /\ M!Last(bs) = bs[Len(bs)] /\ bs[Len(bs)] \in Block
         /\ bs[Len(bs)].kind \in Kinds
         /\ M!finishCurrentBlock(bs) = <<M!Event("end", bs[Len(bs)].kind, Len(bs))>>
         /\ M!Event("end", bs[Len(bs)].kind, Len(bs)) \in Ev
         /\ ~M!isComplete(M!Event("end", bs[Len(bs)].kind, Len(bs)))
<1>1. Len(bs) \in Nat \ {0} /\ M!Last(bs) = bs[Len(bs)]
  BY EmptySeq DEF M!Last
<1>2. bs[Len(bs)] \in Block
  BY <1>1
<1>3. bs[Len(bs)].kind \in Kinds
  BY <1>2 DEF Block
<1>4. M!Event("end", bs[Len(bs)].kind, Len(bs)) \in Ev
      /\ M!Event("end", bs[Len(bs)].kind, Len(bs)).type = "end"
  BY <1>1, <1>3, EventTypes DEF Kinds
<1>5. QED
  BY <1>1, <1>2, <1>3, <1>4 DEF M!finishCurrentBlock, M!isComplete

\* What the service may send is a part.
LEMMA PartsAreParts ==
  ASSUME NEW p \in M!NextParts
  PROVE  /\ p \in PartType
         /\ \/ p.kind \in {"text", "thinking"} /\ p.of = p.kind /\ p.id = M!NoId
            \/ p.kind = "toolCall" /\ p.of \in Ids
               /\ \/ p.id = p.of /\ p.of \in (Ids \ M!Begun) \cup M!Continued
                  \/ p.id = M!NoId /\ p.of \in M!Continued
<1>1. M!Continued \subseteq Ids /\ M!Begun \subseteq Ids
  BY DEF M!Continued, M!Begun
<1>2. QED
  BY <1>1 DEF M!NextParts, M!Part, M!NoId, PartType, Kinds, Sources

\* A part that begins a block.
LEMMA GrownAnew ==
  ASSUME NEW bs \in Seq(Block), NEW p \in PartType, M!startsBlock(bs, p),
         NEW new, new = [kind |-> p.kind, id |-> p.id, parts |-> <<p.of>>],
         NEW none, none = [kind |-> p.kind, id |-> p.id, parts |-> <<>>]
  PROVE  /\ new \in Block /\ none \in Block
         /\ M!Grown(bs, p) = Append(bs, new) /\ Len(M!Grown(bs, p)) = Len(bs) + 1
         /\ M!Grown(bs, p) = [Append(bs, none) EXCEPT ![Len(bs) + 1] = new]
<1> DEFINE r == Append(bs, none)
<1>1. /\ p.kind \in Kinds /\ p.id \in Ids \cup {M!NoId} /\ p.of \in Sources
      /\ <<p.of>> \in Seq(Sources) /\ Append(<<>>, p.of) = <<p.of>>
  BY DEF PartType
<1>2. none \in Block /\ new \in Block /\ [none EXCEPT !.parts = Append(@, p.of)] = new
  BY <1>1, EmptySeq DEF Block
<1>3. M!Grown(bs, p) = [r EXCEPT ![Len(r)].parts = Append(@, p.of)]
  BY DEF M!Grown
<1>4. /\ r \in Seq(Block) /\ Len(r) = Len(bs) + 1 /\ r[Len(bs) + 1] = none /\ Len(bs) \in Nat
  BY <1>2
<1>5. [r EXCEPT ![Len(r)].parts = Append(@, p.of)] = [r EXCEPT ![Len(bs) + 1] = new]
  BY <1>2, <1>4
<1>6. [r EXCEPT ![Len(bs) + 1] = new] = Append(bs, new)
  <2> DEFINE t == Append(bs, new)
             l == Len(bs) + 1
  <2>1. /\ r \in Seq(Block) /\ t \in Seq(Block) /\ l \in 1 .. Len(r) /\ Len(t) = Len(r)
        /\ \A i \in 1 .. Len(r) : i # l => t[i] = r[i]
        /\ t[l] = new
    BY <1>2
  <2> HIDE DEF r, t, l
  <2>2. [r EXCEPT ![l] = t[l]] = t
    BY <2>1, LastReplaced
  <2>3. QED
    BY <2>1, <2>2 DEF t, l
<1>7. Len(Append(bs, new)) = Len(bs) + 1
  BY <1>2
<1>8. QED
  BY <1>2, <1>3, <1>5, <1>6, <1>7

\* A part that goes on with one.
LEMMA GrownOn ==
  ASSUME NEW bs \in Seq(Block), NEW p \in PartType, ~M!startsBlock(bs, p),
         NEW b, b = [bs[Len(bs)] EXCEPT !.parts = Append(@, p.of)]
  PROVE  /\ bs # <<>> /\ b \in Block /\ b.parts = Append(bs[Len(bs)].parts, p.of)
         /\ b.kind = bs[Len(bs)].kind /\ b.id = bs[Len(bs)].id
         /\ M!Grown(bs, p) = [bs EXCEPT ![Len(bs)] = b] /\ Len(M!Grown(bs, p)) = Len(bs)
         /\ p.kind = bs[Len(bs)].kind
         /\ p.kind = "toolCall" /\ p.id # M!NoId => p.id = bs[Len(bs)].id
<1>1. bs # <<>>
  BY DEF M!startsBlock
<1>2. Len(bs) \in Nat \ {0} /\ bs[Len(bs)] \in Block /\ M!Last(bs) = bs[Len(bs)]
  BY <1>1, LastBlock
<1>3. M!Grown(bs, p) = [bs EXCEPT ![Len(bs)].parts = Append(@, p.of)]
  BY DEF M!Grown
<1> DEFINE old == bs[Len(bs)]
<1>4. /\ p.of \in Sources /\ old.parts \in Seq(Sources) /\ old \in Block
      /\ Append(old.parts, p.of) \in Seq(Sources)
  BY <1>2 DEF PartType, Block
<1>5. /\ b = [old EXCEPT !.parts = Append(old.parts, p.of)]
      /\ [bs EXCEPT ![Len(bs)].parts = Append(@, p.of)] = [bs EXCEPT ![Len(bs)] = b]
  BY <1>2
<1>6. p.kind = old.kind /\ (p.kind = "toolCall" /\ p.id # M!NoId => p.id = old.id)
  BY <1>1, <1>2 DEF M!startsBlock
<1>7. Len([bs EXCEPT ![Len(bs)] = b]) = Len(bs)
  BY <1>2
<1> HIDE DEF old
<1>8. b \in Block /\ b.parts = Append(old.parts, p.of) /\ b.kind = old.kind /\ b.id = old.id
  BY <1>4, <1>5 DEF Block
<1>9. QED
  BY <1>1, <1>3, <1>5, <1>6, <1>7, <1>8 DEF old

\* One event more.
LEMMA OneMore ==
  ASSUME NEW q \in Seq(Ev), NEW a \in Seq(Ev), \A i \in DOMAIN a : ~M!isComplete(a[i]),
         NEW e \in Ev, ~M!isComplete(e)
  PROVE  /\ a \o <<e>> \in Seq(Ev) /\ \A i \in DOMAIN (a \o <<e>>) : ~M!isComplete((a \o <<e>>)[i])
         /\ q \o (a \o <<e>>) = Append(q \o a, e)
<1>1. a \o <<e>> = Append(a, e) /\ Append(a, e) \in Seq(Ev)
  OBVIOUS
<1>2. q \o Append(a, e) = Append(q \o a, e)
  OBVIOUS
<1>3. \A i \in DOMAIN Append(a, e) : ~M!isComplete(Append(a, e)[i])
  <2>1. /\ Len(a) \in Nat /\ DOMAIN a = 1 .. Len(a) /\ DOMAIN Append(a, e) = 1 .. Len(a) + 1
        /\ Append(a, e)[Len(a) + 1] = e /\ \A i \in 1 .. Len(a) : Append(a, e)[i] = a[i]
    OBVIOUS
  <2>2. QED
    BY <2>1
<1>4. QED
  BY <1>1, <1>2, <1>3

\* The events of a part, one by one.
LEMMA EventsAnew ==
  ASSUME NEW bs \in Seq(Block), NEW p \in PartType, M!startsBlock(bs, p), NEW q \in Seq(Ev),
         NEW n, n = Len(bs) + 1, NEW s, s = M!Event("start", p.kind, n),
         NEW d, d = M!Event("delta", p.kind, n),
         NEW x, x = M!Event("end", bs[Len(bs)].kind, Len(bs))
  PROVE  /\ M!Events(bs, p) \in Seq(Ev)
         /\ \A i \in DOMAIN M!Events(bs, p) : ~M!isComplete(M!Events(bs, p)[i])
         /\ s \in Ev /\ d \in Ev
         /\ bs = <<>> => q \o M!Events(bs, p) = Append(Append(q, s), d)
         /\ bs # <<>> => x \in Ev /\ q \o M!Events(bs, p) = Append(Append(Append(q, x), s), d)
<1>1. n \in Nat /\ Len(M!Grown(bs, p)) = n
  <2> DEFINE new == [kind |-> p.kind, id |-> p.id, parts |-> <<p.of>>]
             none == [kind |-> p.kind, id |-> p.id, parts |-> <<>>]
  <2>1. Len(M!Grown(bs, p)) = Len(bs) + 1
    BY GrownAnew, Zenon
  <2>2. QED
    BY <2>1
<1>2. s \in Ev /\ d \in Ev /\ ~M!isComplete(s) /\ ~M!isComplete(d)
  <2>1. p.kind \in {"text", "thinking", "toolCall", "message"}
    BY DEF PartType, Kinds
  <2>2. s \in Ev /\ d \in Ev /\ s.type = "start" /\ d.type = "delta"
    BY <1>1, <2>1, EventTypes
  <2>3. QED
    BY <2>2 DEF M!isComplete
<1>3. M!Events(bs, p) = (M!finishCurrentBlock(bs) \o <<s>>) \o <<d>>
  BY <1>1 DEF M!Events
<1> DEFINE a == M!finishCurrentBlock(bs)
<1>4. /\ a \in Seq(Ev) /\ \A i \in DOMAIN a : ~M!isComplete(a[i])
      /\ bs = <<>> => q \o a = q
      /\ bs # <<>> => x \in Ev /\ q \o a = Append(q, x)
  <2>1. CASE bs = <<>>
    <3>1. a = <<>> /\ q \o <<>> = q /\ <<>> \in Seq(Ev) /\ DOMAIN <<>> = {}
      BY <2>1, EmptySeq, ConcatEmptySeq DEF M!finishCurrentBlock
    <3> HIDE DEF a
    <3>2. QED
      BY <2>1, <3>1
  <2>2. CASE bs # <<>>
    <3>1. a = <<x>> /\ x \in Ev /\ ~M!isComplete(x)
      BY <2>2, LastBlock
    <3>2. <<x>> \in Seq(Ev) /\ q \o <<x>> = Append(q, x)
      BY <3>1
    <3> HIDE DEF a
    <3>3. QED
      BY <2>2, <3>1, <3>2
  <2>3. QED
    BY <2>1, <2>2
<1> HIDE DEF a
<1> DEFINE b == a \o <<s>>
<1>5. /\ b \in Seq(Ev) /\ \A i \in DOMAIN b : ~M!isComplete(b[i])
      /\ q \o b = Append(q \o a, s)
  BY <1>2, <1>4, OneMore
<1> HIDE DEF b
<1>6. /\ b \o <<d>> \in Seq(Ev)
      /\ \A i \in DOMAIN (b \o <<d>>) : ~M!isComplete((b \o <<d>>)[i])
      /\ q \o (b \o <<d>>) = Append(q \o b, d)
  BY <1>2, <1>5, OneMore
<1>7. M!Events(bs, p) = b \o <<d>>
  BY <1>3 DEF a, b
<1>8. QED
  BY <1>2, <1>4, <1>5, <1>6, <1>7

LEMMA EventsOn ==
  ASSUME NEW bs \in Seq(Block), NEW p \in PartType, ~M!startsBlock(bs, p), NEW q \in Seq(Ev),
         NEW d, d = M!Event("delta", bs[Len(bs)].kind, Len(bs))
  PROVE  /\ M!Events(bs, p) \in Seq(Ev) /\ d \in Ev
         /\ \A i \in DOMAIN M!Events(bs, p) : ~M!isComplete(M!Events(bs, p)[i])
         /\ q \o M!Events(bs, p) = Append(q, d)
<1> DEFINE b == [bs[Len(bs)] EXCEPT !.parts = Append(@, p.of)]
<1>1. bs # <<>> /\ p.kind = bs[Len(bs)].kind /\ Len(M!Grown(bs, p)) = Len(bs)
  BY GrownOn, Zenon
<1>2. bs[Len(bs)].kind \in Kinds /\ Len(bs) \in Nat
  BY <1>1, LastBlock
<1>3. d \in Ev /\ d.type = "delta"
  BY <1>2, EventTypes DEF Kinds
<1>4. M!Events(bs, p) = <<>> \o <<d>>
  BY <1>1 DEF M!Events
<1>5. <<>> \o <<d>> = <<d>> /\ q \o <<d>> = Append(q, d) /\ <<d>> \in Seq(Ev)
  BY <1>3
<1>6. QED
  BY <1>3, <1>4, <1>5 DEF M!isComplete

LEMMA Associates ==
  ASSUME NEW a \in Seq(Ev), NEW b \in Seq(Ev), NEW c \in Seq(Ev)
  PROVE  (a \o b) \o c = a \o (b \o c)
OBVIOUS

\* The next event of a reader, and that it is the last one when nothing is left.
LEMMA NextOf ==
  ASSUME NEW p \in Seq(Ev), NEW a \in Seq(Ev), NEW c \in Seq(Ev), c # <<>>, a \o c = p
  PROVE  /\ Head(c) \in Ev /\ Tail(c) \in Seq(Ev) /\ Append(a, Head(c)) \o Tail(c) = p
         /\ \E i \in DOMAIN p : p[i] = Head(c) /\ (i = Len(p) <=> Tail(c) = <<>>)
         /\ Tail(c) = <<>> => Head(c) = p[Len(p)] /\ Append(a, Head(c)) = p
<1>1. /\ Head(c) \in Ev /\ Tail(c) \in Seq(Ev) /\ Head(c) = c[1]
      /\ Len(a) \in Nat /\ Len(c) \in Nat \ {0} /\ Len(p) = Len(a) + Len(c)
      /\ Len(Tail(c)) = Len(c) - 1
  BY EmptySeq, ConcatProperties, HeadTailProperties
<1>2. Len(a) + 1 \in DOMAIN p /\ p[Len(a) + 1] = Head(c)
  BY <1>1, ConcatProperties
<1>3. Len(a) + 1 = Len(p) <=> Tail(c) = <<>>
  <2>1. Tail(c) = <<>> <=> Len(Tail(c)) = 0
    BY <1>1, EmptySeq
  <2>2. QED
    BY <1>1, <2>1
<1>4. Append(a, Head(c)) \o Tail(c) = p
  <2> DEFINE h == Head(c)
             t == Tail(c)
  <2>1. c = <<h>> \o t /\ <<h>> \in Seq(Ev)
    BY <1>1
  <2> HIDE DEF h, t
  <2>2. Append(a, h) = a \o <<h>>
    BY <1>1 DEF h
  <2>3. (a \o <<h>>) \o t = a \o (<<h>> \o t)
    BY <1>1, <2>1, Associates DEF t
  <2>4. QED
    BY <2>1, <2>2, <2>3 DEF h, t
<1>5. Tail(c) = <<>> => Append(a, Head(c)) = p
  <2>1. Append(a, Head(c)) \in Seq(Ev)
    BY <1>1, AppendProperties
  <2>2. QED
    BY <1>4, <2>1, ConcatEmptySeq
<1>6. QED
  BY <1>1, <1>2, <1>3, <1>4, <1>5

LEMMA TailOf ==
  ASSUME NEW b \in Seq(Ev), b # <<>>, NEW d \in Seq(Ev)
  PROVE  b \o d \in Seq(Ev) /\ b \o d # <<>> /\ Head(b \o d) = Head(b) /\ Tail(b \o d) = Tail(b) \o d
OBVIOUS

LEMMA BothEmpty ==
  ASSUME NEW a \in Seq(Ev), NEW b \in Seq(Ev), NEW c \in Seq(Ev)
  PROVE  /\ (a \o b) \o c = <<>> => a = <<>> /\ b = <<>> /\ c = <<>>
         /\ (a \o b) \o c = a => b = <<>> /\ c = <<>>
         /\ (a \o <<>>) \o <<>> = a
<1>1. a \o b \in Seq(Ev) /\ Len(a \o b) = Len(a) + Len(b)
  BY ConcatProperties
<1>2. /\ Len(a) \in Nat /\ Len(b) \in Nat /\ Len(c) \in Nat
      /\ Len((a \o b) \o c) = Len(a) + Len(b) + Len(c)
  BY <1>1, ConcatProperties, LenProperties
<1>3. /\ Len(a) = 0 <=> a = <<>>
      /\ Len(b) = 0 <=> b = <<>>
      /\ Len(c) = 0 <=> c = <<>>
  BY EmptySeq
<1>4. Len(<<>>) = 0 /\ a \o <<>> = a
  BY EmptySeq, ConcatEmptySeq
<1>5. QED
  BY <1>2, <1>3, <1>4

\* The module cannot be loaded or called.
LEMMA LoadFlows == ASSUME Flow, M!load PROVE Flow'
<1>1. /\ provider = "load" /\ forwarder = "none" /\ pushed = <<>> /\ reader = "reading"
      /\ M!InFlight(inner) = <<>> /\ ~inner.done /\ StreamOK(outer) /\ ~outer.done
      /\ handled \in Seq(Ev) /\ pushed \in Seq(Ev) /\ StreamOK(inner)
      /\ UNCHANGED <<inner, reader, handled>>
  BY DEF Flow, FlowTypes, Forwarded, Heard, M!load
<1>2. M!InFlight(outer) = <<>> /\ handled = <<>>
  <2> DEFINE b == M!InFlight(outer)
             c == M!InFlight(inner)
  <2>1. b \in Seq(Ev) /\ c \in Seq(Ev)
    BY <1>1, FlightType
  <2>2. (handled \o b) \o c = <<>>
    BY <1>1 DEF Flow, M!NothingLost
  <2> HIDE DEF b, c
  <2>3. handled = <<>> /\ b = <<>>
    BY <1>1, <2>1, <2>2, BothEmpty
  <2>4. QED
    BY <2>3 DEF b
<1>3. CASE provider' = "create" /\ forwarder' = "reading" /\ UNCHANGED <<outer, pushed>>
  <2>1. FlowTypes' /\ Heard'
    BY <1>1, <1>3 DEF Flow, FlowTypes, Heard
  <2>2. Forwarded'
    BY <1>1, <1>3 DEF Flow, Forwarded, M!InFlight
  <2>3. M!NothingLost'
    BY <1>1, <1>3 DEF Flow, M!NothingLost, M!InFlight
  <2>4. Completes(pushed', FALSE)
    BY <1>1, <1>3 DEF Flow
  <2>5. QED
    BY <1>3, <2>1, <2>2, <2>3, <2>4 DEF Flow
<1>4. CASE /\ provider' = "over" /\ outer' = M!end(M!push(outer, M!Final("error")))
           /\ pushed' = <<M!Final("error")>> /\ UNCHANGED forwarder
  <2> DEFINE e == M!Final("error")
  <2>1. e \in Ev /\ M!isComplete(e) /\ e.type = "error"
    BY EventTypes
  <2> HIDE DEF e
  <2>2. /\ StreamOK(M!push(outer, e)) /\ M!InFlight(M!push(outer, e)) = Append(<<>>, e)
        /\ M!push(outer, e).result = e.type
    BY <1>1, <1>2, <2>1, Pushed
  <2>3. /\ StreamOK(outer') /\ M!InFlight(outer') = <<e>> /\ outer'.done /\ outer'.result = e.type
    <3>1. Append(<<>>, e) = <<e>>
      OBVIOUS
    <3>2. outer' = M!end(M!push(outer, e))
      BY <1>4 DEF e
    <3>3. QED
      BY <2>2, <3>1, <3>2, Ended
  <2>4. pushed' = <<e>> /\ pushed' \in Seq(Ev) /\ Len(pushed') = 1 /\ pushed'[1] = e /\ pushed' # <<>>
        /\ DOMAIN pushed' = {1}
    <3>1. pushed' = <<e>>
      BY <1>4 DEF e
    <3>2. QED
      BY <2>1, <3>1
  <2>5. Completes(pushed', TRUE)
    BY <2>1, <2>4 DEF Completes
  <2>6. FlowTypes' /\ Heard'
    BY <1>1, <1>4, <2>3, <2>4 DEF Flow, FlowTypes, Heard
  <2>7. Forwarded'
    BY <1>1, <1>4, <2>3, <2>4 DEF Flow, Forwarded, M!InFlight
  <2>8. M!NothingLost'
    <3>1. (<<>> \o <<e>>) \o <<>> = <<e>>
      <4>1. <<>> \o <<e>> = <<e>> /\ <<e>> \o <<>> = <<e>>
        BY <2>1
      <4>2. QED
        BY <4>1
    <3>2. handled' = <<>> /\ M!InFlight(outer)' = <<e>> /\ M!InFlight(inner)' = <<>>
      BY <1>1, <1>2, <2>3 DEF M!InFlight
    <3>3. QED
      BY <2>4, <3>1, <3>2 DEF M!NothingLost
  <2>9. QED
    BY <1>4, <2>4, <2>5, <2>6, <2>7, <2>8 DEF Flow
<1>5. QED
  BY <1>3, <1>4 DEF M!load

\* The provider's steps.
LEMMA ProviderFlows ==
  ASSUME Flow, blocks \in Seq(Block), M!create \/ M!delta \/ M!finish \/ M!fail
  PROVE  Flow'
<1>0. StreamOK(inner) /\ pushed \in Seq(Ev)
  BY DEF Flow, FlowTypes
<1>1. CASE M!create
  <2> DEFINE e == M!Event("start", "message", 0)
  <2>1. e \in Ev /\ e.type = "start"
    BY EventTypes
  <2> HIDE DEF e
  <2>2. <<e>> \in Seq(Ev) /\ \A i \in DOMAIN <<e>> : ~M!isComplete(<<e>>[i])
    BY <2>1 DEF M!isComplete
  <2>3. M!Emit(<<e>>) /\ provider = "create" /\ provider' = "reading"
        /\ UNCHANGED <<outer, forwarder, reader, handled>>
    BY <1>1 DEF M!create, e
  <2>4. QED
    BY <2>2, <2>3, EmitFlows
<1>2. CASE M!delta
  <2>1. PICK p \in M!NextParts : M!Emit(M!Events(blocks, p))
    BY <1>2 DEF M!delta
  <2>2. p \in PartType
    BY PartsAreParts
  <2>3. /\ M!Events(blocks, p) \in Seq(Ev)
        /\ \A i \in DOMAIN M!Events(blocks, p) : ~M!isComplete(M!Events(blocks, p)[i])
    <3>1. CASE M!startsBlock(blocks, p)
      BY <1>0, <2>2, <3>1, EventsAnew
    <3>2. CASE ~M!startsBlock(blocks, p)
      BY <1>0, <2>2, <3>2, EventsOn
    <3>3. QED
      BY <3>1, <3>2
  <2>4. provider = "reading" /\ UNCHANGED <<provider, outer, forwarder, reader, handled>>
    BY <1>2 DEF M!delta
  <2>5. QED
    BY <2>1, <2>3, <2>4, EmitFlows
<1>3. CASE M!finish
  <2> DEFINE es == M!finishCurrentBlock(blocks)
  <2>1. es \in Seq(Ev) /\ \A i \in DOMAIN es : ~M!isComplete(es[i])
    <3>1. CASE blocks = <<>>
      <4>1. es = <<>> /\ <<>> \in Seq(Ev) /\ DOMAIN <<>> = {}
        BY <3>1, EmptySeq DEF M!finishCurrentBlock
      <4>2. QED
        BY <4>1
    <3>2. CASE blocks # <<>>
      <4> DEFINE x == M!Event("end", blocks[Len(blocks)].kind, Len(blocks))
      <4>1. es = <<x>> /\ x \in Ev /\ ~M!isComplete(x)
        BY <3>2, LastBlock
      <4> HIDE DEF x
      <4>2. <<x>> \in Seq(Ev) /\ \A i \in DOMAIN <<x>> : ~M!isComplete(<<x>>[i])
        BY <4>1
      <4>3. QED
        BY <4>1, <4>2
    <3>3. QED
      BY <3>1, <3>2
  <2>2. PICK t \in {"error", "done"} :
          /\ inner' = M!end(M!PushAll(inner, Append(es, M!Final(t))))
          /\ pushed' = pushed \o Append(es, M!Final(t))
    BY <1>3 DEF M!finish
  <2>3. provider = "reading" /\ provider' = "over" /\ UNCHANGED <<outer, forwarder, reader, handled>>
    BY <1>3 DEF M!finish
  <2> HIDE DEF es
  <2> DEFINE e == M!Final(t)
  <2>4. e \in Ev /\ M!isComplete(e)
    BY EventTypes
  <2> HIDE DEF e
  <2>5. M!PushAll(inner, Append(es, e)) = M!push(M!PushAll(inner, es), e)
        /\ pushed \o Append(es, e) = Append(pushed \o es, e)
    <3>1. pushed \o Append(es, e) = Append(pushed \o es, e)
      BY <1>0, <2>1, <2>4
    <3>2. QED
      BY <2>1, <2>4, <3>1, PushAllAppend
  <2>6. QED
    BY <2>1, <2>2, <2>3, <2>4, <2>5, FinishFlows DEF e
<1>4. CASE M!fail
  <2> DEFINE e == M!Final("error")
  <2>1. e \in Ev /\ M!isComplete(e)
    BY EventTypes
  <2>2. /\ provider \in {"create", "reading"} /\ provider' = "over"
        /\ inner' = M!end(M!push(inner, e)) /\ pushed' = Append(pushed, e)
        /\ UNCHANGED <<outer, forwarder, reader, handled>>
    BY <1>4 DEF M!fail
  <2> HIDE DEF e
  <2>3. M!PushAll(inner, <<>>) = inner /\ pushed \o <<>> = pushed /\ <<>> \in Seq(Ev) /\ DOMAIN <<>> = {}
    BY <1>0, PushAllEmpty, ConcatEmptySeq, EmptySeq
  <2>4. QED
    BY <2>1, <2>2, <2>3, FinishFlows
<1>5. QED
  BY <1>1, <1>2, <1>3, <1>4

\* The forwarder's step.
LEMMA ForwardFlows == ASSUME Flow, M!forwardStream PROVE Flow'
<1>1. /\ StreamOK(inner) /\ StreamOK(outer) /\ pushed \in Seq(Ev) /\ handled \in Seq(Ev)
      /\ forwarder = "reading" /\ provider # "load"
      /\ UNCHANGED <<provider, reader, pushed, handled>>
      /\ Completes(pushed, provider = "over")
  BY DEF Flow, FlowTypes, Forwarded, M!forwardStream
<1> DEFINE b == M!InFlight(outer)
           c == M!InFlight(inner)
<1>2. b \in Seq(Ev) /\ c \in Seq(Ev) /\ handled \o b \in Seq(Ev) /\ (handled \o b) \o c = pushed
  <2>1. b \in Seq(Ev) /\ c \in Seq(Ev)
    BY <1>1, FlightType
  <2>2. handled \o b \in Seq(Ev)
    BY <1>1, <2>1, ConcatProperties
  <2>3. (handled \o b) \o c = pushed
    BY DEF Flow, M!NothingLost
  <2>4. QED
    BY <2>1, <2>2, <2>3
<1>3. CASE M!HasNext(inner) /\ outer' = M!push(outer, Head(c)) /\ inner' = M!Taken(inner)
           /\ UNCHANGED forwarder
  <2>1. StreamOK(inner') /\ M!InFlight(inner') = Tail(c) /\ inner'.done = inner.done /\ c # <<>>
    BY <1>1, <1>3, TakenOne
  <2>2. ~outer.done
    BY <2>1 DEF Flow, Forwarded
  <2> HIDE DEF b, c
  <2> DEFINE x == Head(c)
             over == provider = "over"
             a == handled \o b
  <2>3. over \in BOOLEAN /\ Completes(pushed, over) /\ a \in Seq(Ev) /\ a \o c = pushed
    BY <1>1, <1>2
  <2> HIDE DEF over, a
  <2>4. /\ x \in Ev /\ Append(a, x) \o Tail(c) = pushed
        /\ M!isComplete(x) <=> over /\ Tail(c) = <<>>
        /\ Tail(c) = <<>> => x = pushed[Len(pushed)]
    <3>1. /\ Head(c) \in Ev /\ Append(a, Head(c)) \o Tail(c) = pushed
          /\ Tail(c) = <<>> => Head(c) = pushed[Len(pushed)]
          /\ \E i \in DOMAIN pushed : pushed[i] = Head(c) /\ (i = Len(pushed) <=> Tail(c) = <<>>)
      <4>1. a \in Seq(Ev) /\ c \in Seq(Ev) /\ c # <<>> /\ pushed \in Seq(Ev) /\ a \o c = pushed
        BY <1>1, <1>2, <2>1, <2>3
      <4>2. QED
        BY <4>1, NextOf, Zenon
    <3> HIDE DEF x
    <3>2. x = Head(c)
      BY DEF x
    <3>3. PICK i \in DOMAIN pushed : pushed[i] = x /\ (i = Len(pushed) <=> Tail(c) = <<>>)
      BY <3>1, <3>2
    <3>4. M!isComplete(x) <=> over /\ Tail(c) = <<>>
      BY <2>3, <3>3 DEF Completes
    <3>5. QED
      BY <3>1, <3>2, <3>4
  <2>5. outer' = M!push(outer, x)
    BY <1>3
  <2> HIDE DEF x
  <2>6. /\ StreamOK(outer') /\ M!InFlight(outer') = Append(b, x)
        /\ outer'.done = M!isComplete(x) /\ outer'.result = IF M!isComplete(x) THEN x.type ELSE outer.result
    BY <1>1, <2>2, <2>4, <2>5, Pushed DEF b
  <2>7. M!NothingLost'
    <3>1. handled \o Append(b, x) = Append(a, x)
      BY <1>1, <1>2, <2>4 DEF a
    <3>2. (handled \o Append(b, x)) \o Tail(c) = pushed
      BY <2>4, <3>1
    <3>3. QED
      BY <1>1, <2>1, <2>6, <3>2 DEF M!NothingLost, M!InFlight
  <2>8. FlowTypes' /\ Heard'
    BY <1>1, <1>3, <2>1, <2>6 DEF Flow, FlowTypes, Heard
  <2>9. Forwarded'
    BY <1>1, <1>3, <2>1, <2>4, <2>6 DEF Flow, Forwarded, M!InFlight, over
  <2>10. QED
    BY <1>1, <2>7, <2>8, <2>9 DEF Flow
<1>4. CASE M!AtEnd(inner) /\ outer' = M!end(outer) /\ forwarder' = "over" /\ UNCHANGED inner
  <2>1. StreamOK(outer') /\ M!InFlight(outer') = b /\ outer'.done = TRUE /\ outer'.result = outer.result
    BY <1>1, <1>4, Ended
  <2>2. outer.done
    BY <1>1, <1>4 DEF Flow, Forwarded, M!AtEnd
  <2>3. M!NothingLost'
    BY <1>1, <1>2, <1>4, <2>1 DEF M!NothingLost, M!InFlight
  <2>4. FlowTypes' /\ Heard'
    BY <1>1, <1>4, <2>1 DEF Flow, FlowTypes, Heard
  <2>5. Forwarded'
    BY <1>1, <1>4, <2>1, <2>2 DEF Flow, Forwarded, M!InFlight
  <2>6. QED
    BY <1>1, <2>3, <2>4, <2>5 DEF Flow
<1>5. CASE M!MustWait(inner) /\ inner' = M!Waiting(inner) /\ UNCHANGED <<outer, forwarder>>
  <2>1. StreamOK(inner') /\ M!InFlight(inner') = c /\ inner'.done = inner.done
    BY <1>1, <1>5, Waits
  <2>2. M!NothingLost'
    BY <1>1, <1>2, <1>5, <2>1 DEF M!NothingLost, M!InFlight
  <2>3. FlowTypes' /\ Heard'
    BY <1>1, <1>5, <2>1 DEF Flow, FlowTypes, Heard
  <2>4. Forwarded'
    BY <1>1, <1>5, <2>1 DEF Flow, Forwarded, M!InFlight
  <2>5. QED
    BY <1>1, <2>2, <2>3, <2>4 DEF Flow
<1>6. QED
  BY <1>3, <1>4, <1>5 DEF M!forwardStream

\* The agent loop's step.
LEMMA LoopFlows == ASSUME Flow, M!streamAssistantResponse PROVE Flow'
<1>1. /\ StreamOK(inner) /\ StreamOK(outer) /\ pushed \in Seq(Ev) /\ handled \in Seq(Ev)
      /\ reader = "reading"
      /\ UNCHANGED <<provider, inner, forwarder, pushed>>
      /\ Completes(pushed, provider = "over")
      /\ \A i \in DOMAIN handled : ~M!isComplete(handled[i])
  BY DEF Flow, FlowTypes, Heard, M!streamAssistantResponse
<1> DEFINE b == M!InFlight(outer)
           d == M!InFlight(inner)
<1>2. b \in Seq(Ev) /\ d \in Seq(Ev) /\ (handled \o b) \o d = pushed
  BY <1>1, FlightType DEF Flow, M!NothingLost
<1>3. CASE /\ M!HasNext(outer) /\ outer' = M!Taken(outer) /\ handled' = Append(handled, Head(b))
           /\ reader' = IF M!isComplete(Head(b)) THEN "returned" ELSE reader
  <2>1. StreamOK(outer') /\ M!InFlight(outer') = Tail(b) /\ outer'.done = outer.done /\ b # <<>>
        /\ outer'.result = outer.result
    BY <1>1, <1>3, TakenOne
  <2> HIDE DEF b, d
  <2> DEFINE c == b \o d
             x == Head(b)
             over == provider = "over"
  <2>2. c \in Seq(Ev) /\ c # <<>> /\ Head(c) = x /\ Tail(c) = Tail(b) \o d
    BY <1>2, <2>1, TailOf
  <2>3. handled \o c = pushed /\ over \in BOOLEAN /\ Completes(pushed, over)
    BY <1>1, <1>2, Associates
  <2> HIDE DEF c, over, x
  <2>4. /\ x \in Ev /\ Tail(c) \in Seq(Ev) /\ Append(handled, x) \o Tail(c) = pushed
        /\ M!isComplete(x) <=> over /\ Tail(c) = <<>>
        /\ Tail(c) = <<>> => Append(handled, x) = pushed
    <3>1. /\ Head(c) \in Ev /\ Tail(c) \in Seq(Ev) /\ Append(handled, Head(c)) \o Tail(c) = pushed
          /\ Tail(c) = <<>> => Append(handled, Head(c)) = pushed
          /\ \E i \in DOMAIN pushed : pushed[i] = Head(c) /\ (i = Len(pushed) <=> Tail(c) = <<>>)
      <4>1. handled \in Seq(Ev) /\ c \in Seq(Ev) /\ c # <<>> /\ pushed \in Seq(Ev)
            /\ handled \o c = pushed
        BY <1>1, <2>2, <2>3
      <4>2. QED
        BY <4>1, NextOf, Zenon
    <3>2. PICK i \in DOMAIN pushed : pushed[i] = x /\ (i = Len(pushed) <=> Tail(c) = <<>>)
      BY <2>2, <3>1
    <3>3. M!isComplete(x) <=> over /\ Tail(c) = <<>>
      BY <2>3, <3>2 DEF Completes
    <3>4. QED
      BY <2>2, <3>1, <3>3
  <2>5. handled' = Append(handled, x) /\ handled' \in Seq(Ev)
        /\ reader' = IF M!isComplete(x) THEN "returned" ELSE reader
    <3>1. handled' = Append(handled, x) /\ reader' = IF M!isComplete(x) THEN "returned" ELSE reader
      BY <1>3 DEF x
    <3>2. QED
      BY <1>1, <2>4, <3>1, AppendProperties
  <2>6. (Append(handled, x) \o Tail(b)) \o d = pushed
    <3>1. Tail(b) \in Seq(Ev) /\ Append(handled, x) \in Seq(Ev)
      BY <1>1, <1>2, <2>1, <2>4
    <3>2. Append(handled, x) \o (Tail(b) \o d) = (Append(handled, x) \o Tail(b)) \o d
      BY <1>2, <3>1, Associates
    <3>3. QED
      BY <2>2, <2>4, <3>2
  <2>7. M!NothingLost'
    BY <1>1, <2>1, <2>5, <2>6 DEF M!NothingLost, M!InFlight, d
  <2>8. Heard'
    <3>1. CASE M!isComplete(x)
      BY <1>1, <2>4, <2>5, <3>1 DEF Heard, over
    <3>2. CASE ~M!isComplete(x)
      <4>1. \A i \in DOMAIN handled' : ~M!isComplete(handled'[i])
        <5>1. /\ Len(handled) \in Nat /\ DOMAIN handled = 1 .. Len(handled)
              /\ DOMAIN handled' = 1 .. Len(handled) + 1 /\ handled'[Len(handled) + 1] = x
              /\ \A i \in 1 .. Len(handled) : handled'[i] = handled[i]
          BY <1>1, <2>4, <2>5
        <5>2. QED
          BY <1>1, <3>2, <5>1
      <4>2. QED
        BY <1>1, <2>5, <3>2, <4>1 DEF Heard
    <3>3. QED
      BY <3>1, <3>2
  <2>9. FlowTypes'
    BY <1>1, <2>1, <2>5 DEF Flow, FlowTypes
  <2>10. Forwarded'
    BY <1>1, <2>1 DEF Flow, Forwarded, M!InFlight
  <2>11. QED
    BY <1>1, <2>7, <2>8, <2>9, <2>10 DEF Flow
<1>4. CASE M!MustWait(outer) /\ outer' = M!Waiting(outer) /\ UNCHANGED <<reader, handled>>
  <2>1. StreamOK(outer') /\ M!InFlight(outer') = b /\ outer'.done = outer.done
        /\ outer'.result = outer.result
    BY <1>1, <1>4, Waits
  <2>2. M!NothingLost'
    BY <1>1, <1>2, <1>4, <2>1 DEF M!NothingLost, M!InFlight
  <2>3. FlowTypes' /\ Heard'
    BY <1>1, <1>4, <2>1 DEF Flow, FlowTypes, Heard
  <2>4. Forwarded'
    BY <1>1, <1>4, <2>1 DEF Flow, Forwarded, M!InFlight
  <2>5. QED
    BY <1>1, <2>2, <2>3, <2>4 DEF Flow
<1>5. QED
  BY <1>3, <1>4 DEF M!streamAssistantResponse

LEMMA FlowStep ==
  ASSUME Flow, blocks \in Seq(Block), [M!Next]_(M!vars)
  PROVE  Flow'
<1>1. CASE M!finishReason \/ M!abort \/ UNCHANGED M!vars
  <2>1. UNCHANGED <<provider, inner, outer, forwarder, reader, pushed, handled>>
    BY <1>1 DEF M!finishReason, M!abort, M!vars
  <2>2. QED
    BY <2>1 DEF Flow, FlowTypes, Forwarded, Heard, M!NothingLost, M!InFlight, Completes
<1>2. QED
  BY <1>1, LoadFlows, ProviderFlows, ForwardFlows, LoopFlows DEF M!Next

LEMMA FlowInit == ASSUME M!Init PROVE Flow
<1>1. StreamOK(M!EmptyStream) /\ M!InFlight(M!EmptyStream) = <<>> /\ ~M!EmptyStream.done
  <2>1. <<>> \in Seq(Ev) /\ Len(<<>>) = 0 /\ <<>> \o <<>> = <<>>
    BY EmptySeq, ConcatEmptySeq
  <2>2. QED
    BY <2>1 DEF StreamOK, Streams, M!EmptyStream, M!Unresolved, M!InFlight
<1>2. /\ provider = "load" /\ forwarder = "none" /\ reader = "reading" /\ pushed = <<>>
      /\ handled = <<>> /\ inner = M!EmptyStream /\ outer = M!EmptyStream
  BY DEF M!Init
<1>3. <<>> \in Seq(Ev) /\ DOMAIN <<>> = {} /\ (<<>> \o <<>>) \o <<>> = <<>>
  BY EmptySeq, ConcatEmptySeq
<1>4. FlowTypes /\ Forwarded /\ Heard /\ M!NothingLost
  BY <1>1, <1>2, <1>3 DEF FlowTypes, Forwarded, Heard, M!NothingLost
<1>5. QED
  BY <1>2, <1>3, <1>4 DEF Flow, Completes

LEMMA FlowDelivers == ASSUME Flow PROVE M!NothingLost /\ M!NeverStuck
<1>1. /\ StreamOK(inner) /\ StreamOK(outer) /\ pushed \in Seq(Ev) /\ handled \in Seq(Ev)
      /\ forwarder \in {"none", "reading", "over"} /\ M!InFlight(inner) \in Seq(Ev)
      /\ M!InFlight(outer) \in Seq(Ev) /\ Completes(pushed, provider = "over")
      /\ provider = "over" => pushed # <<>>
      /\ (handled \o M!InFlight(outer)) \o M!InFlight(inner) = pushed
  BY FlightType DEF Flow, FlowTypes, M!NothingLost
<1>2. outer.waiter => \/ provider # "over"
                      \/ forwarder = "reading" /\ (M!HasNext(inner) \/ M!AtEnd(inner))
  BY <1>1 DEF Flow, Forwarded, StreamOK, M!HasNext
<1>3. provider = "over" => M!isComplete(pushed[Len(pushed)]) /\ Len(pushed) \in DOMAIN pushed
  <2>1. provider = "over" => Len(pushed) \in DOMAIN pushed
    BY <1>1, EmptySeq
  <2>2. QED
    BY <1>1, <2>1 DEF Completes
<1>4. reader = "reading" => ~M!AtEnd(outer)
  <2>1. SUFFICES ASSUME reader = "reading", M!AtEnd(outer) PROVE FALSE
    OBVIOUS
  <2>2. provider = "over" /\ M!InFlight(inner) = <<>> /\ M!InFlight(outer) = <<>>
    BY <2>1 DEF Flow, Forwarded, M!AtEnd
  <2>3. handled = pushed
    BY <1>1, <2>2, BothEmpty
  <2>4. QED
    BY <1>3, <2>1, <2>2, <2>3 DEF Flow, Heard
<1>5. reader = "returned" => handled = pushed /\ outer.result = M!Last(handled).type
  <2>1. SUFFICES ASSUME reader = "returned"
                 PROVE  handled = pushed /\ outer.result = M!Last(handled).type
    OBVIOUS
  <2>2. handled = pushed /\ provider = "over"
    BY <2>1 DEF Flow, Heard
  <2>3. M!InFlight(inner) = <<>>
    <3> DEFINE b == M!InFlight(outer)
               c == M!InFlight(inner)
    <3>1. b \in Seq(Ev) /\ c \in Seq(Ev) /\ (handled \o b) \o c = handled
      BY <1>1, <2>2
    <3> HIDE DEF b, c
    <3>2. c = <<>>
      BY <1>1, <3>1, BothEmpty
    <3>3. QED
      BY <3>2 DEF c
  <2>4. outer.done /\ outer.result = pushed[Len(pushed)].type
    BY <2>2, <2>3 DEF Flow, Forwarded
  <2>5. QED
    BY <2>2, <2>4 DEF M!Last
<1>6. QED
  BY <1>2, <1>4, <1>5 DEF Flow, M!NeverStuck

-----------------------------------------------------------------------------
(***************************************************************************)
(* ModelStream, the events of each block: a start, a delta for each of its *)
(* parts and, once it is closed, an end.  The blocks below upto are closed.*)
(***************************************************************************)
Ordered(p, l) ==
  /\ \A i \in DOMAIN p : p[i].at <= l
  /\ \A i, j \in DOMAIN p : i < j /\ p[j].at > 0 => p[i].at <= p[j].at

Shape(es, b, c) ==
  /\ es \in Seq(Ev) /\ Len(es) = Len(b.parts) + c
  /\ \A i \in 1 .. Len(es) :
       /\ es[i].kind = b.kind
       /\ es[i].type = IF i = 1 THEN "start"
                       ELSE IF i = Len(b.parts) + 2 THEN "end" ELSE "delta"

Answer(p, bs, upto) ==
  /\ p \in Seq(Ev) /\ bs \in Seq(Block) /\ upto \in {Len(bs), Len(bs) + 1}
  /\ Ordered(p, Len(bs))
  /\ \A b \in 1 .. Len(bs) :
       Shape(Only(p, M!EventsAt(b)), bs[b], IF b < upto THEN 2 ELSE 1)

LEMMA StreamOnly == \A s, T : M!Only(s, T) = Only(s, T)
BY DEF M!Only, Only

\* An event of a block is one of the events at this block and no other.
LEMMA OfBlocks ==
  /\ \A t \in {"start", "delta", "end"}, k \in Kinds, n \in Nat :
       /\ M!Event(t, k, n) \in Ev /\ M!Event(t, k, n).type = t
       /\ M!Event(t, k, n).kind = k /\ M!Event(t, k, n).at = n
       /\ \A b \in Nat : M!Event(t, k, n) \in M!EventsAt(b) <=> b = n
  /\ \A e, b : e \in M!EventsAt(b) => e.at = b
BY DEF M!Event, M!EventsAt, Ev, Kinds

LEMMA ShapeStart ==
  ASSUME NEW b \in Block, b.parts = <<>>, NEW e \in Ev, e.type = "start", e.kind = b.kind
  PROVE  Shape(Append(<<>>, e), b, 1)
<1>1. Append(<<>>, e) = <<e>> /\ <<e>> \in Seq(Ev) /\ Len(<<e>>) = 1 /\ <<e>>[1] = e /\ Len(b.parts) = 0
  BY EmptySeq
<1>2. QED
  BY <1>1 DEF Shape

LEMMA ShapeDelta ==
  ASSUME NEW b \in Block, NEW es, Shape(es, b, 1), NEW c \in Block, c.kind = b.kind,
         Len(c.parts) = Len(b.parts) + 1, NEW e \in Ev, e.type = "delta", e.kind = b.kind
  PROVE  Shape(Append(es, e), c, 1)
<1> DEFINE n == Len(b.parts)
           r == Append(es, e)
<1>1. n \in Nat /\ es \in Seq(Ev) /\ Len(es) = n + 1 /\ Len(c.parts) = n + 1
  BY DEF Shape, Block
<1>2. /\ \A i \in 1 .. Len(es) : /\ es[i].kind = b.kind
                                /\ es[i].type = IF i = 1 THEN "start" ELSE IF i = n + 2 THEN "end" ELSE "delta"
  BY DEF Shape
<1> HIDE DEF n
<1>3. /\ r \in Seq(Ev) /\ Len(r) = n + 2 /\ r[n + 2] = e
      /\ \A i \in 1 .. n + 1 : r[i] = es[i]
  BY <1>1
<1> HIDE DEF r
<1>4. ASSUME NEW i \in 1 .. Len(r)
      PROVE  /\ r[i].kind = b.kind
             /\ r[i].type = IF i = 1 THEN "start" ELSE IF i = n + 3 THEN "end" ELSE "delta"
  <2>1. CASE i = n + 2
    BY <1>1, <1>3, <2>1
  <2>2. CASE i # n + 2
    <3>1. i \in 1 .. n + 1 /\ i # n + 3
      BY <1>1, <1>3, <2>2
    <3>2. r[i] = es[i] /\ i \in 1 .. Len(es)
      BY <1>1, <1>3, <3>1
    <3>3. QED
      BY <1>1, <1>2, <3>1, <3>2
  <2>3. QED
    BY <2>1, <2>2
<1>5. Len(r) = Len(c.parts) + 1 /\ n + 3 = Len(c.parts) + 2
  BY <1>1, <1>3
<1>6. QED
  BY <1>3, <1>4, <1>5 DEF Shape, r

LEMMA ShapeEnd ==
  ASSUME NEW b \in Block, NEW es, Shape(es, b, 1), NEW e \in Ev, e.type = "end", e.kind = b.kind
  PROVE  Shape(Append(es, e), b, 2)
<1> DEFINE n == Len(b.parts)
           r == Append(es, e)
<1>1. n \in Nat /\ es \in Seq(Ev) /\ Len(es) = n + 1
  BY DEF Shape, Block
<1>2. /\ \A i \in 1 .. Len(es) : /\ es[i].kind = b.kind
                                /\ es[i].type = IF i = 1 THEN "start" ELSE IF i = n + 2 THEN "end" ELSE "delta"
  BY DEF Shape
<1> HIDE DEF n
<1>3. /\ r \in Seq(Ev) /\ Len(r) = n + 2 /\ r[n + 2] = e
      /\ \A i \in 1 .. n + 1 : r[i] = es[i]
  BY <1>1
<1> HIDE DEF r
<1>4. ASSUME NEW i \in 1 .. Len(r)
      PROVE  /\ r[i].kind = b.kind
             /\ r[i].type = IF i = 1 THEN "start" ELSE IF i = n + 2 THEN "end" ELSE "delta"
  <2>1. CASE i = n + 2
    BY <1>1, <1>3, <2>1
  <2>2. CASE i # n + 2
    <3>1. i \in 1 .. n + 1
      BY <1>1, <1>3, <2>2
    <3>2. r[i] = es[i] /\ i \in 1 .. Len(es)
      BY <1>1, <1>3, <3>1
    <3>3. QED
      BY <1>1, <1>2, <3>1, <3>2
  <2>3. QED
    BY <2>1, <2>2
<1>5. QED
  BY <1>3, <1>4 DEF Shape, r, n

LEMMA OrderedMore ==
  ASSUME NEW p \in Seq(Ev), NEW l \in Nat, NEW m \in Nat, l <= m, Ordered(p, l),
         NEW e \in Ev, e.at = 0 \/ e.at = m
  PROVE  Ordered(Append(p, e), m)
<1>1. /\ Len(p) \in Nat /\ DOMAIN p = 1 .. Len(p) /\ DOMAIN Append(p, e) = 1 .. Len(p) + 1
      /\ Append(p, e)[Len(p) + 1] = e /\ \A i \in 1 .. Len(p) : Append(p, e)[i] = p[i]
  OBVIOUS
<1>2. \A i \in 1 .. Len(p) : p[i].at \in Nat /\ p[i].at <= l
  <2>1. \A i \in 1 .. Len(p) : p[i] \in Ev
    BY ElementOfSeq
  <2>2. \A x \in Ev : x.at \in Nat
    BY DEF Ev
  <2>3. QED
    BY <1>1, <2>1, <2>2 DEF Ordered
<1>3. \A i, j \in 1 .. Len(p) : i < j /\ p[j].at > 0 => p[i].at <= p[j].at
  BY <1>1 DEF Ordered
<1> DEFINE r == Append(p, e)
<1>4. DOMAIN r = 1 .. Len(p) + 1 /\ r[Len(p) + 1] = e /\ \A i \in 1 .. Len(p) : r[i] = p[i]
  BY <1>1
<1> HIDE DEF r
<1>5. ASSUME NEW i \in DOMAIN r PROVE r[i].at <= m
  <2>1. CASE i = Len(p) + 1
    BY <1>4, <2>1
  <2>2. CASE i # Len(p) + 1
    <3>1. i \in 1 .. Len(p) /\ r[i] = p[i]
      BY <1>1, <1>4, <2>2
    <3>2. QED
      BY <1>2, <3>1
  <2>3. QED
    BY <2>1, <2>2
<1>6. ASSUME NEW i \in DOMAIN r, NEW j \in DOMAIN r, i < j, r[j].at > 0 PROVE r[i].at <= r[j].at
  <2>1. i \in 1 .. Len(p) /\ r[i] = p[i]
    BY <1>1, <1>4, <1>6
  <2>2. CASE j = Len(p) + 1
    <3>1. r[j].at = m
      BY <1>4, <1>6, <2>2
    <3>2. QED
      BY <1>2, <2>1, <3>1
  <2>3. CASE j # Len(p) + 1
    <3>1. j \in 1 .. Len(p) /\ r[j] = p[j]
      BY <1>1, <1>4, <2>3
    <3>2. QED
      BY <1>3, <1>6, <2>1, <3>1
  <2>4. QED
    BY <2>2, <2>3
<1>7. QED
  BY <1>5, <1>6 DEF Ordered, r

\* No event is at a block that none of a list's events is at.
LEMMA NoneAt ==
  ASSUME NEW p \in Seq(Ev), NEW b \in Nat, \A i \in DOMAIN p : p[i].at # b
  PROVE  Only(p, M!EventsAt(b)) = <<>>
<1> DEFINE T == {e \in Ev : e.at # b}
<1>1. p \in Seq(T)
  <2>1. PICK n \in Nat : p \in [1 .. n -> Ev]
    BY SeqDef
  <2>2. p \in [1 .. n -> T]
    BY <2>1
  <2>3. QED
    BY <2>2, SeqDef
<1>2. T \cap M!EventsAt(b) = {}
  BY OfBlocks
<1> HIDE DEF T
<1>3. QED
  BY <1>1, <1>2, OnlyNone

LEMMA AnswerOther ==
  ASSUME NEW p, NEW bs, NEW u, Answer(p, bs, u), NEW e \in Ev, e.at = 0
  PROVE  Answer(Append(p, e), bs, u)
<1>1. p \in Seq(Ev) /\ bs \in Seq(Block) /\ Len(bs) \in Nat /\ Ordered(p, Len(bs))
  BY DEF Answer
<1>2. Append(p, e) \in Seq(Ev) /\ Ordered(Append(p, e), Len(bs))
  BY <1>1, OrderedMore, AppendProperties
<1>3. ASSUME NEW b \in 1 .. Len(bs)
      PROVE  Only(Append(p, e), M!EventsAt(b)) = Only(p, M!EventsAt(b))
  <2>1. e \notin M!EventsAt(b)
    BY OfBlocks
  <2>2. QED
    BY <1>1, <2>1, OnlyAppend
<1>4. QED
  BY <1>2, <1>3 DEF Answer

LEMMA AnswerEnd ==
  ASSUME NEW p, NEW bs, bs # <<>>, Answer(p, bs, Len(bs)),
         NEW e, e = M!Event("end", bs[Len(bs)].kind, Len(bs))
  PROVE  Answer(Append(p, e), bs, Len(bs) + 1)
<1> DEFINE l == Len(bs)
<1>1. p \in Seq(Ev) /\ bs \in Seq(Block) /\ l \in Nat \ {0} /\ Ordered(p, l)
      /\ bs[l] \in Block /\ bs[l].kind \in Kinds
  BY LastBlock DEF Answer
<1>2. /\ e \in Ev /\ e.type = "end" /\ e.kind = bs[l].kind /\ e.at = l
      /\ \A b \in Nat : e \in M!EventsAt(b) <=> b = l
  BY <1>1, OfBlocks
<1>3. \A b \in 1 .. l : Shape(Only(p, M!EventsAt(b)), bs[b], IF b < l THEN 2 ELSE 1)
  BY DEF Answer
<1> HIDE DEF l
<1>4. Append(p, e) \in Seq(Ev) /\ Ordered(Append(p, e), l)
  BY <1>1, <1>2, OrderedMore, AppendProperties
<1>5. ASSUME NEW b \in 1 .. l
      PROVE  Shape(Only(Append(p, e), M!EventsAt(b)), bs[b], IF b < l + 1 THEN 2 ELSE 1)
  <2>1. CASE b = l
    <3>1. Only(Append(p, e), M!EventsAt(b)) = Append(Only(p, M!EventsAt(b)), e)
      BY <1>1, <1>2, <2>1, OnlyAppend
    <3>2. Shape(Only(p, M!EventsAt(b)), bs[b], 1)
      BY <1>1, <1>3, <2>1
    <3>3. Shape(Append(Only(p, M!EventsAt(b)), e), bs[b], 2)
      BY <1>1, <1>2, <2>1, <3>2, ShapeEnd
    <3>4. (IF b < l + 1 THEN 2 ELSE 1) = 2
      BY <1>1, <2>1
    <3>5. QED
      BY <3>1, <3>3, <3>4
  <2>2. CASE b # l
    <3>1. Only(Append(p, e), M!EventsAt(b)) = Only(p, M!EventsAt(b))
      BY <1>1, <1>2, <2>2, OnlyAppend
    <3>2. b < l /\ b < l + 1
      BY <1>1, <2>2
    <3>3. Shape(Only(p, M!EventsAt(b)), bs[b], 2)
      BY <1>3, <3>2
    <3>4. QED
      BY <3>1, <3>2, <3>3
  <2>3. QED
    BY <2>1, <2>2
<1>6. QED
  BY <1>1, <1>4, <1>5 DEF Answer, l

LEMMA AnswerStart ==
  ASSUME NEW p, NEW bs, NEW u, Answer(p, bs, u), bs = <<>> \/ u = Len(bs) + 1,
         NEW new \in Block, new.parts = <<>>,
         NEW e, e = M!Event("start", new.kind, Len(bs) + 1)
  PROVE  Answer(Append(p, e), Append(bs, new), Len(bs) + 1)
<1> DEFINE l == Len(bs) + 1
           cs == Append(bs, new)
<1>1. /\ p \in Seq(Ev) /\ bs \in Seq(Block) /\ Len(bs) \in Nat /\ Ordered(p, l - 1)
      /\ l \in Nat /\ l - 1 = Len(bs) /\ new.kind \in Kinds
  BY DEF Answer, Block
<1>2. /\ cs \in Seq(Block) /\ Len(cs) = l /\ cs[l] = new /\ \A b \in 1 .. l - 1 : cs[b] = bs[b]
  BY <1>1
<1>3. /\ e \in Ev /\ e.type = "start" /\ e.kind = new.kind /\ e.at = l
      /\ \A b \in Nat : e \in M!EventsAt(b) <=> b = l
  BY <1>1, OfBlocks
<1>4. \A b \in 1 .. l - 1 : Shape(Only(p, M!EventsAt(b)), bs[b], 2)
  <2>1. CASE bs = <<>>
    BY <1>1, <2>1, EmptySeq
  <2>2. CASE u = Len(bs) + 1
    <3>1. \A b \in 1 .. Len(bs) : b < u
      BY <1>1, <2>2
    <3>2. QED
      BY <1>1, <3>1 DEF Answer
  <2>3. QED
    BY <2>1, <2>2
<1>5. Only(p, M!EventsAt(l)) = <<>>
  <2>1. ASSUME NEW i \in DOMAIN p PROVE p[i].at # l
    <3>1. p[i].at <= l - 1
      BY <1>1 DEF Ordered
    <3>2. p[i].at \in Nat
      <4>1. p[i] \in Ev
        BY <1>1
      <4>2. QED
        BY <4>1 DEF Ev
    <3>3. QED
      BY <1>1, <3>1, <3>2
  <2>2. QED
    BY <1>1, <2>1, NoneAt
<1> HIDE DEF l, cs
<1>6. Append(p, e) \in Seq(Ev) /\ Ordered(Append(p, e), l)
  <2>1. l - 1 \in Nat /\ l - 1 <= l
    BY <1>1
  <2>2. QED
    BY <1>1, <1>3, <2>1, OrderedMore, AppendProperties
<1>7. ASSUME NEW b \in 1 .. l
      PROVE  Shape(Only(Append(p, e), M!EventsAt(b)), cs[b], IF b < l THEN 2 ELSE 1)
  <2>1. CASE b = l
    <3>1. Only(Append(p, e), M!EventsAt(b)) = Append(<<>>, e)
      <4>1. Only(Append(p, e), M!EventsAt(l)) = Append(Only(p, M!EventsAt(l)), e)
        BY <1>1, <1>3, OnlyAppend
      <4>2. QED
        BY <1>5, <2>1, <4>1
    <3>2. Shape(Append(<<>>, e), new, 1)
      BY <1>3, ShapeStart
    <3>3. QED
      BY <1>1, <1>2, <2>1, <3>1, <3>2
  <2>2. CASE b # l
    <3>1. b \in 1 .. l - 1 /\ b < l
      BY <1>1, <2>2
    <3>2. Only(Append(p, e), M!EventsAt(b)) = Only(p, M!EventsAt(b))
      BY <1>1, <1>3, <2>2, OnlyAppend
    <3>3. QED
      BY <1>2, <1>4, <3>1, <3>2
  <2>3. QED
    BY <2>1, <2>2
<1>8. QED
  BY <1>2, <1>6, <1>7 DEF Answer, l, cs

LEMMA AnswerDelta ==
  ASSUME NEW p, NEW bs, bs # <<>>, Answer(p, bs, Len(bs)),
         NEW c \in Block, c.kind = bs[Len(bs)].kind, NEW x, c.parts = Append(bs[Len(bs)].parts, x),
         NEW e, e = M!Event("delta", bs[Len(bs)].kind, Len(bs))
  PROVE  Answer(Append(p, e), [bs EXCEPT ![Len(bs)] = c], Len(bs))
<1> DEFINE l == Len(bs)
           cs == [bs EXCEPT ![l] = c]
<1>1. p \in Seq(Ev) /\ bs \in Seq(Block) /\ l \in Nat \ {0} /\ l \in 1 .. Len(bs) /\ Ordered(p, l)
      /\ bs[l] \in Block /\ bs[l].kind \in Kinds /\ Len(bs) = l
  BY LastBlock DEF Answer
<1>2. /\ e \in Ev /\ e.type = "delta" /\ e.kind = bs[l].kind /\ e.at = l
      /\ \A b \in Nat : e \in M!EventsAt(b) <=> b = l
  BY <1>1, OfBlocks
<1>3. \A b \in 1 .. l : Shape(Only(p, M!EventsAt(b)), bs[b], IF b < l THEN 2 ELSE 1)
  BY DEF Answer
<1>4. Len(c.parts) = Len(bs[l].parts) + 1 /\ c.kind = bs[l].kind
  <2>1. bs[l].parts \in Seq(Sources)
    BY <1>1 DEF Block
  <2>2. QED
    BY <2>1
<1> HIDE DEF l
<1>5. /\ cs \in Seq(Block) /\ Len(cs) = l /\ \A b \in 1 .. l : cs[b] = IF b = l THEN c ELSE bs[b]
  BY <1>1, ExceptSeq
<1> HIDE DEF cs
<1>6. Append(p, e) \in Seq(Ev) /\ Ordered(Append(p, e), l)
  BY <1>1, <1>2, OrderedMore, AppendProperties
<1>7. ASSUME NEW b \in 1 .. l
      PROVE  Shape(Only(Append(p, e), M!EventsAt(b)), cs[b], IF b < l THEN 2 ELSE 1)
  <2>1. CASE b = l
    <3>1. Only(Append(p, e), M!EventsAt(b)) = Append(Only(p, M!EventsAt(b)), e)
      BY <1>1, <1>2, <2>1, OnlyAppend
    <3>2. Shape(Only(p, M!EventsAt(b)), bs[b], 1)
      BY <1>1, <1>3, <2>1
    <3>3. Shape(Append(Only(p, M!EventsAt(b)), e), c, 1)
      BY <1>1, <1>2, <1>4, <2>1, <3>2, ShapeDelta
    <3>4. (IF b < l THEN 2 ELSE 1) = 1 /\ cs[b] = c
      BY <1>1, <1>5, <2>1
    <3>5. QED
      BY <3>1, <3>3, <3>4
  <2>2. CASE b # l
    <3>1. Only(Append(p, e), M!EventsAt(b)) = Only(p, M!EventsAt(b))
      BY <1>1, <1>2, <2>2, OnlyAppend
    <3>2. cs[b] = bs[b]
      BY <1>5, <2>2
    <3>3. QED
      BY <1>3, <3>1, <3>2
  <2>3. QED
    BY <2>1, <2>2
<1>8. QED
  BY <1>1, <1>5, <1>6, <1>7 DEF Answer, l, cs

Brackets ==
  \E u : /\ Answer(pushed, blocks, u)
         /\ provider # "over" => u = Len(blocks)
         /\ provider = "over" /\ pushed[Len(pushed)].type = "done" =>
              \A b \in 1 .. Len(blocks) : b < u

LEMMA BracketsInit == ASSUME M!Init PROVE Brackets
<1>1. pushed = <<>> /\ blocks = <<>> /\ provider = "load"
  BY DEF M!Init
<1>2. /\ <<>> \in Seq(Ev) /\ <<>> \in Seq(Block) /\ Len(<<>>) = 0 /\ DOMAIN <<>> = {}
      /\ \A b \in 1 .. 0 : FALSE
  BY EmptySeq
<1>3. Answer(<<>>, <<>>, 0)
  BY <1>2 DEF Answer, Ordered
<1>4. QED
  BY <1>1, <1>2, <1>3 DEF Brackets

\* A delta.
LEMMA AnswerGrows ==
  ASSUME NEW q, NEW bs, Answer(q, bs, Len(bs)), NEW p \in PartType
  PROVE  /\ Answer(q \o M!Events(bs, p), M!Grown(bs, p), Len(M!Grown(bs, p)))
<1>1. q \in Seq(Ev) /\ bs \in Seq(Block) /\ Len(bs) \in Nat
  BY DEF Answer
<1>2. CASE M!startsBlock(bs, p)
  <2> DEFINE n == Len(bs) + 1
             s == M!Event("start", p.kind, n)
             d == M!Event("delta", p.kind, n)
             x == M!Event("end", bs[Len(bs)].kind, Len(bs))
             new == [kind |-> p.kind, id |-> p.id, parts |-> <<p.of>>]
             none == [kind |-> p.kind, id |-> p.id, parts |-> <<>>]
             cs == Append(bs, none)
  <2>0. /\ n = Len(bs) + 1 /\ s = M!Event("start", p.kind, n) /\ d = M!Event("delta", p.kind, n)
        /\ x = M!Event("end", bs[Len(bs)].kind, Len(bs))
        /\ new = [kind |-> p.kind, id |-> p.id, parts |-> <<p.of>>]
        /\ none = [kind |-> p.kind, id |-> p.id, parts |-> <<>>]
    OBVIOUS
  <2> HIDE DEF n, s, d, x, new, none
  <2>1. /\ new \in Block /\ none \in Block
        /\ M!Grown(bs, p) = [cs EXCEPT ![n] = new] /\ Len(M!Grown(bs, p)) = n
    BY <1>1, <1>2, <2>0, GrownAnew
  <2>2. /\ bs = <<>> => q \o M!Events(bs, p) = Append(Append(q, s), d)
        /\ bs # <<>> => q \o M!Events(bs, p) = Append(Append(Append(q, x), s), d)
    BY <1>1, <1>2, <2>0, EventsAnew
  <2>3. /\ new.kind = p.kind /\ none.kind = p.kind /\ none.parts = <<>>
        /\ new.parts = Append(none.parts, p.of)
    <3>1. Append(<<>>, p.of) = <<p.of>>
      BY EmptySeq DEF PartType
    <3>2. QED
      BY <2>0, <3>1
  <2>4. PICK r : Answer(Append(r, s), cs, n) /\ q \o M!Events(bs, p) = Append(Append(r, s), d)
    <3>1. CASE bs = <<>>
      <4>1. Answer(Append(q, s), cs, n)
        <5>1. s = M!Event("start", none.kind, Len(bs) + 1)
          BY <2>0, <2>3
        <5>2. Answer(q, bs, Len(bs)) /\ (bs = <<>> \/ Len(bs) = Len(bs) + 1)
          BY <3>1
        <5>3. Answer(Append(q, s), Append(bs, none), Len(bs) + 1)
          BY <2>1, <2>3, <5>1, <5>2, AnswerStart, Zenon
        <5>4. QED
          BY <2>0, <5>3
      <4>2. QED
        BY <2>2, <3>1, <4>1
    <3>2. CASE bs # <<>>
      <4>1. Answer(Append(q, x), bs, Len(bs) + 1)
        BY <2>0, <3>2, AnswerEnd
      <4>2. Answer(Append(Append(q, x), s), cs, n)
        BY <2>0, <2>1, <2>3, <4>1, AnswerStart
      <4>3. QED
        BY <2>2, <3>2, <4>2
    <3>3. QED
      BY <3>1, <3>2
  <2>5. Len(cs) = n /\ cs[n] = none /\ cs # <<>>
    BY <1>1, <2>0, <2>1
  <2> HIDE DEF cs
  <2>6. d = M!Event("delta", cs[Len(cs)].kind, Len(cs))
    BY <2>0, <2>3, <2>5
  <2>7. Answer(Append(Append(r, s), d), [cs EXCEPT ![Len(cs)] = new], Len(cs))
    <3>1. Answer(Append(r, s), cs, Len(cs))
      BY <2>4, <2>5
    <3>2. new.kind = cs[Len(cs)].kind /\ new.parts = Append(cs[Len(cs)].parts, p.of)
      BY <2>3, <2>5
    <3>3. QED
      BY <2>1, <2>5, <2>6, <3>1, <3>2, AnswerDelta
  <2>8. QED
    BY <2>1, <2>4, <2>5, <2>7
<1>3. CASE ~M!startsBlock(bs, p)
  <2> DEFINE b == [bs[Len(bs)] EXCEPT !.parts = Append(@, p.of)]
             d == M!Event("delta", bs[Len(bs)].kind, Len(bs))
  <2>0. /\ b = [bs[Len(bs)] EXCEPT !.parts = Append(@, p.of)]
        /\ d = M!Event("delta", bs[Len(bs)].kind, Len(bs))
    OBVIOUS
  <2> HIDE DEF b, d
  <2>1. /\ bs # <<>> /\ b \in Block /\ b.parts = Append(bs[Len(bs)].parts, p.of)
        /\ b.kind = bs[Len(bs)].kind
        /\ M!Grown(bs, p) = [bs EXCEPT ![Len(bs)] = b] /\ Len(M!Grown(bs, p)) = Len(bs)
    BY <1>1, <1>3, <2>0, GrownOn
  <2>2. q \o M!Events(bs, p) = Append(q, d)
    BY <1>1, <1>3, <2>0, EventsOn
  <2>3. Answer(Append(q, d), [bs EXCEPT ![Len(bs)] = b], Len(bs))
    BY <2>0, <2>1, AnswerDelta
  <2>4. QED
    BY <2>1, <2>2, <2>3
<1>4. QED
  BY <1>2, <1>3

LEMMA BracketsStep ==
  ASSUME Flow, Flow', Brackets, [M!Next]_(M!vars)
  PROVE  Brackets'
<1>1. PICK u : /\ Answer(pushed, blocks, u)
               /\ provider # "over" => u = Len(blocks)
               /\ provider = "over" /\ pushed[Len(pushed)].type = "done" =>
                    \A b \in 1 .. Len(blocks) : b < u
  BY DEF Brackets
<1>2. blocks \in Seq(Block) /\ pushed \in Seq(Ev)
  BY <1>1 DEF Answer
<1>3. CASE UNCHANGED <<pushed, blocks>> /\ (provider = "over") = (provider' = "over")
  BY <1>1, <1>3 DEF Brackets
<1>4. CASE M!load /\ provider' = "over"
  <2> DEFINE e == M!Final("error")
  <2>1. e \in Ev /\ e.at = 0 /\ e.type = "error"
    BY EventTypes
  <2>2. pushed = <<>> /\ pushed' = <<e>> /\ blocks' = blocks
    BY <1>4 DEF M!load, Flow, Forwarded
  <2> HIDE DEF e
  <2>3. Append(<<>>, e) = <<e>> /\ Len(<<e>>) = 1 /\ <<e>>[1] = e
    BY <2>1
  <2>4. Answer(<<e>>, blocks, u)
    BY <1>1, <2>1, <2>2, <2>3, AnswerOther
  <2>5. QED
    BY <1>4, <2>1, <2>2, <2>3, <2>4 DEF Brackets
<1>5. CASE M!create
  <2> DEFINE e == M!Event("start", "message", 0)
  <2>1. e \in Ev /\ e.at = 0
    BY EventTypes
  <2>2. /\ pushed' = pushed \o <<e>> /\ blocks' = blocks /\ provider # "over" /\ provider' # "over"
    BY <1>5 DEF M!create, M!Emit
  <2> HIDE DEF e
  <2>3. pushed \o <<e>> = Append(pushed, e)
    BY <1>2, <2>1
  <2>4. Answer(Append(pushed, e), blocks, u)
    BY <1>1, <2>1, AnswerOther
  <2>5. QED
    BY <1>1, <2>2, <2>3, <2>4 DEF Brackets
<1>6. CASE M!fail
  <2> DEFINE e == M!Final("error")
  <2>1. e \in Ev /\ e.at = 0 /\ e.type = "error"
    BY EventTypes
  <2>2. pushed' = Append(pushed, e) /\ blocks' = blocks /\ provider' = "over"
    BY <1>6 DEF M!fail
  <2> HIDE DEF e
  <2>3. Answer(Append(pushed, e), blocks, u)
    BY <1>1, <2>1, AnswerOther
  <2>4. Append(pushed, e)[Len(Append(pushed, e))] = e
    BY <1>2, <2>1
  <2>5. QED
    BY <2>1, <2>2, <2>3, <2>4 DEF Brackets
<1>7. CASE M!finish
  <2> DEFINE es == M!finishCurrentBlock(blocks)
  <2>1. PICK t \in {"error", "done"} : pushed' = pushed \o Append(es, M!Final(t))
    BY <1>7 DEF M!finish
  <2>2. u = Len(blocks) /\ blocks' = blocks /\ provider' = "over"
    BY <1>1, <1>7 DEF M!finish
  <2> DEFINE e == M!Final(t)
  <2>3. e \in Ev /\ e.at = 0
    BY EventTypes
  <2> HIDE DEF e, es
  <2>4. CASE blocks = <<>>
    <3>1. Append(es, e) = <<e>> /\ pushed \o <<e>> = Append(pushed, e)
      <4>1. es = <<>>
        BY <2>4 DEF es, M!finishCurrentBlock
      <4>2. QED
        BY <1>2, <2>3, <4>1
    <3>2. Answer(Append(pushed, e), blocks, u)
      BY <1>1, <2>3, AnswerOther
    <3>3. \A b \in 1 .. Len(blocks) : b < u
      BY <2>4, EmptySeq
    <3>4. pushed' = Append(pushed, e)
      BY <2>1, <3>1 DEF e
    <3>5. QED
      BY <2>2, <3>2, <3>3, <3>4 DEF Brackets
  <2>5. CASE blocks # <<>>
    <3> DEFINE x == M!Event("end", blocks[Len(blocks)].kind, Len(blocks))
    <3>1. es = <<x>> /\ x \in Ev
      BY <1>2, <2>5, LastBlock DEF es
    <3>2. Answer(Append(pushed, x), blocks, Len(blocks) + 1)
      BY <1>1, <2>2, <2>5, AnswerEnd
    <3> HIDE DEF x
    <3>3. Answer(Append(Append(pushed, x), e), blocks, Len(blocks) + 1)
      BY <2>3, <3>2, AnswerOther
    <3>4. pushed' = Append(Append(pushed, x), e)
      <4>1. pushed \o Append(<<x>>, e) = Append(Append(pushed, x), e)
        <5>1. \A a \in Seq(Ev) : pushed \o Append(a, e) = Append(pushed \o a, e)
          BY <1>2, <2>3
        <5>2. <<x>> \in Seq(Ev) /\ pushed \o <<x>> = Append(pushed, x)
          BY <1>2, <3>1
        <5>3. QED
          BY <5>1, <5>2
      <4>2. QED
        BY <2>1, <3>1, <4>1 DEF e
    <3>5. \A b \in 1 .. Len(blocks) : b < Len(blocks) + 1
      BY <1>2
    <3>6. QED
      BY <2>2, <3>3, <3>4, <3>5 DEF Brackets
  <2>6. QED
    BY <2>4, <2>5
<1>8. CASE M!delta
  <2>1. PICK p \in M!NextParts : /\ blocks' = M!Grown(blocks, p)
                                 /\ pushed' = pushed \o M!Events(blocks, p)
    BY <1>8 DEF M!delta, M!Emit
  <2>2. p \in PartType
    BY PartsAreParts
  <2>3. provider # "over" /\ provider' # "over"
    BY <1>8 DEF M!delta
  <2>4. Answer(pushed, blocks, Len(blocks))
    BY <1>1, <2>3
  <2>5. Answer(pushed', blocks', Len(blocks'))
    BY <2>1, <2>2, <2>4, AnswerGrows
  <2>6. QED
    BY <2>3, <2>5 DEF Brackets
<1>9. QED
  <2>1. CASE M!load /\ provider' # "over"
    BY <1>3, <2>1 DEF M!load
  <2>2. CASE \/ M!finishReason \/ M!abort \/ M!forwardStream \/ M!streamAssistantResponse
             \/ UNCHANGED M!vars
    BY <1>3, <2>2 DEF M!finishReason, M!abort, M!forwardStream, M!streamAssistantResponse, M!vars
  <2>3. QED
    BY <1>4, <1>5, <1>6, <1>7, <1>8, <2>1, <2>2 DEF M!Next

\* What the loop has handled is the beginning of what has been pushed.
LEMMA BracketsTold == ASSUME Flow, Brackets PROVE M!Bracketed
<1>1. PICK u : /\ Answer(pushed, blocks, u)
               /\ provider # "over" => u = Len(blocks)
               /\ provider = "over" /\ pushed[Len(pushed)].type = "done" =>
                    \A b \in 1 .. Len(blocks) : b < u
  BY DEF Brackets
<1>2. /\ blocks \in Seq(Block) /\ pushed \in Seq(Ev) /\ handled \in Seq(Ev)
      /\ Completes(pushed, provider = "over") /\ Ordered(pushed, Len(blocks))
      /\ \A b \in 1 .. Len(blocks) :
           Shape(Only(pushed, M!EventsAt(b)), blocks[b], IF b < u THEN 2 ELSE 1)
      /\ u \in {Len(blocks), Len(blocks) + 1}
  BY <1>1 DEF Answer, Flow, FlowTypes
<1>3. PICK rest \in Seq(Ev) : pushed = handled \o rest
  <2> DEFINE b == M!InFlight(outer)
             c == M!InFlight(inner)
  <2>1. b \in Seq(Ev) /\ c \in Seq(Ev) /\ (handled \o b) \o c = pushed
    BY FlightType DEF Flow, FlowTypes, M!NothingLost
  <2> HIDE DEF b, c
  <2>2. b \o c \in Seq(Ev) /\ handled \o (b \o c) = pushed
    BY <1>2, <2>1, Associates, ConcatProperties
  <2>3. QED
    BY <2>2
<1>4. /\ Len(handled) \in Nat /\ Len(rest) \in Nat /\ Len(pushed) = Len(handled) + Len(rest)
      /\ DOMAIN handled = 1 .. Len(handled) /\ DOMAIN pushed = 1 .. Len(pushed)
      /\ DOMAIN rest = 1 .. Len(rest)
      /\ \A i \in 1 .. Len(handled) : i \in 1 .. Len(pushed) /\ handled[i] = pushed[i]
      /\ \A i \in 1 .. Len(rest) : /\ Len(handled) + i \in 1 .. Len(pushed)
                                   /\ rest[i] = pushed[Len(handled) + i]
  BY <1>2, <1>3
<1>5. \A i, j \in DOMAIN handled : i < j /\ handled[j].at > 0 => handled[i].at <= handled[j].at
  BY <1>2, <1>4 DEF Ordered
<1>6. \A i \in DOMAIN handled : M!isComplete(handled[i]) => i = Len(handled)
  BY <1>2, <1>4 DEF Completes
<1>7. ASSUME NEW b \in DOMAIN blocks
      PROVE  LET es == M!Only(handled, M!EventsAt(b))
                 closed == \/ \E i \in DOMAIN handled : handled[i].at > b
                           \/ handled # <<>> /\ M!Last(handled).type = "done"
             IN  /\ \A i \in DOMAIN es :
                      /\ es[i].kind = blocks[b].kind
                      /\ (es[i].type = "start") = (i = 1)
                      /\ es[i].type = "end" => i = Len(es) /\ Len(es) = Len(blocks[b].parts) + 2
                 /\ closed => es # <<>> /\ M!Last(es).type = "end"
  <2> DEFINE T == M!EventsAt(b)
             es == Only(handled, T)
             more == Only(rest, T)
             full == Only(pushed, T)
             n == Len(blocks[b].parts)
  <2>1. b \in 1 .. Len(blocks) /\ Len(blocks) \in Nat /\ b \in Nat /\ b > 0 /\ n \in Nat
    <3>1. b \in 1 .. Len(blocks) /\ Len(blocks) \in Nat
      BY <1>2
    <3>2. blocks[b] \in Block
      BY <1>2, <3>1
    <3>3. QED
      BY <3>1, <3>2 DEF Block
  <2>2. es \in Seq(Ev) /\ more \in Seq(Ev) /\ full = es \o more
    <3>1. es \in Seq(Ev)
      BY <1>2, OnlyType
    <3>2. more \in Seq(Ev)
      BY OnlyType
    <3>3. Only(handled \o rest, T) = es \o more
      BY <1>2, OnlyConcat
    <3>4. QED
      BY <1>3, <3>1, <3>2, <3>3
  <2>3. PICK c \in {1, 2} : /\ Shape(full, blocks[b], c)
                            /\ b < u => c = 2
    BY <1>2, <2>1
  <2>4. M!Only(handled, M!EventsAt(b)) = es
    BY StreamOnly
  <2> HIDE DEF T, es, more, full
  <2>5. Len(full) = n + c /\ \A i \in 1 .. Len(full) :
          /\ full[i].kind = blocks[b].kind
          /\ full[i].type = IF i = 1 THEN "start" ELSE IF i = n + 2 THEN "end" ELSE "delta"
    BY <2>3 DEF Shape
  <2> HIDE DEF n
  <2>6. /\ Len(es) \in Nat /\ Len(more) \in Nat /\ Len(full) = Len(es) + Len(more)
        /\ DOMAIN es = 1 .. Len(es)
        /\ \A i \in 1 .. Len(es) : i \in 1 .. Len(full) /\ es[i] = full[i]
    BY <2>2
  <2>7. ASSUME NEW i \in DOMAIN es
        PROVE  /\ es[i].kind = blocks[b].kind
               /\ (es[i].type = "start") = (i = 1)
               /\ es[i].type = "end" => i = Len(es) /\ Len(es) = n + 2
    <3>1. i \in 1 .. Len(es) /\ i \in 1 .. Len(full) /\ es[i] = full[i]
      BY <2>6
    <3>2. /\ es[i].kind = blocks[b].kind
          /\ es[i].type = IF i = 1 THEN "start" ELSE IF i = n + 2 THEN "end" ELSE "delta"
      BY <2>5, <3>1
    <3>3. es[i].type = "end" => i = n + 2
      BY <3>2
    <3>4. i = n + 2 => i = Len(es) /\ Len(es) = n + 2
      <4>1. /\ Len(es) <= Len(full) /\ i <= Len(es)
            /\ i \in Nat /\ Len(es) \in Nat /\ Len(full) \in Nat /\ n \in Nat
        BY <2>1, <2>6, <3>1
      <4>2. Len(full) <= n + 2
        BY <2>1, <2>3, <2>5
      <4>3. QED
        BY <4>1, <4>2
    <3>5. (es[i].type = "start") = (i = 1)
      BY <2>1, <3>1, <3>2
    <3>6. QED
      BY <3>2, <3>3, <3>4, <3>5
  <2>8. ASSUME more = <<>>, b < u PROVE es # <<>> /\ M!Last(es).type = "end"
    <3>1. c = 2 /\ Len(es) = n + 2
      BY <2>3, <2>5, <2>6, <2>8
    <3>2. n + 2 \in 1 .. Len(es) /\ n + 2 # 1
      BY <2>1, <3>1
    <3>3. es[n + 2].type = "end"
      BY <2>5, <2>6, <3>2
    <3>4. QED
      BY <3>1, <3>2, <3>3, EmptySeq DEF M!Last
  <2>9. ASSUME NEW i \in DOMAIN handled, handled[i].at > b PROVE more = <<>> /\ b < u
    <3>1. i \in 1 .. Len(handled) /\ i \in DOMAIN pushed /\ handled[i] = pushed[i]
      BY <1>4
    <3>2. pushed[i].at <= Len(blocks) /\ pushed[i].at \in Nat
      <4>1. pushed[i] \in Ev
        BY <1>2, <3>1
      <4>2. QED
        BY <1>2, <3>1, <4>1 DEF Ordered, Ev
    <3>3. b < u
      BY <1>2, <2>1, <2>9, <3>1, <3>2
    <3>4. ASSUME NEW j \in DOMAIN rest PROVE rest[j].at # b
      <4>1. /\ Len(handled) + j \in DOMAIN pushed /\ rest[j] = pushed[Len(handled) + j]
            /\ i < Len(handled) + j
        BY <1>4, <3>1
      <4>2. pushed[Len(handled) + j].at > 0 => pushed[i].at <= pushed[Len(handled) + j].at
        BY <1>2, <3>1, <4>1 DEF Ordered
      <4>3. pushed[Len(handled) + j].at \in Nat
        <5>1. pushed[Len(handled) + j] \in Ev
          BY <1>2, <4>1
        <5>2. QED
          BY <5>1 DEF Ev
      <4>4. b > 0
        BY <2>1
      <4>5. QED
        BY <2>1, <2>9, <3>1, <3>2, <4>1, <4>2, <4>3, <4>4
    <3>5. more = <<>>
      BY <2>1, <3>4, NoneAt DEF more, T
    <3>6. QED
      BY <3>3, <3>5
  <2>10. ASSUME handled # <<>>, M!Last(handled).type = "done" PROVE more = <<>> /\ b < u
    <3>1. Len(handled) \in DOMAIN handled /\ M!Last(handled) = handled[Len(handled)]
      BY <1>2, <1>4, <2>10, EmptySeq DEF M!Last
    <3>2. Len(handled) \in DOMAIN pushed /\ handled[Len(handled)] = pushed[Len(handled)]
      BY <1>4, <3>1
    <3>3. M!isComplete(pushed[Len(handled)])
      BY <2>10, <3>1, <3>2 DEF M!isComplete
    <3>4. provider = "over" /\ Len(handled) = Len(pushed)
      BY <1>2, <3>2, <3>3 DEF Completes
    <3>5. b < u
      BY <1>1, <2>1, <2>10, <3>1, <3>2, <3>4
    <3>6. rest = <<>>
      <4>1. Len(rest) = 0
        BY <1>4, <3>4
      <4>2. QED
        BY <4>1, EmptySeq
    <3>7. more = <<>>
      BY <3>6, OnlyEmpty DEF more
    <3>8. QED
      BY <3>5, <3>7
  <2>11. QED
    BY <2>4, <2>7, <2>8, <2>9, <2>10 DEF n
<1>8. QED
  BY <1>5, <1>6, <1>7 DEF M!Bracketed

-----------------------------------------------------------------------------
(***************************************************************************)
(* ModelStream, whose parts a block has.  A call that the service does not *)
(* go on with is never the last one it sent a part of, so a part without   *)
(* an id belongs to the block it is put in.                                *)
(***************************************************************************)
Of(b) == IF b.kind = "toolCall" THEN b.id ELSE b.kind

Own(bs, ps) ==
  /\ bs \in Seq(Block) /\ ps \in Seq(PartType)
  /\ \A b \in 1 .. Len(bs) : \A i \in 1 .. Len(bs[b].parts) : bs[b].parts[i] = Of(bs[b])
  /\ \A b \in 1 .. Len(bs) : bs[b].parts # <<>>
  /\ \A b \in 1 .. Len(bs) :
       bs[b].kind = "toolCall" =>
         bs[b].id \in Ids /\ \E i \in 1 .. Len(ps) : ps[i].of = bs[b].id
  /\ \A b, c \in 1 .. Len(bs) :
       bs[b].kind = "toolCall" /\ bs[c].kind = "toolCall" /\ bs[b].id = bs[c].id => b = c
  /\ ps = <<>> <=> bs = <<>>
  /\ bs # <<>> => ps[Len(ps)].of = Of(bs[Len(bs)])

LEMMA OwnAnew ==
  ASSUME NEW bs, NEW ps, Own(bs, ps), NEW p \in PartType, NEW new \in Block,
         new.parts = <<p.of>>, p.of = Of(new),
         new.kind = "toolCall" => new.id \in Ids /\ \A i \in 1 .. Len(ps) : ps[i].of # new.id
  PROVE  Own(Append(bs, new), Append(ps, p))
<1> DEFINE cs == Append(bs, new)
           qs == Append(ps, p)
           l == Len(bs) + 1
           m == Len(ps) + 1
<1>1. /\ bs \in Seq(Block) /\ ps \in Seq(PartType) /\ Len(bs) \in Nat /\ Len(ps) \in Nat
      /\ l \in Nat /\ m \in Nat
  BY DEF Own
<1>2. /\ cs \in Seq(Block) /\ Len(cs) = l /\ cs[l] = new
      /\ \A b \in 1 .. l : b # l => cs[b] = bs[b] /\ b \in 1 .. Len(bs)
  BY <1>1
<1>3. /\ qs \in Seq(PartType) /\ Len(qs) = m /\ qs[m] = p
      /\ \A i \in 1 .. Len(ps) : qs[i] = ps[i] /\ i \in 1 .. m
  BY <1>1
<1>4. cs # <<>> /\ qs # <<>> /\ l \in 1 .. l /\ m \in 1 .. m
  BY <1>1, <1>2, <1>3, EmptySeq
<1> HIDE DEF cs, qs, l, m
<1>5. Len(new.parts) = 1 /\ new.parts # <<>> /\ new.parts[1] = Of(new)
  <2>1. Len(<<p.of>>) = 1 /\ <<p.of>>[1] = p.of /\ <<p.of>> # <<>>
    BY EmptySeq
  <2>2. QED
    BY <2>1
<1>6. \A b \in 1 .. l : \A i \in 1 .. Len(cs[b].parts) : cs[b].parts[i] = Of(cs[b])
  <2>1. TAKE b \in 1 .. l
  <2>2. CASE b = l
    BY <1>2, <1>5, <2>2
  <2>3. CASE b # l
    BY <1>2, <2>3 DEF Own
  <2>4. QED
    BY <2>2, <2>3
<1>7. \A b \in 1 .. l : cs[b].parts # <<>>
  BY <1>2, <1>5 DEF Own
<1>8. \A b \in 1 .. l : cs[b].kind = "toolCall" =>
        cs[b].id \in Ids /\ \E i \in 1 .. m : qs[i].of = cs[b].id
  <2>1. SUFFICES ASSUME NEW b \in 1 .. l, cs[b].kind = "toolCall"
                 PROVE  cs[b].id \in Ids /\ \E i \in 1 .. m : qs[i].of = cs[b].id
    OBVIOUS
  <2>2. CASE b = l
    BY <1>2, <1>3, <1>4, <2>1, <2>2 DEF Of
  <2>3. CASE b # l
    <3>1. cs[b] = bs[b] /\ b \in 1 .. Len(bs)
      BY <1>2, <2>3
    <3>2. PICK i \in 1 .. Len(ps) : ps[i].of = bs[b].id /\ bs[b].id \in Ids
      BY <2>1, <3>1 DEF Own
    <3>3. QED
      BY <1>3, <3>1, <3>2
  <2>4. QED
    BY <2>2, <2>3
<1>9. \A b, c \in 1 .. l :
        cs[b].kind = "toolCall" /\ cs[c].kind = "toolCall" /\ cs[b].id = cs[c].id => b = c
  <2>1. ASSUME NEW b \in 1 .. l, b # l, cs[b].kind = "toolCall", new.kind = "toolCall"
        PROVE  cs[b].id # new.id
    <3>1. cs[b] = bs[b] /\ b \in 1 .. Len(bs)
      BY <1>2, <2>1
    <3>2. PICK i \in 1 .. Len(ps) : ps[i].of = bs[b].id
      BY <2>1, <3>1 DEF Own
    <3>3. QED
      BY <2>1, <3>1, <3>2
  <2>2. ASSUME NEW b \in 1 .. l, NEW c \in 1 .. l, b # l, c # l,
               cs[b].kind = "toolCall", cs[c].kind = "toolCall", cs[b].id = cs[c].id
        PROVE  b = c
    <3>1. cs[b] = bs[b] /\ b \in 1 .. Len(bs) /\ cs[c] = bs[c] /\ c \in 1 .. Len(bs)
      BY <1>2, <2>2
    <3>2. QED
      BY <2>2, <3>1 DEF Own
  <2>3. QED
    BY <1>2, <2>1, <2>2
<1>10. qs[m].of = Of(cs[l])
  BY <1>2, <1>3
<1>11. Own(cs, qs)
  BY <1>2, <1>3, <1>4, <1>6, <1>7, <1>8, <1>9, <1>10 DEF Own
<1>12. QED
  BY <1>11 DEF cs, qs

LEMMA OwnOn ==
  ASSUME NEW bs, NEW ps, Own(bs, ps), bs # <<>>, NEW p \in PartType, NEW new \in Block,
         new.parts = Append(bs[Len(bs)].parts, p.of), new.kind = bs[Len(bs)].kind,
         new.id = bs[Len(bs)].id, p.of = Of(bs[Len(bs)])
  PROVE  Own([bs EXCEPT ![Len(bs)] = new], Append(ps, p))
<1> DEFINE l == Len(bs)
           cs == [bs EXCEPT ![l] = new]
           qs == Append(ps, p)
           m == Len(ps) + 1
           old == bs[l]
<1>1. /\ bs \in Seq(Block) /\ ps \in Seq(PartType) /\ l \in Nat \ {0} /\ Len(ps) \in Nat
      /\ m \in Nat \ {0} /\ l \in 1 .. Len(bs) /\ old \in Block
  BY LastBlock DEF Own
<1>2. /\ \A b \in 1 .. l : \A i \in 1 .. Len(bs[b].parts) : bs[b].parts[i] = Of(bs[b])
      /\ \A b \in 1 .. l : bs[b].parts # <<>>
      /\ \A b \in 1 .. l : bs[b].kind = "toolCall" =>
           bs[b].id \in Ids /\ \E i \in 1 .. Len(ps) : ps[i].of = bs[b].id
      /\ \A b, c \in 1 .. l :
           bs[b].kind = "toolCall" /\ bs[c].kind = "toolCall" /\ bs[b].id = bs[c].id => b = c
  BY DEF Own
<1>3. new.parts = Append(old.parts, p.of) /\ new.kind = old.kind /\ new.id = old.id /\ p.of = Of(old)
  OBVIOUS
<1>4. /\ qs \in Seq(PartType) /\ Len(qs) = m /\ qs[m] = p
      /\ \A i \in 1 .. Len(ps) : qs[i] = ps[i] /\ i \in 1 .. m
  BY <1>1
<1> HIDE DEF l, old
<1>5. /\ cs \in Seq(Block) /\ Len(cs) = l /\ \A b \in 1 .. l : cs[b] = IF b = l THEN new ELSE bs[b]
  BY <1>1, ExceptSeq DEF l
<1> HIDE DEF cs, qs, m
<1>6. cs # <<>> /\ qs # <<>> /\ l \in 1 .. l
  BY <1>1, <1>4, <1>5, EmptySeq
<1>7. Of(new) = Of(old) /\ \A b \in 1 .. l : /\ cs[b].kind = bs[b].kind /\ cs[b].id = bs[b].id
                                            /\ Of(cs[b]) = Of(bs[b])
  BY <1>3, <1>5 DEF Of, old
<1>8. new.parts # <<>> /\ \A i \in 1 .. Len(new.parts) : new.parts[i] = Of(old)
  <2> DEFINE q == old.parts
             r == new.parts
             x == p.of
  <2>1. q \in Seq(Sources) /\ x \in Sources /\ r = Append(q, x) /\ x = Of(old)
    BY <1>1, <1>3 DEF Block, PartType
  <2>2. \A i \in 1 .. Len(q) : q[i] = Of(old)
    BY <1>1, <1>2, <1>6 DEF old
  <2> HIDE DEF q, r, x
  <2>3. /\ Len(q) \in Nat /\ Len(r) = Len(q) + 1 /\ r \in Seq(Sources)
        /\ r[Len(q) + 1] = x /\ \A i \in 1 .. Len(q) : r[i] = q[i]
    BY <2>1
  <2>4. \A i \in 1 .. Len(r) : r[i] = Of(old)
    <3>1. TAKE i \in 1 .. Len(r)
    <3>2. i = Len(q) + 1 \/ i \in 1 .. Len(q)
      BY <2>3
    <3>3. QED
      BY <2>1, <2>2, <2>3, <3>2
  <2>5. r # <<>>
    BY <2>3, EmptySeq
  <2>6. QED
    BY <2>4, <2>5 DEF r
<1>9. \A b \in 1 .. l : \A i \in 1 .. Len(cs[b].parts) : cs[b].parts[i] = Of(cs[b])
  <2>1. TAKE b \in 1 .. l
  <2>2. CASE b = l
    <3>1. cs[b] = new
      BY <1>5, <2>2
    <3>2. QED
      BY <1>7, <1>8, <3>1
  <2>3. CASE b # l
    <3>1. cs[b] = bs[b]
      BY <1>5, <2>3
    <3>2. QED
      BY <1>2, <3>1
  <2>4. QED
    BY <2>2, <2>3
<1>10. \A b \in 1 .. l : cs[b].parts # <<>>
  BY <1>2, <1>5, <1>8
<1>11. \A b \in 1 .. l : cs[b].kind = "toolCall" =>
        cs[b].id \in Ids /\ \E i \in 1 .. m : qs[i].of = cs[b].id
  <2>1. SUFFICES ASSUME NEW b \in 1 .. l, cs[b].kind = "toolCall"
                 PROVE  cs[b].id \in Ids /\ \E i \in 1 .. m : qs[i].of = cs[b].id
    OBVIOUS
  <2>2. PICK i \in 1 .. Len(ps) : ps[i].of = bs[b].id /\ bs[b].id \in Ids
    BY <1>2, <1>7, <2>1
  <2>3. QED
    BY <1>4, <1>7, <2>2
<1>12. \A b, c \in 1 .. l :
        cs[b].kind = "toolCall" /\ cs[c].kind = "toolCall" /\ cs[b].id = cs[c].id => b = c
  BY <1>2, <1>7
<1>13. qs[m].of = Of(cs[l])
  BY <1>3, <1>4, <1>5, <1>6, <1>7
<1>14. Own(cs, qs)
  BY <1>4, <1>5, <1>6, <1>9, <1>10, <1>11, <1>12, <1>13 DEF Own
<1>15. QED
  BY <1>14 DEF cs, qs, l

LEMMA OwnStep ==
  ASSUME M!StreamConstants, Own(blocks, parts), [M!Next]_(M!vars)
  PROVE  Own(blocks', parts')
<1>1. CASE UNCHANGED <<blocks, parts>>
  BY <1>1
<1>2. CASE M!delta
  <2>1. PICK p \in M!NextParts : blocks' = M!Grown(blocks, p) /\ parts' = Append(parts, p)
    BY <1>2 DEF M!delta
  <2>2. /\ p \in PartType
        /\ \/ p.kind \in {"text", "thinking"} /\ p.of = p.kind /\ p.id = M!NoId
           \/ p.kind = "toolCall" /\ p.of \in Ids
              /\ \/ p.id = p.of /\ p.of \in (Ids \ M!Begun) \cup M!Continued
                 \/ p.id = M!NoId /\ p.of \in M!Continued
    BY PartsAreParts
  <2>3. /\ blocks \in Seq(Block) /\ parts \in Seq(PartType) /\ M!NoId \notin Ids
        /\ "text" \notin Ids /\ "thinking" \notin Ids /\ ~CanInterleave
    BY DEF Own, M!StreamConstants
  \* A part of a call that has begun goes on with the last block.
  <2>4. ASSUME p.kind = "toolCall", p.of \in M!Continued
        PROVE  /\ blocks # <<>> /\ p.of = Of(blocks[Len(blocks)])
               /\ blocks[Len(blocks)].kind = "toolCall" /\ blocks[Len(blocks)].id = p.of
               /\ p.id = p.of \/ p.id = M!NoId
    <3>1. parts # <<>> /\ p.of = M!Last(parts).of /\ p.of \in Ids
      BY <2>3, <2>4 DEF M!Continued, M!Begun
    <3>2. blocks # <<>> /\ p.of = Of(blocks[Len(blocks)])
      BY <3>1 DEF Own, M!Last
    <3>3. blocks[Len(blocks)].kind \in Kinds
      BY <2>3, <3>2, LastBlock
    <3>4. QED
      BY <2>2, <2>3, <2>4, <3>1, <3>2, <3>3 DEF Of, Kinds
  <2>5. CASE M!startsBlock(blocks, p)
    <3> DEFINE new == [kind |-> p.kind, id |-> p.id, parts |-> <<p.of>>]
               none == [kind |-> p.kind, id |-> p.id, parts |-> <<>>]
    <3>0. /\ new = [kind |-> p.kind, id |-> p.id, parts |-> <<p.of>>]
          /\ none = [kind |-> p.kind, id |-> p.id, parts |-> <<>>]
          /\ new.kind = p.kind /\ new.id = p.id /\ new.parts = <<p.of>>
      OBVIOUS
    <3> HIDE DEF new, none
    <3>1. new \in Block /\ blocks' = Append(blocks, new)
      BY <2>1, <2>2, <2>3, <2>5, <3>0, GrownAnew
    <3>2. p.kind = "toolCall" => p.id = p.of /\ p.of \in Ids \ M!Begun
      <4>1. SUFFICES ASSUME p.kind = "toolCall", p.of \in M!Continued PROVE FALSE
        BY <2>2
      <4>2. M!Last(blocks) = blocks[Len(blocks)]
        BY DEF M!Last
      <4>3. QED
        BY <2>4, <2>5, <4>1, <4>2 DEF M!startsBlock
    <3>3. p.of = Of(new)
      BY <2>2, <3>0, <3>2 DEF Of
    <3>4. new.kind = "toolCall" => new.id \in Ids /\ \A i \in 1 .. Len(parts) : parts[i].of # new.id
      <4>1. DOMAIN parts = 1 .. Len(parts)
        BY <2>3
      <4>2. QED
        BY <3>0, <3>2, <4>1 DEF M!Begun
    <3>5. QED
      BY <2>1, <2>2, <3>0, <3>1, <3>3, <3>4, OwnAnew
  <2>6. CASE ~M!startsBlock(blocks, p)
    <3> DEFINE b == [blocks[Len(blocks)] EXCEPT !.parts = Append(@, p.of)]
    <3>0. b = [blocks[Len(blocks)] EXCEPT !.parts = Append(@, p.of)]
      OBVIOUS
    <3> HIDE DEF b
    <3>1. /\ blocks # <<>> /\ b \in Block /\ b.parts = Append(blocks[Len(blocks)].parts, p.of)
          /\ b.kind = blocks[Len(blocks)].kind /\ b.id = blocks[Len(blocks)].id
          /\ blocks' = [blocks EXCEPT ![Len(blocks)] = b]
          /\ p.kind = blocks[Len(blocks)].kind
          /\ p.kind = "toolCall" /\ p.id # M!NoId => p.id = blocks[Len(blocks)].id
      BY <2>1, <2>2, <2>3, <2>6, <3>0, GrownOn
    <3>2. p.of = Of(blocks[Len(blocks)])
      <4>1. CASE p.kind # "toolCall"
        BY <2>2, <3>1, <4>1 DEF Of
      <4>2. CASE p.kind = "toolCall" /\ p.of \in M!Continued
        BY <2>4, <4>2
      <4>3. CASE p.kind = "toolCall" /\ p.of \notin M!Continued
        <5>1. p.id = p.of /\ p.id # M!NoId
          BY <2>2, <2>3, <4>3
        <5>2. QED
          BY <3>1, <4>3, <5>1 DEF Of
      <4>4. QED
        BY <4>1, <4>2, <4>3
    <3>3. Own([blocks EXCEPT ![Len(blocks)] = b], Append(parts, p))
      BY <2>2, <3>1, <3>2, OwnOn
    <3>4. QED
      BY <2>1, <3>1, <3>3
  <2>7. QED
    BY <2>5, <2>6
<1>3. QED
  BY <1>1, <1>2 DEF M!Next, M!vars, M!load, M!create, M!finishReason, M!finish, M!fail,
                    M!abort, M!forwardStream, M!streamAssistantResponse

LEMMA OwnHolds == ASSUME M!StreamConstants, Own(blocks, parts) PROVE M!OwnParts
<1>1. blocks \in Seq(Block) /\ DOMAIN blocks = 1 .. Len(blocks)
  BY DEF Own
<1>2. ASSUME NEW i \in 1 .. Len(blocks)
      PROVE  /\ DOMAIN blocks[i].parts = 1 .. Len(blocks[i].parts)
             /\ 1 \in DOMAIN blocks[i].parts
             /\ blocks[i].kind \in Kinds
             /\ \A p \in DOMAIN blocks[i].parts : blocks[i].parts[p] = Of(blocks[i])
             /\ blocks[i].kind = "toolCall" => blocks[i].id \in Ids
  <2>1. blocks[i].parts \in Seq(Sources) /\ blocks[i].kind \in Kinds
    <3>1. blocks[i] \in Block
      BY <1>1
    <3>2. QED
      BY <3>1 DEF Block
  <2>2. blocks[i].parts # <<>> /\ (blocks[i].kind = "toolCall" => blocks[i].id \in Ids)
        /\ \A p \in 1 .. Len(blocks[i].parts) : blocks[i].parts[p] = Of(blocks[i])
    BY DEF Own
  <2>3. DOMAIN blocks[i].parts = 1 .. Len(blocks[i].parts) /\ 1 \in 1 .. Len(blocks[i].parts)
    BY <2>1, <2>2, EmptySeq
  <2>4. QED
    BY <2>1, <2>2, <2>3
<1>3. ASSUME NEW i \in 1 .. Len(blocks), NEW j \in 1 .. Len(blocks), i # j,
             blocks[i].kind = "toolCall"
      PROVE  blocks[j].parts[1] # blocks[i].parts[1]
  <2>1. blocks[i].parts[1] = blocks[i].id /\ blocks[i].id \in Ids
    BY <1>2, <1>3 DEF Of
  <2>2. CASE blocks[j].kind = "toolCall"
    <3>1. blocks[j].parts[1] = blocks[j].id
      BY <1>2, <2>2 DEF Of
    <3>2. blocks[j].id # blocks[i].id
      BY <1>3, <2>2 DEF Own
    <3>3. QED
      BY <2>1, <3>1, <3>2
  <2>3. CASE blocks[j].kind # "toolCall"
    <3>1. blocks[j].parts[1] = blocks[j].kind /\ blocks[j].kind \in {"text", "thinking"}
      BY <1>2, <2>3 DEF Of, Kinds
    <3>2. QED
      BY <2>1, <3>1 DEF M!StreamConstants
  <2>4. QED
    BY <2>2, <2>3
<1>4. QED
  BY <1>1, <1>2, <1>3 DEF M!OwnParts, Of

(***************************************************************************)
(* An answer reaches the agent loop: through both streams no event is      *)
(* lost, doubled or overtaken; neither reader is left waiting for what has *)
(* come or will not come; the events of a block come together, from its    *)
(* start to its end; and each block has the parts of one call.             *)
(***************************************************************************)
THEOREM AnswersAreDelivered == ASSUME M!StreamConstants PROVE M!Spec => []StreamDelivered
<1> DEFINE Inv == Flow /\ Brackets /\ Own(blocks, parts)
<1>1. M!Init => Inv
  <2>1. SUFFICES ASSUME M!Init PROVE Own(blocks, parts)
    BY FlowInit, BracketsInit
  <2>2. blocks = <<>> /\ parts = <<>>
    BY <2>1 DEF M!Init
  <2>3. <<>> \in Seq(Block) /\ <<>> \in Seq(PartType) /\ Len(<<>>) = 0
    BY EmptySeq
  <2>4. QED
    BY <2>2, <2>3 DEF Own
<1>2. Inv /\ [M!Next]_(M!vars) => Inv'
  <2>1. SUFFICES ASSUME Inv, [M!Next]_(M!vars) PROVE Inv'
    OBVIOUS
  <2>2. blocks \in Seq(Block)
    BY <2>1 DEF Own
  <2>3. Flow'
    BY <2>1, <2>2, FlowStep
  <2>4. Brackets'
    BY <2>1, <2>3, BracketsStep
  <2>5. Own(blocks', parts')
    BY <2>1, OwnStep
  <2>6. QED
    BY <2>3, <2>4, <2>5
<1>3. Inv => StreamDelivered
  BY FlowDelivers, BracketsTold, OwnHolds DEF StreamDelivered
<1> HIDE DEF Inv
<1>4. QED
  BY <1>1, <1>2, <1>3, PTL DEF M!Spec

-----------------------------------------------------------------------------
(***************************************************************************)
(* TaskTracker.  The edges that block can be ranked: there is a number for *)
(* every task such that each task is above the ones it waits for.  A new   *)
(* task comes above its parent, and an edge that assertNoCycle lets pass   *)
(* lifts everything but what its target waits for.                         *)
(***************************************************************************)
Nodes == 1 .. MaxTasks
Statuses == {"open", "in_progress", "blocked", "closed"}
Edges(T, c) == [source : T, target : 1 .. c, type : {"blocks", "parent-child", "related"}]
Awaited(d) == {e \in d : e.type \in W!Blocking}
RanksBy(f, d) == \A e \in Awaited(d) : f[e.target] < f[e.source]
Ranked(d) == \E f \in [Nodes -> Nat] : RanksBy(f, d)

TaskInv ==
  /\ created \in 0 .. MaxTasks
  /\ W!TaskIds \subseteq 1 .. created
  /\ tasks \in [W!TaskIds -> [owner : Workers, parent : 0 .. MaxTasks, status : Statuses]]
  /\ deps \subseteq Edges(W!TaskIds, created)
  /\ Ranked(deps)

\* What T has seen after another round, and f the sets of the first k rounds.
Further(T, d) == T \cup {e.target : e \in {x \in Awaited(d) : x.source \in T}}
Rounds(f, d, from, k) ==
  f = [n \in 0 .. k |-> IF n = 0 THEN {from} ELSE Further(f[n - 1], d)]

LEMMA RoundsExist ==
  ASSUME NEW d, NEW from
  PROVE  \A k \in Nat : \E f : Rounds(f, d, from, k)
<1> DEFINE N == {k \in Nat : \E f : Rounds(f, d, from, k)}
<1>1. 0 \in N
  <2>1. Rounds([n \in 0 .. 0 |-> {from}], d, from, 0)
    BY DEF Rounds
  <2>2. QED
    BY <2>1
<1>2. ASSUME NEW k \in Nat, k \in N PROVE k + 1 \in N
  <2>1. PICK f : Rounds(f, d, from, k)
    BY <1>2
  <2> DEFINE x == Further(f[k], d)
             g == [n \in 0 .. k + 1 |-> IF n = k + 1 THEN x ELSE f[n]]
  <2>2. ASSUME NEW n \in 0 .. k + 1
        PROVE  g[n] = IF n = 0 THEN {from} ELSE Further(g[n - 1], d)
    <3>1. CASE n = k + 1
      BY <3>1
    <3>2. CASE n # k + 1
      <4>1. n \in 0 .. k /\ (n # 0 => n - 1 \in 0 .. k + 1 /\ n - 1 # k + 1)
        BY <3>2
      <4>2. f[n] = IF n = 0 THEN {from} ELSE Further(f[n - 1], d)
        BY <2>1, <4>1 DEF Rounds
      <4>3. QED
        BY <3>2, <4>1, <4>2
    <3>3. QED
      BY <3>1, <3>2
  <2>3. Rounds(g, d, from, k + 1)
    BY <2>2, Zenon DEF Rounds
  <2>4. QED
    BY <2>3
<1>3. QED
  <2> HIDE DEF N
  <2>1. \A k \in Nat : k \in N
    BY <1>1, <1>2, NatInduct
  <2>2. QED
    BY <2>1 DEF N

LEMMA WalkIs ==
  ASSUME MaxTasks \in Nat, NEW d, NEW from
  PROVE  \E f : Rounds(f, d, from, MaxTasks) /\ W!Walk(d, from) = f[MaxTasks]
<1>1. \E f : Rounds(f, d, from, MaxTasks)
  BY RoundsExist
<1>2. W!Walk(d, from) = (CHOOSE f : Rounds(f, d, from, MaxTasks))[MaxTasks]
  BY DEF W!Walk, Rounds, Further, Awaited
<1>3. QED
  BY <1>1, <1>2

\* As many rounds as there are tasks find everything: each round that adds
\* nothing is the last, and each other one adds a task.
LEMMA WalkIsClosed ==
  ASSUME MaxTasks \in Nat, NEW d, NEW from \in Nodes,
         \A e \in d : e.target \in Nodes
  PROVE  /\ from \in W!Walk(d, from)
         /\ \A e \in Awaited(d) :
              e.source \in W!Walk(d, from) => e.target \in W!Walk(d, from)
<1>1. PICK f : Rounds(f, d, from, MaxTasks) /\ W!Walk(d, from) = f[MaxTasks]
  BY WalkIs
<1>2. IsFiniteSet(Nodes) /\ Cardinality(Nodes) = MaxTasks
  BY FS_Interval DEF Nodes
<1>3. \A T \in SUBSET Nodes : IsFiniteSet(T) /\ Cardinality(T) \in Nat /\ Cardinality(T) <= MaxTasks
  BY <1>2, FS_Subset, FS_CardinalityType
<1> DEFINE Fine(n) == /\ f[n] \subseteq Nodes /\ from \in f[n]
                      /\ Further(f[n], d) = f[n] \/ Cardinality(f[n]) > n
           N == {n \in Nat : n <= MaxTasks => Fine(n)}
<1>4. 0 \in N
  <2>1. f[0] = {from}
    BY <1>1 DEF Rounds
  <2>2. Cardinality({from}) = 1
    BY FS_Singleton
  <2>3. f[0] \subseteq Nodes /\ from \in f[0] /\ Cardinality(f[0]) > 0
    BY <2>1, <2>2
  <2>4. QED
    BY <2>3
<1>5. ASSUME NEW n \in Nat, n \in N PROVE n + 1 \in N
  <2>1. SUFFICES ASSUME n + 1 <= MaxTasks PROVE Fine(n + 1)
    OBVIOUS
  <2>2. Fine(n)
    BY <1>5, <2>1
  <2>3. f[n + 1] = Further(f[n], d)
    <3>1. n + 1 \in 0 .. MaxTasks /\ n + 1 # 0 /\ (n + 1) - 1 = n
      BY <2>1
    <3>2. QED
      BY <1>1, <3>1 DEF Rounds
  <2>4. f[n + 1] \subseteq Nodes /\ f[n] \subseteq f[n + 1]
    BY <2>2, <2>3 DEF Further, Awaited
  <2>5. CASE Further(f[n], d) = f[n]
    BY <2>2, <2>3, <2>5
  <2>6. CASE Further(f[n], d) # f[n]
    <3>1. Cardinality(f[n]) > n
      BY <2>2, <2>6
    <3>2. IsFiniteSet(f[n + 1]) /\ Cardinality(f[n]) \in Nat /\ Cardinality(f[n + 1]) \in Nat
      BY <1>3, <2>2, <2>4
    <3>3. Cardinality(f[n]) <= Cardinality(f[n + 1])
      BY <2>4, <3>2, FS_Subset
    <3>4. Cardinality(f[n]) # Cardinality(f[n + 1])
      BY <2>3, <2>4, <2>6, <3>2, FS_Subset
    <3>5. QED
      BY <2>2, <2>4, <3>1, <3>2, <3>3, <3>4
  <2>7. QED
    BY <2>5, <2>6
<1>6. Fine(MaxTasks)
  <2> HIDE DEF N
  <2>1. MaxTasks \in N
    BY <1>4, <1>5, NatInduct
  <2>2. QED
    BY <2>1 DEF N
<1>7. Further(f[MaxTasks], d) = f[MaxTasks]
  <2>1. Cardinality(f[MaxTasks]) \in Nat /\ Cardinality(f[MaxTasks]) <= MaxTasks
    BY <1>3, <1>6
  <2>2. QED
    BY <1>6, <2>1
<1>8. QED
  BY <1>1, <1>6, <1>7 DEF Further

-----------------------------------------------------------------------------
LEMMA AddedIsRanked ==
  ASSUME MaxTasks \in Nat, NEW d, d \subseteq Edges(Nodes, MaxTasks), Ranked(d),
         NEW s \in Nodes, NEW t \in Nodes, NEW ty, W!CanAddDep(d, s, t, ty)
  PROVE  Ranked(d \cup {W!Dep(s, t, ty)})
<1>1. PICK f \in [Nodes -> Nat] : RanksBy(f, d)
  BY DEF Ranked
<1>2. CASE ty \notin W!Blocking
  <2>1. RanksBy(f, d \cup {W!Dep(s, t, ty)})
    BY <1>1, <1>2 DEF RanksBy, Awaited, W!Dep
  <2>2. QED
    BY <2>1 DEF Ranked
<1>3. CASE ty \in W!Blocking
  <2> DEFINE below == W!Walk(d, t)
             g == [x \in Nodes |-> IF x \in below THEN f[x] ELSE f[x] + f[t] + 1]
  <2>1. /\ t \in below /\ s \notin below
        /\ \A e \in Awaited(d) : e.source \in below => e.target \in below
    <3>1. \A e \in d : e.target \in Nodes
      BY DEF Edges, Nodes
    <3>2. QED
      BY <1>3, <3>1, WalkIsClosed DEF W!CanAddDep
  <2> HIDE DEF below
  <2>2. g \in [Nodes -> Nat] /\ f[t] \in Nat
    OBVIOUS
  <2>3. ASSUME NEW e \in Awaited(d \cup {W!Dep(s, t, ty)})
        PROVE  g[e.target] < g[e.source]
    <3>1. CASE e \in Awaited(d)
      <4>1. e.source \in Nodes /\ e.target \in Nodes
        BY <3>1 DEF Awaited, Edges, Nodes
      <4>2. f[e.target] < f[e.source] /\ f[e.target] \in Nat /\ f[e.source] \in Nat
        BY <1>1, <3>1, <4>1 DEF RanksBy
      <4>3. e.source \in below => e.target \in below
        BY <2>1, <3>1
      <4>4. QED
        BY <2>2, <4>1, <4>2, <4>3
    <3>2. CASE e \notin Awaited(d)
      <4>1. e.source = s /\ e.target = t
        BY <2>3, <3>2 DEF Awaited, W!Dep
      <4>2. f[s] \in Nat
        OBVIOUS
      <4>3. QED
        BY <2>1, <2>2, <4>1, <4>2
    <3>3. QED
      BY <3>1, <3>2
  <2>4. RanksBy(g, d \cup {W!Dep(s, t, ty)})
    BY <2>3 DEF RanksBy
  <2>5. QED
    BY <2>2, <2>4 DEF Ranked
<1>4. QED
  BY <1>2, <1>3

LEMMA NewIsRanked ==
  ASSUME MaxTasks \in Nat, NEW d, d \subseteq Edges(Nodes, MaxTasks), Ranked(d),
         NEW n \in Nodes, NEW p \in Nodes, p # n,
         \A e \in d : e.source # n /\ e.target # n
  PROVE  Ranked(d \cup {W!Dep(n, p, "parent-child")})
<1>1. PICK f \in [Nodes -> Nat] : RanksBy(f, d)
  BY DEF Ranked
<1> DEFINE g == [f EXCEPT ![n] = f[p] + 1]
<1>2. g \in [Nodes -> Nat] /\ f[p] \in Nat
  OBVIOUS
<1>3. ASSUME NEW e \in Awaited(d \cup {W!Dep(n, p, "parent-child")})
      PROVE  g[e.target] < g[e.source]
  <2>1. CASE e \in Awaited(d)
    <3>1. e \in d /\ e.source \in Nodes /\ e.target \in Nodes
      BY <2>1 DEF Awaited, Edges, Nodes
    <3>2. f[e.target] < f[e.source]
      BY <1>1, <2>1 DEF RanksBy
    <3>3. QED
      BY <3>1, <3>2
  <2>2. CASE e \notin Awaited(d)
    <3>1. e.source = n /\ e.target = p
      BY <1>3, <2>2 DEF Awaited, W!Dep
    <3>2. QED
      BY <1>2, <3>1
  <2>3. QED
    BY <2>1, <2>2
<1>4. RanksBy(g, d \cup {W!Dep(n, p, "parent-child")})
  BY <1>3 DEF RanksBy
<1>5. QED
  BY <1>2, <1>4 DEF Ranked

LEMMA FewerAreRanked ==
  ASSUME NEW d, NEW c, c \subseteq d, Ranked(d) PROVE Ranked(c)
<1>1. PICK f \in [Nodes -> Nat] : RanksBy(f, d)
  BY DEF Ranked
<1>2. RanksBy(f, c)
  BY <1>1 DEF RanksBy, Awaited
<1>3. QED
  BY <1>2 DEF Ranked

-----------------------------------------------------------------------------
\* f adds the edges to the first k tasks of ts, one after the other.
Adds(f, d, id, ts, k) ==
  f = [i \in 0 .. k |->
         IF i = 0 THEN [deps |-> d, ok |-> TRUE]
         ELSE LET p == f[i - 1] IN
              IF p.ok /\ W!CanAddDep(p.deps, id, ts[i], "blocks")
                THEN [p EXCEPT !.deps = @ \cup {W!Dep(id, ts[i], "blocks")}]
                ELSE [p EXCEPT !.ok = FALSE]]

LEMMA AddsExist ==
  ASSUME NEW d, NEW id, NEW ts
  PROVE  \A k \in Nat : \E f : Adds(f, d, id, ts, k)
<1> DEFINE After(p, i) ==
             IF p.ok /\ W!CanAddDep(p.deps, id, ts[i], "blocks")
               THEN [p EXCEPT !.deps = @ \cup {W!Dep(id, ts[i], "blocks")}]
               ELSE [p EXCEPT !.ok = FALSE]
           none == [deps |-> d, ok |-> TRUE]
           N == {k \in Nat : \E f : Adds(f, d, id, ts, k)}
<1>1. \A f, k : Adds(f, d, id, ts, k) <=>
        f = [i \in 0 .. k |-> IF i = 0 THEN none ELSE After(f[i - 1], i)]
  BY DEF Adds
<1> HIDE DEF After, none
<1>2. 0 \in N
  <2> DEFINE g == [i \in 0 .. 0 |-> none]
  <2>1. ASSUME NEW i \in 0 .. 0
        PROVE  g[i] = IF i = 0 THEN none ELSE After(g[i - 1], i)
    OBVIOUS
  <2>2. g = [i \in 0 .. 0 |-> IF i = 0 THEN none ELSE After(g[i - 1], i)]
    BY <2>1, Zenon
  <2>3. Adds(g, d, id, ts, 0)
    BY <1>1, <2>2
  <2>4. QED
    BY <2>3
<1>3. ASSUME NEW k \in Nat, k \in N PROVE k + 1 \in N
  <2>1. PICK f : Adds(f, d, id, ts, k)
    BY <1>3
  <2> DEFINE x == After(f[k], k + 1)
             g == [i \in 0 .. k + 1 |-> IF i = k + 1 THEN x ELSE f[i]]
  <2>2. ASSUME NEW i \in 0 .. k + 1
        PROVE  g[i] = IF i = 0 THEN none ELSE After(g[i - 1], i)
    <3>1. CASE i = k + 1
      BY <3>1
    <3>2. CASE i # k + 1
      <4>1. i \in 0 .. k /\ (i # 0 => i - 1 \in 0 .. k + 1 /\ i - 1 # k + 1)
        BY <3>2
      <4>2. f[i] = IF i = 0 THEN none ELSE After(f[i - 1], i)
        BY <1>1, <2>1, <4>1
      <4>3. QED
        BY <3>2, <4>1, <4>2
    <3>3. QED
      BY <3>1, <3>2
  <2>3. g = [i \in 0 .. k + 1 |-> IF i = 0 THEN none ELSE After(g[i - 1], i)]
    BY <2>2, Zenon
  <2>4. Adds(g, d, id, ts, k + 1)
    BY <1>1, <2>3
  <2>5. QED
    BY <2>4
<1>4. QED
  <2> HIDE DEF N
  <2>1. \A k \in Nat : k \in N
    BY <1>2, <1>3, NatInduct
  <2>2. QED
    BY <2>1 DEF N

\* The edges a creation adds are its own, and leave the blocking ones ranked.
LEMMA AddAllIsRanked ==
  ASSUME MaxTasks \in Nat, NEW E, E \subseteq Edges(Nodes, MaxTasks),
         NEW d, d \subseteq E, Ranked(d), NEW id \in Nodes,
         NEW T, T \subseteq Nodes, NEW ts \in Seq(T),
         \A t \in T : W!Dep(id, t, "blocks") \in E
  PROVE  W!AddAll(d, id, ts) \subseteq E /\ Ranked(W!AddAll(d, id, ts))
<1>1. Len(ts) \in Nat /\ \A i \in 1 .. Len(ts) : ts[i] \in T
  OBVIOUS
<1>2. PICK f : Adds(f, d, id, ts, Len(ts)) /\ W!AddAll(d, id, ts) = f[Len(ts)].deps
  <2>1. \E f : Adds(f, d, id, ts, Len(ts))
    BY <1>1, AddsExist
  <2>2. W!AddAll(d, id, ts) = (CHOOSE f : Adds(f, d, id, ts, Len(ts)))[Len(ts)].deps
    BY DEF W!AddAll, Adds
  <2>3. QED
    BY <2>1, <2>2
<1> DEFINE Fine(i) == /\ f[i] \in [deps : SUBSET E, ok : BOOLEAN]
                      /\ Ranked(f[i].deps)
           N == {i \in Nat : i <= Len(ts) => Fine(i)}
<1>3. 0 \in N
  <2>1. f[0] = [deps |-> d, ok |-> TRUE]
    BY <1>1, <1>2 DEF Adds
  <2>2. f[0] \in [deps : SUBSET E, ok : BOOLEAN] /\ f[0].deps = d
    BY <2>1
  <2>3. QED
    BY <2>2
<1>4. ASSUME NEW i \in Nat, i \in N PROVE i + 1 \in N
  <2>1. SUFFICES ASSUME i + 1 <= Len(ts) PROVE Fine(i + 1)
    OBVIOUS
  <2>2. Fine(i)
    BY <1>1, <1>4, <2>1
  <2> DEFINE p == f[i]
             t == ts[i + 1]
  <2>3. p \in [deps : SUBSET E, ok : BOOLEAN] /\ Ranked(p.deps) /\ t \in T
    BY <1>1, <2>1, <2>2
  <2>4. f[i + 1] = IF p.ok /\ W!CanAddDep(p.deps, id, t, "blocks")
                     THEN [p EXCEPT !.deps = @ \cup {W!Dep(id, t, "blocks")}]
                     ELSE [p EXCEPT !.ok = FALSE]
    <3>1. i + 1 \in 0 .. Len(ts) /\ i + 1 # 0 /\ (i + 1) - 1 = i
      BY <1>1, <2>1
    <3>2. QED
      BY <1>2, <3>1 DEF Adds
  <2> HIDE DEF p, t
  <2>5. CASE p.ok /\ W!CanAddDep(p.deps, id, t, "blocks")
    <3>1. Ranked(p.deps \cup {W!Dep(id, t, "blocks")})
      <4>1. p.deps \subseteq Edges(Nodes, MaxTasks) /\ t \in Nodes
        BY <2>3
      <4>2. QED
        BY <2>3, <2>5, <4>1, AddedIsRanked
    <3>2. /\ f[i + 1] \in [deps : SUBSET E, ok : BOOLEAN]
          /\ f[i + 1].deps = p.deps \cup {W!Dep(id, t, "blocks")}
      BY <2>3, <2>4, <2>5
    <3>3. QED
      BY <3>1, <3>2
  <2>6. CASE ~ (p.ok /\ W!CanAddDep(p.deps, id, t, "blocks"))
    <3>1. f[i + 1] \in [deps : SUBSET E, ok : BOOLEAN] /\ f[i + 1].deps = p.deps
      BY <2>3, <2>4, <2>6
    <3>2. QED
      BY <2>3, <3>1
  <2>7. QED
    BY <2>5, <2>6
<1>5. Fine(Len(ts))
  <2> HIDE DEF N
  <2>1. Len(ts) \in N
    BY <1>1, <1>3, <1>4, NatInduct
  <2>2. QED
    BY <1>1, <2>1 DEF N
<1>6. QED
  BY <1>2, <1>5

-----------------------------------------------------------------------------
LEMMA TaskInit == ASSUME MaxTasks \in Nat, W!Init PROVE TaskInv
<1>1. tasks \in [{} -> [owner : Workers, parent : 0 .. MaxTasks, status : Statuses]] /\ W!TaskIds = {}
  <2>1. tasks \in Seq([owner : Workers, parent : 0 .. MaxTasks, status : Statuses]) /\ Len(tasks) = 0
    BY EmptySeq DEF W!Init
  <2>2. 1 .. 0 = {}
    OBVIOUS
  <2>3. QED
    BY <2>1, <2>2, LenProperties DEF W!TaskIds
<1>2. RanksBy([x \in Nodes |-> 0], {})
  BY DEF RanksBy, Awaited
<1>3. Ranked({})
  BY <1>2 DEF Ranked
<1>4. QED
  BY <1>1, <1>3 DEF W!Init, TaskInv

LEMMA CreateStep ==
  ASSUME MaxTasks \in Nat, TaskInv, NEW s \in Workers, NEW p \in 0 .. created,
         NEW ts \in Seq(1 .. created), W!create(s, p, ts)
  PROVE  TaskInv'
<1> DEFINE id == created + 1
           up == IF p = W!NoTask THEN {} ELSE {W!Dep(id, p, "parent-child")}
           fresh == [owner |-> s, parent |-> p, status |-> "open"]
<1>1. /\ tasks' = W!Put(tasks, id, fresh)
      /\ deps' = W!AddAll(deps \cup up, id, ts)
      /\ created' = id /\ created < MaxTasks
      /\ p # 0 => p \in W!TaskIds
  BY DEF W!create, W!MayWrite, W!NoTask
<1>2. created \in Nat /\ id \in Nodes /\ 1 .. created \subseteq Nodes /\ 1 .. created \subseteq 1 .. id
  BY <1>1 DEF TaskInv, Nodes
<1>3. DOMAIN tasks' = W!TaskIds \cup {id} /\ id \notin W!TaskIds
  BY <1>1, <1>2 DEF TaskInv, W!Put, W!TaskIds
<1>4. tasks' \in [W!TaskIds \cup {id} -> [owner : Workers, parent : 0 .. MaxTasks, status : Statuses]]
  <2>1. fresh \in [owner : Workers, parent : 0 .. MaxTasks, status : Statuses]
    BY <1>2 DEF Statuses, TaskInv
  <2> HIDE DEF fresh, id
  <2>2. QED
    BY <1>1, <2>1 DEF W!Put, W!TaskIds, TaskInv
<1>5. /\ Edges(W!TaskIds, created) \subseteq Edges(W!TaskIds \cup {id}, id)
      /\ Edges(W!TaskIds \cup {id}, id) \subseteq Edges(Nodes, MaxTasks)
  <2>1. W!TaskIds \subseteq Nodes /\ 1 .. id \subseteq 1 .. MaxTasks
    BY <1>1, <1>2 DEF TaskInv
  <2> HIDE DEF id
  <2>2. QED
    BY <1>2, <2>1 DEF Edges
<1>6. \A t \in 1 .. created : W!Dep(id, t, "blocks") \in Edges(W!TaskIds \cup {id}, id)
  BY <1>2 DEF Edges, W!Dep
<1>7. Ranked(deps \cup up)
  <2>1. CASE p = 0
    BY <2>1 DEF W!NoTask, TaskInv
  <2>2. CASE p # 0
    <3>1. p \in Nodes /\ p # id
      BY <1>2, <2>2
    <3>2. \A e \in deps : e.source # id /\ e.target # id
      BY <1>2, <1>3 DEF TaskInv, Edges
    <3>3. deps \subseteq Edges(Nodes, MaxTasks) /\ Ranked(deps)
      BY <1>5 DEF TaskInv
    <3> HIDE DEF id
    <3>4. QED
      BY <1>2, <2>2, <3>1, <3>2, <3>3, NewIsRanked DEF W!NoTask
  <2>3. QED
    BY <2>1, <2>2
<1>8. deps \cup up \subseteq Edges(W!TaskIds \cup {id}, id)
  <2>1. p # 0 => W!Dep(id, p, "parent-child") \in Edges(W!TaskIds \cup {id}, id)
    BY <1>2 DEF Edges, W!Dep
  <2> HIDE DEF id
  <2>2. QED
    BY <1>5, <2>1 DEF TaskInv, W!NoTask
<1>9. deps' \subseteq Edges(W!TaskIds \cup {id}, id) /\ Ranked(deps')
  <2>1. 1 .. created \subseteq Nodes
    BY <1>2
  <2> HIDE DEF id, up
  <2>2. QED
    BY <1>1, <1>2, <1>5, <1>6, <1>7, <1>8, <2>1, AddAllIsRanked
<1>10. W!TaskIds \cup {id} \subseteq 1 .. id /\ id \in 0 .. MaxTasks
  BY <1>2 DEF TaskInv, Nodes
<1>11. W!TaskIds' = W!TaskIds \cup {id}
  BY <1>3 DEF W!TaskIds
<1> HIDE DEF id
<1>12. QED
  BY <1>1, <1>4, <1>9, <1>10, <1>11 DEF TaskInv

LEMMA TaskStep == ASSUME MaxTasks \in Nat, TaskInv, [W!Next]_(W!vars) PROVE TaskInv'
<1> USE DEF TaskInv
<1>1. created \in Nat /\ 1 .. created \subseteq Nodes /\ created <= MaxTasks
  BY DEF Nodes
<1>2. ASSUME NEW s \in Workers, NEW p \in 0 .. created,
             NEW ts \in W!SeqOf(1 .. created, MaxDeps), W!create(s, p, ts)
      PROVE  TaskInv'
  <2>1. PICK m \in 0 .. MaxDeps : ts \in [1 .. m -> 1 .. created]
    BY Zenon DEF W!SeqOf
  <2>2. m \in Nat
    OBVIOUS
  <2>3. ts \in Seq(1 .. created)
    BY <2>1, <2>2
  <2>4. QED
    BY <1>2, <2>3, CreateStep
<1>3. ASSUME NEW s \in Workers, NEW t \in W!TaskIds,
             NEW status \in {"in_progress", "blocked", "closed"}, W!setStatus(s, t, status)
      PROVE  TaskInv'
  BY <1>3 DEF W!setStatus, W!TaskIds, Statuses
<1>4. ASSUME NEW s \in Workers, NEW x \in W!TaskIds, NEW y \in W!TaskIds,
             NEW ty \in {"blocks", "related"}, W!addDep(s, x, y, ty)
      PROVE  TaskInv'
  <2>1. deps' = deps \cup {W!Dep(x, y, ty)} /\ W!CanAddDep(deps, x, y, ty)
        /\ UNCHANGED <<tasks, created>>
    BY <1>4 DEF W!addDep
  <2>2. W!Dep(x, y, ty) \in Edges(W!TaskIds, created)
    BY DEF W!Dep, Edges
  <2>3. deps \subseteq Edges(Nodes, MaxTasks) /\ x \in Nodes /\ y \in Nodes
    BY <1>1 DEF Edges, Nodes
  <2>4. Ranked(deps')
    BY <2>1, <2>3, AddedIsRanked
  <2>5. QED
    BY <2>1, <2>2, <2>4 DEF W!TaskIds
<1>5. ASSUME NEW s \in Workers, NEW x \in W!TaskIds, NEW y \in W!TaskIds, W!removeDep(s, x, y)
      PROVE  TaskInv'
  <2>1. deps' \subseteq deps /\ UNCHANGED <<tasks, created>>
    BY <1>5 DEF W!removeDep
  <2>2. Ranked(deps')
    BY <2>1, FewerAreRanked
  <2>3. QED
    BY <2>1, <2>2 DEF W!TaskIds
<1>6. ASSUME NEW s \in Workers, W!deleteBySession(s) PROVE TaskInv'
  <2>1. deps' \subseteq deps /\ created' = created
    BY <1>6 DEF W!deleteBySession
  <2>2. Ranked(deps')
    BY <2>1, FewerAreRanked
  <2>3. DOMAIN tasks' = W!TaskIds \ W!Owned(s) /\ \A t \in DOMAIN tasks' : tasks'[t] = tasks[t]
    BY <1>6 DEF W!deleteBySession
  <2>4. tasks' \in [W!TaskIds \ W!Owned(s) ->
                      [owner : Workers, parent : 0 .. MaxTasks, status : Statuses]]
    BY <1>6 DEF W!deleteBySession
  <2>5. deps' \subseteq Edges(W!TaskIds \ W!Owned(s), created)
    BY <1>6 DEF W!deleteBySession, Edges
  <2>6. QED
    BY <2>1, <2>2, <2>3, <2>4, <2>5 DEF W!TaskIds
<1>7. ASSUME UNCHANGED W!vars PROVE TaskInv'
  BY <1>7 DEF W!vars, W!TaskIds
<1>8. QED
  BY <1>2, <1>3, <1>4, <1>5, <1>6, <1>7 DEF W!Next

\* The open task of the lowest rank waits for nothing.
LEMMA TasksProceed == ASSUME MaxTasks \in Nat, TaskInv PROVE TasksCanProceed
<1>1. W!EdgesHaveSource
  BY DEF TaskInv, Edges, W!EdgesHaveSource
<1>2. ASSUME NEW z \in W!TaskIds, tasks[z].status = "open",
             \A t \in W!TaskIds : tasks[t].status \in {"open", "closed"}
      PROVE  \E s \in Workers : W!ready(s) # {}
  <2>1. PICK f \in [Nodes -> Nat] : RanksBy(f, deps)
    BY DEF TaskInv, Ranked
  <2>2. W!TaskIds \subseteq Nodes
    <3>1. 1 .. created \subseteq 1 .. MaxTasks
      BY DEF TaskInv
    <3>2. QED
      BY <3>1 DEF TaskInv, Nodes
  <2> DEFINE open == {t \in W!TaskIds : tasks[t].status = "open"}
             ranks == {f[t] : t \in open}
  <2>3. PICK t \in open : \A u \in open : f[t] <= f[u]
    <3>1. ranks \subseteq Nat /\ ranks # {}
      BY <1>2, <2>2
    <3>2. PICK m \in ranks : \A n \in ranks : m <= n
      BY <3>1, LeastOf
    <3>3. QED
      BY <3>2
  <2>4. ASSUME NEW e \in deps, e.source = t, e.type \in W!Blocking,
               e.target \in W!TaskIds, tasks[e.target].status # "closed"
        PROVE  FALSE
    <3>1. e.target \in open /\ t \in Nodes /\ e.target \in Nodes
      BY <1>2, <2>2, <2>4
    <3>2. f[e.target] < f[t]
      BY <2>1, <2>4 DEF RanksBy, Awaited
    <3>3. f[t] <= f[e.target]
      BY <2>3, <3>1
    <3>4. QED
      BY <3>1, <3>2, <3>3
  <2>5. tasks[t].owner \in Workers
    BY <2>3 DEF TaskInv
  <2>6. t \in W!ready(tasks[t].owner)
    BY <2>3, <2>4 DEF W!ready, W!Owned
  <2>7. QED
    BY <2>5, <2>6
<1>3. QED
  BY <1>1, <1>2 DEF TasksCanProceed, W!WorkCanProceed

(***************************************************************************)
(* Tasks never wait for each other: whatever is created, linked, unlinked  *)
(* and cleared, and by whom, when open tasks are left and none is in       *)
(* progress or blocked by hand, task_ready offers one of them.             *)
(***************************************************************************)
THEOREM WorkProceeds == ASSUME MaxTasks \in Nat PROVE W!Spec => []TasksCanProceed
<1>1. W!Init => TaskInv
  BY TaskInit
<1>2. TaskInv /\ [W!Next]_(W!vars) => TaskInv'
  BY TaskStep
<1>3. TaskInv => TasksCanProceed
  BY TasksProceed
<1>4. QED
  BY <1>1, <1>2, <1>3, PTL DEF W!Spec
=============================================================================
