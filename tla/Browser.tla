------------------------------ MODULE Browser -------------------------------
(***************************************************************************)
(* Remote browsers of chat sessions: the service's browsers, the rows that *)
(* say which are in use, the connections to them in memory, and the timers *)
(* that close them.  Calls to the service and to a browser are awaited;    *)
(* recoverOrphans is started with each resolution of the tools and not     *)
(* waited for.                                                             *)
(***************************************************************************)
EXTENDS Naturals

CONSTANTS Sessions,
          Overlap,      \* "calls": of a session; "orphans": recovery with calls
          CanFail,      \* calls to the service and to browsers may fail
          MaxBrowsers, MaxRestarts   \* bounds

VARIABLES browsers,   \* the service's running browsers
          created,    \* how many were ever made
          row,        \* browser:active:<session>: a browser, 0: none
          cdp,        \* cdpClients: of a session, 0: no entry
          up,         \* entries whose socket is connected
          timer,      \* the timers of the session have a row and a callback
          jobs,       \* calls in flight
          restarts,
          orderly     \* ghost: no calls have overlapped, and none was cut short by a
                      \* failure

vars == <<browsers, created, row, cdp, up, timer, jobs, restarts, orderly>>

Job(d, s, b, where) == [does |-> d, of |-> s, has |-> b, at |-> where, left |-> {}]
Of(s) == {j \in jobs : j.of = s /\ j.does # "recover"}
Recoveries == {j \in jobs : j.does = "recover"}

\* A call may begin while these are in flight.
MayBegin(s) ==
  /\ "calls" \in Overlap \/ Of(s) = {}
  /\ "orphans" \in Overlap \/ Recoveries = {}

\* A call or a recovery begins; not in order: while a call of the same session
\* or a recovery is in flight, or, for a recovery, anything.
Begins(j) ==
  /\ jobs' = jobs \cup {j}
  /\ orderly' = /\ orderly
                /\ IF j.does = "recover" THEN jobs = {}
                   ELSE Of(j.of) = {} /\ Recoveries = {}

Goes(j, k) == jobs' = (jobs \ {j}) \cup {k}
At(j, where) == Goes(j, [j EXCEPT !.at = where])
Ends(j) == jobs' = jobs \ {j}

Init ==
  /\ browsers = {} /\ created = 0
  /\ row = [s \in Sessions |-> 0] /\ cdp = [s \in Sessions |-> 0] /\ up = {}
  /\ timer = [s \in Sessions |-> FALSE]
  /\ jobs = {} /\ restarts = 0 /\ orderly = TRUE
-----------------------------------------------------------------------------
\* browser_open of a session that has no row.
open(s) ==
  /\ MayBegin(s) /\ row[s] = 0 /\ {j \in Of(s) : j.does = "open"} = {}
  /\ Begins(Job("open", s, 0, "create"))
  /\ UNCHANGED <<browsers, created, row, cdp, up, timer, restarts>>

\* createSession.
create(j) ==
  /\ j.at = "create"
  /\ \/ /\ created < MaxBrowsers /\ created' = created + 1
        /\ browsers' = browsers \cup {created + 1}
        /\ Goes(j, [j EXCEPT !.has = created + 1, !.at = "connect"])
        /\ UNCHANGED orderly
     \/ CanFail /\ Ends(j) /\ UNCHANGED <<browsers, created>> /\ orderly' = FALSE
  /\ UNCHANGED <<row, cdp, up, timer, restarts>>

\* The socket is connected and a page attached: from here on the session has an
\* entry, which takes the place of an older one.
connect(j) ==
  /\ j.at = "connect"
  /\ \/ /\ j.has \in browsers
        /\ cdp' = [cdp EXCEPT ![j.of] = j.has] /\ up' = up \cup {j.of}
        /\ At(j, "prepare") /\ UNCHANGED orderly
     \/ /\ CanFail \/ j.has \notin browsers
        /\ Ends(j) /\ UNCHANGED <<cdp, up>>
        /\ orderly' = (orderly /\ j.has \notin browsers)
  /\ UNCHANGED <<browsers, created, row, timer, restarts>>

\* Cookies, navigation and the live view; then the row, and the timers.
opened(j) ==
  /\ j.at = "prepare"
  /\ \/ /\ row' = [row EXCEPT ![j.of] = j.has]
        /\ timer' = [timer EXCEPT ![j.of] = TRUE] /\ UNCHANGED orderly
     \/ CanFail /\ UNCHANGED <<row, timer>> /\ orderly' = FALSE
  /\ Ends(j)
  /\ UNCHANGED <<browsers, created, cdp, up, restarts>>

\* ensureCDP of another tool: an entry that is not connected, or none, is made
\* anew for the browser of the row.
ensureCDP(s) ==
  /\ MayBegin(s) /\ row[s] # 0 /\ s \notin up
  /\ {j \in Of(s) : j.does = "use"} = {}
  /\ Begins(Job("use", s, row[s], "reconnect"))
  /\ UNCHANGED <<browsers, created, row, cdp, up, timer, restarts>>

reconnect(j) ==
  /\ j.at = "reconnect"
  /\ IF j.has \in browsers
       THEN cdp' = [cdp EXCEPT ![j.of] = j.has] /\ up' = up \cup {j.of}
       ELSE UNCHANGED <<cdp, up>>
  /\ Ends(j)
  /\ UNCHANGED <<browsers, created, row, timer, restarts, orderly>>
-----------------------------------------------------------------------------
\* close: by browser_close, by a timer that is due, or by onConnect when the
\* service no longer knows the browser.
close(s, by) ==
  /\ MayBegin(s) /\ row[s] # 0 /\ {j \in Of(s) : j.does = by} = {}
  /\ by = "timer" => timer[s]
  /\ by = "onConnect" => CanFail \/ row[s] \notin browsers
  /\ Begins(Job(by, s, row[s], IF s \in up THEN "cookies" ELSE "release"))
  /\ IF s \in up THEN UNCHANGED cdp ELSE cdp' = [cdp EXCEPT ![s] = 0]
  /\ UNCHANGED <<browsers, created, row, up, timer, restarts>>

\* releaseSession, by its own effort: a failure is not looked at.
Released(b) ==
  /\ browsers' \in {browsers \ {b}} \cup (IF CanFail THEN {browsers} ELSE {})
  /\ orderly' = (orderly /\ b \notin browsers')

\* The cookies are merged into the saved ones, and the entry goes.
saved(j) ==
  /\ j.at = "cookies"
  /\ cdp' = [cdp EXCEPT ![j.of] = 0] /\ up' = up \ {j.of}
  /\ At(j, "release")
  /\ UNCHANGED <<browsers, created, row, timer, restarts, orderly>>

\* releaseSession; then the row of the session goes, and what the caller does
\* about the timers.
released(j) ==
  /\ j.at = "release" /\ j.does # "recover"
  /\ Released(j.has)
  /\ row' = [row EXCEPT ![j.of] = 0]
  /\ timer' = IF j.does = "onConnect" THEN timer ELSE [timer EXCEPT ![j.of] = FALSE]
  /\ Ends(j)
  /\ UNCHANGED <<created, cdp, up, restarts>>

\* A timer that finds no row has had its time.
timerGone(s) ==
  /\ timer[s] /\ row[s] = 0
  /\ timer' = [timer EXCEPT ![s] = FALSE]
  /\ UNCHANGED <<browsers, created, row, cdp, up, jobs, restarts, orderly>>
-----------------------------------------------------------------------------
\* recoverOrphans lists the rows (two at a time, told apart by a number) ...
recover ==
  /\ "orphans" \in Overlap \/ jobs = {}
  /\ \E s \in Sessions : row[s] # 0
  /\ \E n \in {0, 1} \ {j.has : j \in Recoveries} :
       Begins([Job("recover", 0, n, "next") EXCEPT
                 !.left = {<<s, row[s]>> : s \in {x \in Sessions : row[x] # 0}}])
  /\ UNCHANGED <<browsers, created, row, cdp, up, timer, restarts>>

\* ... and visits them: one that has an entry is fine.
visit(j) ==
  /\ j.does = "recover" /\ j.at = "next"
  /\ IF j.left = {} THEN Ends(j)
     ELSE \E p \in j.left :
            IF cdp[p[1]] # 0 THEN Goes(j, [j EXCEPT !.left = @ \ {p}])
            ELSE Goes(j, [j EXCEPT !.of = p[1], !.at = "release"])
  /\ UNCHANGED <<browsers, created, row, cdp, up, timer, restarts, orderly>>

\* Mutant: what is taken for an orphan is forgotten, not released.
recoveredUnreleased(j) ==
  /\ j.does = "recover" /\ j.at = "release"
  /\ \E p \in j.left :
       /\ p[1] = j.of
       /\ row' = [row EXCEPT ![j.of] = 0]
       /\ Goes(j, [j EXCEPT !.left = @ \ {p}, !.at = "next"])
  /\ UNCHANGED <<browsers, created, cdp, up, timer, restarts, orderly>>

recovered(j) ==
  /\ j.does = "recover" /\ j.at = "release"
  /\ \E p \in j.left :
       /\ p[1] = j.of
       /\ Released(p[2])
       /\ row' = [row EXCEPT ![j.of] = 0]
       /\ Goes(j, [j EXCEPT !.left = @ \ {p}, !.at = "next"])
  /\ UNCHANGED <<created, cdp, up, timer, restarts>>
-----------------------------------------------------------------------------
\* A socket closes; a browser comes to its own end.
disconnect(s) ==
  /\ s \in up /\ up' = up \ {s}
  /\ UNCHANGED <<browsers, created, row, cdp, timer, jobs, restarts, orderly>>

expire(b) ==
  /\ browsers' = browsers \ {b}
  /\ up' = {s \in up : cdp[s] # b}
  /\ UNCHANGED <<created, row, cdp, timer, jobs, restarts, orderly>>

\* The object is evicted when nothing is in flight: rows stay, connections and
\* the timers' callbacks do not.
evict ==
  /\ restarts < MaxRestarts /\ restarts' = restarts + 1 /\ jobs = {}
  /\ cdp' = [s \in Sessions |-> 0] /\ up' = {}
  /\ timer' = [s \in Sessions |-> FALSE]
  /\ UNCHANGED <<browsers, created, row, jobs, orderly>>

Next ==
  \/ \E s \in Sessions :
       \/ open(s) \/ ensureCDP(s) \/ timerGone(s) \/ disconnect(s)
       \/ \E by \in {"tool", "timer", "onConnect"} : close(s, by)
  \/ \E j \in jobs : create(j) \/ connect(j) \/ opened(j) \/ reconnect(j)
                     \/ saved(j) \/ released(j) \/ visit(j) \/ recovered(j)
  \/ \E b \in browsers : expire(b)
  \/ recover \/ evict

Spec == Init /\ [][Next]_vars
-----------------------------------------------------------------------------
\* A browser that runs, and is paid for, is known: a row or a call in flight has
\* it. Not so when calls of a session overlap or something fails: an open that
\* fails after createSession leaves a browser that nothing will release, and so
\* does a recovery that is still waiting for its release when the session is
\* opened again.
BrowsersAreKnown ==
  \A b \in browsers :
    \/ \E s \in Sessions : row[s] = b
    \/ \E j \in jobs : j.has = b /\ j.does # "recover"

\* A browser in use will be closed: its timers are set, or a restart took their
\* callbacks and with them the connection, so that the next resolution of tools
\* takes it for an orphan unless it is connected again before.
BrowsersEnd ==
  \A s \in Sessions :
    row[s] # 0 => timer[s] \/ restarts > 0

\* A remote browser that runs is in a row or in the hands of a call, until calls
\* overlap or the service fails; and a row has its timers or will be taken for an
\* orphan, whatever overlaps and fails.
BrowsersAccounted == (orderly => BrowsersAreKnown) /\ BrowsersEnd

\* Not so: a recovery leaves a session that is in use.
RecoverySpares ==
  [][\A j \in Recoveries : j.at = "release" /\ row'[j.of] # row[j.of] =>
       row[j.of] = 0 \/ <<j.of, row[j.of]>> \in j.left]_vars
=============================================================================
