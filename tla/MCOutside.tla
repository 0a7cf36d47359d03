------------------------------ MODULE MCOutside -------------------------------
(***************************************************************************)
(* What an agent leaves outside of its turns, each part by itself: alarms  *)
(* and schedules, the search for their next time, the apps it has          *)
(* deployed, a skill's file in the bucket, remote browsers, and its files  *)
(* with a client that shows them. `component` says which one this          *)
(* behaviour is of; the others stay as they begin. A conjunct beside a     *)
(* part's Next keeps that part to some of its callers or bounds.           *)
(***************************************************************************)
EXTENDS Scheduler, Outside

VARIABLE component

VARIABLES
  f_bucket, f_markers, f_jobs, f_up, f_down, f_cache, f_listings, f_expanded,
  f_pending, f_open, f_ops

FVars == <<f_bucket, f_markers, f_jobs, f_up, f_down, f_cache, f_listings,
           f_expanded, f_pending, f_open, f_ops>>
PackVars == <<component, vars, appVars, browserVars, cronVars, skillVars,
              FVars>>

Zone(b, a, c) == [before |-> b, after |-> a, change |-> c]

\* UTC, an offset that is not a whole hour, and a clock set back from hour 2
\* to hour 1 on the second day.
SteadyOrBack == {Zone(0, 0, 0), Zone(3, 3, 0), Zone(4, 2, 6)}

\* Files of the root, of two directories, and of both.
Flat == {<<"x">>, <<"y">>}
Nested == {<<"d", "x">>, <<"e", "x">>}
InDirs == {<<"d">>, <<"e">>}

X == INSTANCE Files WITH
       Paths <- Flat, Dirs <- {}, Stored <- [p \in {<<"x">>} |-> 8],
       Slots <- {1}, Clients <- {1}, Faults <- {}, MaxOps <- 3,
       bucket <- f_bucket, markers <- f_markers, jobs <- f_jobs, up <- f_up,
       down <- f_down, cache <- f_cache, listings <- f_listings,
       expanded <- f_expanded, pending <- f_pending, open <- f_open,
       ops <- f_ops

Y == INSTANCE Files WITH
       Paths <- Nested, Dirs <- InDirs,
       Stored <- [p \in {<<"d", "x">>} |-> 9], Slots <- {1}, Clients <- {1},
       Faults <- {}, MaxOps <- 3,
       bucket <- f_bucket, markers <- f_markers, jobs <- f_jobs, up <- f_up,
       down <- f_down, cache <- f_cache, listings <- f_listings,
       expanded <- f_expanded, pending <- f_pending, open <- f_open,
       ops <- f_ops

Z == INSTANCE Files WITH
       Paths <- Nested \cup {<<"x">>}, Dirs <- InDirs,
       Stored <- [p \in {<<"x">>, <<"d", "x">>} |-> IF p = <<"x">> THEN 8 ELSE 9],
       Slots <- {1}, Clients <- {1}, Faults <- {"fail", "drop"}, MaxOps <- 2,
       bucket <- f_bucket, markers <- f_markers, jobs <- f_jobs, up <- f_up,
       down <- f_down, cache <- f_cache, listings <- f_listings,
       expanded <- f_expanded, pending <- f_pending, open <- f_open,
       ops <- f_ops

Components == {"alarm", "cron", "apps", "appsAlone", "skills", "skillsAlone",
               "browser", "browserFaults", "files", "directories",
               "filesFaults"}

\* Of a component that does not run, one initial state.
PackInit ==
  /\ component \in Components
  /\ Init /\ A!Init /\ B!Init
  /\ IF component = "cron"
       THEN C!Init
       ELSE /\ expr = [days |-> {0}, hours |-> {0}, minutes |-> {0}]
            /\ zone = Zone(0, 0, 0) /\ since = 0
            /\ candidate = 1 /\ iterations = 0 /\ search = "search"
  /\ K!Init /\ (component \notin {"skills", "skillsAlone"} => declared = "no")
  /\ CASE component = "directories" -> Y!Init
       [] component = "filesFaults" -> Z!Init
       [] OTHER -> X!Init

PackNext ==
  \/ /\ component = "alarm" /\ Next
     /\ UNCHANGED <<component, appVars, browserVars, cronVars, skillVars,
                    FVars>>
  \/ /\ component = "cron" /\ C!Next
     /\ UNCHANGED <<component, vars, appVars, browserVars, skillVars, FVars>>
  \/ /\ component = "apps" /\ A!Next
     /\ ids' <= 2 /\ \A c \in Calls : call'[c].version <= 2
     /\ UNCHANGED <<component, vars, browserVars, cronVars, skillVars, FVars>>
  \/ /\ component = "appsAlone" /\ A!Next
     /\ pc'[2] = "idle" /\ appsOrderly'
     /\ UNCHANGED <<component, vars, browserVars, cronVars, skillVars, FVars>>
  \/ /\ component = "skills" /\ K!Next
     /\ hook'[3] = "idle" /\ clean'
     /\ UNCHANGED <<component, vars, appVars, browserVars, cronVars, FVars>>
  \/ /\ component = "skillsAlone" /\ K!Next
     /\ published' <= 2 /\ skillsOrderly'
     /\ UNCHANGED <<component, vars, appVars, browserVars, cronVars, FVars>>
  \/ /\ component = "browser" /\ B!Next
     /\ browsersOrderly'
     /\ UNCHANGED <<component, vars, appVars, cronVars, skillVars, FVars>>
  \/ /\ component = "browserFaults" /\ B!Next
     /\ row'[2] = 0 /\ \A j \in jobs' : j.of # 2
     /\ created' <= 2 /\ restarts' = 0
     /\ UNCHANGED <<component, vars, appVars, cronVars, skillVars, FVars>>
  \/ /\ component = "files" /\ X!Next
     /\ UNCHANGED <<component, vars, appVars, browserVars, cronVars, skillVars>>
  \/ /\ component = "directories" /\ Y!Next
     /\ UNCHANGED <<component, vars, appVars, browserVars, cronVars, skillVars>>
  \/ /\ component = "filesFaults" /\ Z!Next
     /\ UNCHANGED <<component, vars, appVars, browserVars, cronVars, skillVars>>

PackSpec == PackInit /\ [][PackNext]_PackVars
-----------------------------------------------------------------------------
\* A client that nothing is on its way to shows the files that are there and holds
\* no old text, and a rename or a move loses none, also when it fails half-way
\* (Files).
FilesKept ==
  /\ [](component = "files" => X!FilesShown)
  /\ [](component = "directories" => Y!FilesShown)
  /\ [][X!KeepsTexts]_FVars

\* What the theorems about these components assume of their constants.
ASSUME OutsideConstants == C!CronConstants /\ K!SkillConstants
=============================================================================
