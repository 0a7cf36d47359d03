------------------------------ MODULE Outside -------------------------------
(***************************************************************************)
(* What an agent leaves with other services and for later: the apps it has *)
(* deployed (AppRegistry), the remote browsers of its sessions (Browser),  *)
(* the next times of its schedules (Cron) and a skill's file (Skills),     *)
(* side by side and under any constants, with what each of them promises.  *)
(***************************************************************************)
EXTENDS Integers

CONSTANTS Calls, Builds, Failing, MaxId                             \* AppRegistry
CONSTANTS Sessions, Overlap, ServiceFails, MaxBrowsers, MaxRestarts \* Browser
CONSTANTS MinutesPerHour, HoursPerDay, Days, Zones, MaxFrom,
          MaxIterations                                             \* Cron
CONSTANTS Syncs, Tools, Requests, MaxVersion, MaxEdits, MaxOps,
          MaxTurns                                                  \* Skills

VARIABLES app, ids, files, CURRENT, pc, call, loaded, appsOrderly
VARIABLES browsers, created, row, cdp, up, timer, jobs, restarts,
          browsersOrderly
VARIABLES expr, zone, since, candidate, iterations, search
VARIABLES declared, published, skill, conflict, skillFile, listed, own, first,
          hook, held, prompt, ops, turns, skillsOrderly, clean

appVars == <<app, ids, files, CURRENT, pc, call, loaded, appsOrderly>>
browserVars == <<browsers, created, row, cdp, up, timer, jobs, restarts,
                 browsersOrderly>>
cronVars == <<expr, zone, since, candidate, iterations, search>>
skillVars == <<declared, published, skill, conflict, skillFile, listed, own, first,
               hook, held, prompt, ops, turns, skillsOrderly, clean>>

A == INSTANCE AppRegistry WITH orderly <- appsOrderly
B == INSTANCE Browser WITH
       CanFail <- ServiceFails, orderly <- browsersOrderly
C == INSTANCE Cron WITH
       fields <- expr, from <- since, d <- candidate, i <- iterations,
       phase <- search
K == INSTANCE Skills WITH
       row <- skill, file <- skillFile, cache <- listed, pc <- hook, at <- held,
       orderly <- skillsOrderly

-----------------------------------------------------------------------------
\* The version an app is said to be at has a row, whatever calls of deploy_app,
\* rollback_app and delete_app overlap and fail; and, until calls overlap or a
\* deletion's command fails, what requests are sent to is there (AppRegistry).
AppsServable == A!AppsServable

\* A remote browser that runs is in a row or in the hands of a call, until calls
\* overlap or the service fails; and a row has its timers or will be taken for an
\* orphan, whatever overlaps and fails (Browser).
BrowsersAccounted == B!BrowsersAccounted

\* The search for the next fire time jumps over no minute that matches, also
\* on the day a clock is set back (Cron).
NoOccurrenceSkipped == C!NoOccurrenceSkipped

\* A skill that is enabled can be loaded, until calls overlap or the file of an
\* enabled one cannot be written; and an upstream version that was dealt with
\* stays dealt with, until calls to the registry overlap or a conflict outlives
\* its row (Skills).
SkillsKept == K!SkillsKept
=============================================================================
