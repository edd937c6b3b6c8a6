---------------------------- MODULE SourceGateway ----------------------------
(***************************************************************************)
(* Who may be asked for fares, and how often: the registry of sources, the *)
(* checks a collection makes before it starts, the rate limiter and the    *)
(* adapters that talk to the sources.                                      *)
(*                                                                         *)
(*   core/config.py, services/seed.py   settings and the rows made of them *)
(*   api/v1/source_health.py            enable and disable a source        *)
(*   services/collection.py             run_duffel, run_permissioned_web   *)
(*   services/worker.py                 SourceRateLimiter, the attempts    *)
(*   collectors/                        Duffel, permissioned web, robots,  *)
(*                                      browser, registry                  *)
(*                                                                         *)
(* One session is followed from its start to its end, with the LIVE run it *)
(* makes or resumes.  Each session builds its own adapters and limiter     *)
(* (CollectionService.__init__), so nothing of them outlives it.  Other    *)
(* sessions and processes, with settings of their own, seed the registry   *)
(* meanwhile.  Time passes in ticks; commits and attempts are the subject  *)
(* of CollectionRun.                                                       *)
(***************************************************************************)
EXTENDS Naturals, FiniteSets

CONSTANTS
  Searches,     \* the searches a run plans for its source
  Settings,     \* the settings processes may be started with
  Interval,     \* ticks between two calls: 60 / rate_limit_per_minute
  CrawlDelay,   \* the delay robots.txt may ask for
  Timeout,      \* adapter_timeout_seconds
  MaxAttempts,  \* adapter_max_retries + 1
  MaxOthers,    \* bound: seedings and toggles by other processes
  MaxCrashes    \* bound: crashes of the followed session

Sources == {"DUFFEL", "WEB"}
Jobs    == Sources \X Searches

SettingsRow == [token: BOOLEAN, enabled: [Sources -> BOOLEAN], approved: [Sources -> BOOLEAN],
                reference: BOOLEAN, profile: BOOLEAN]

ASSUME GatewayAssumption ==
  /\ Settings \subseteq SettingsRow
  /\ Interval \in Nat \ {0} /\ CrawlDelay \in Nat /\ Timeout \in Nat
  /\ MaxAttempts \in Nat \ {0}
  /\ MaxOthers \in Nat /\ MaxCrashes \in Nat

\* Failure codes, as far as anything here tells them apart.
\*   TRANSIENT  SOURCE_UNAVAILABLE, RATE_LIMITED, NETWORK_TIMEOUT, UNKNOWN_ERROR
\*   REFUSED    CAPTCHA_BLOCKED, ROBOTS_DISALLOWED, TERMS_RESTRICTED
\*   CHANGED    PARSER_CHANGED
\*   INVALID    INVALID_RESPONSE, AUTHENTICATION_FAILED
Failure == {"TRANSIENT", "REFUSED", "CHANGED", "INVALID"}

\* How a call can end, timeouts of the worker apart.
\* Duffel: timeouts, 429, 5xx and errors of the request are transient; 401, 403,
\* another 4xx and the wrong mode are invalid; a body that does not parse is a change.
DuffelAnswers == {"SUCCEEDED", "TRANSIENT", "CHANGED", "INVALID"}

\* The page: a captcha refuses; 429, 4xx, 5xx, a block and a browser error or
\* timeout are transient; no result, or a card that does not parse, is a change;
\* another origin or too many cards is invalid.
PageAnswers == {"SUCCEEDED", "TRANSIENT", "REFUSED", "CHANGED", "INVALID"}

\* robots.txt: 401 and 403 refuse; 429, 5xx and request errors are transient;
\* another origin and any other 4xx but 404 are invalid.
RobotsFailures == {"TRANSIENT", "REFUSED", "INVALID"}

\* A row of sources (its name, rates and versions left out), or none.
Row(enabled, approved) == [there |-> TRUE, enabled |-> enabled, approved |-> approved]
NoRow == [there |-> FALSE, enabled |-> FALSE, approved |-> FALSE]
RowType == {NoRow} \cup {Row(e, a) : e \in BOOLEAN, a \in BOOLEAN}

\* What an adapter knows of robots.txt: the searches it allows, the delay
\* (HTTP 404: every search, no delay).
Rules(allowed, delay) == [read |-> TRUE, allowed |-> allowed, delay |-> delay]
Unread == [read |-> FALSE, allowed |-> {}, delay |-> 0]

\* seed, check, plan: run_sources;  next, begin, wait, backoff: the worker;
\* robots, delay, render, call: inside the adapter, under asyncio.timeout.
Inside  == {"robots", "delay", "render", "call"}
Running == Inside \cup {"next", "begin", "wait", "backoff"}
Places  == Running \cup {"idle", "seed", "check", "plan"}

VARIABLES
  source,    \* the rows of sources
  run,       \* the LIVE run of the date: none, open or done
  job,       \* its jobs: ABSENT, OPEN, SUCCEEDED or a failure code
  tries,     \* attempt_count of each job
  toggle,    \* an enable or disable request that has read its row
  pc,        \* where the followed session stands
  conf,      \* its settings
  asked,     \* the source it was asked for
  have,      \* the source rows it loaded (its identity map)
  cur,       \* the job it executes
  slot,      \* per source, ticks until the limiter's next slot
  rules,     \* the robots cache of its web adapter
  age,       \* ticks since the adapter's last render, up to CrawlDelay
  budget,    \* ticks left before the adapter timeout
  heard,     \* history: how the last attempt at the current job failed
  quiet,     \* history: ticks since a page was last left, up to CrawlDelay
  silent,    \* history: per source, ticks since it was last called, up to Interval
  bounds     \* what others did, and crashes, so far

database == <<source, run, job, tries>>
adapter  == <<slot, rules, age, budget, quiet, silent>>
session  == <<conf, asked, have, cur, heard, adapter>>
vars     == <<database, toggle, pc, session, bounds>>

NoJob    == <<"none", "none">>
NoToggle == [of |-> "none", to |-> FALSE, was |-> NoRow]

Init ==
  /\ source = [s \in Sources |-> NoRow]
  /\ run = "none"
  /\ job = [j \in Jobs |-> "ABSENT"]
  /\ tries = [j \in Jobs |-> 0]
  /\ toggle = NoToggle
  /\ pc = "idle"
  /\ conf \in Settings /\ asked \in Sources
  /\ have = source
  /\ cur = NoJob /\ heard = "none"
  /\ slot = [s \in Sources |-> 0] /\ silent = [s \in Sources |-> Interval]
  /\ rules = Unread
  /\ age = CrawlDelay /\ quiet = CrawlDelay
  /\ budget = 0
  /\ bounds = [others |-> 0, crashes |-> 0]

\* The session returns or raises; with it go its adapters and loaded rows.
Leave ==
  /\ pc' = "idle"
  /\ have' = [s \in Sources |-> NoRow]
  /\ cur' = NoJob /\ heard' = "none"
  /\ slot' = [s \in Sources |-> 0] /\ silent' = [s \in Sources |-> Interval]
  /\ rules' = Unread
  /\ age' = CrawlDelay /\ quiet' = CrawlDelay
  /\ budget' = 0
  /\ UNCHANGED <<conf, asked, toggle>>

Goto(place) == pc' = place /\ UNCHANGED <<conf, asked, toggle, bounds>>

-----------------------------------------------------------------------------
(* The registry: seed_configuration and the administrator.                 *)

\* seed_configuration raises for settings that enable what is not approved.
Seedable(c) ==
  /\ \A s \in Sources : c.enabled[s] => c.approved[s]
  /\ c.approved["WEB"] => c.reference
  /\ c.enabled["WEB"] => c.profile

\* The checks run_duffel and run_permissioned_web make on the settings.
MayAsk(c, s) ==
  /\ c.enabled[s] /\ c.approved[s]
  /\ IF s = "DUFFEL" THEN c.token ELSE c.reference /\ c.profile

Wanted(c, s) == Row(c.enabled[s], c.approved[s])

\* The unit of work writes the columns that differ from what was loaded.
Flushed(now, loaded, wanted) ==
  [f \in DOMAIN now |-> IF wanted[f] # loaded[f] THEN wanted[f] ELSE now[f]]

\* A whole seeding by another process, with settings of its own.
SeedElsewhere(c) ==
  /\ bounds.others < MaxOthers
  /\ Seedable(c)
  /\ source' = [s \in Sources |-> Wanted(c, s)]
  /\ bounds' = [bounds EXCEPT !.others = @ + 1]
  /\ UNCHANGED <<run, job, tries, toggle, pc, session>>

\* _set_source_enabled: session.get and the check that an enabled source is
\* approved, then the assignment and commit.
ToggleLoad(s, to) ==
  /\ bounds.others < MaxOthers
  /\ toggle = NoToggle /\ source[s].there
  /\ to => source[s].approved
  /\ toggle' = [of |-> s, to |-> to, was |-> source[s]]
  /\ bounds' = [bounds EXCEPT !.others = @ + 1]
  /\ UNCHANGED <<database, pc, session>>

ToggleCommit ==
  /\ toggle # NoToggle
  /\ source' = [source EXCEPT ![toggle.of] =
       Flushed(@, toggle.was, [toggle.was EXCEPT !.enabled = toggle.to])]
  /\ toggle' = NoToggle
  /\ UNCHANGED <<run, job, tries, pc, session, bounds>>

-----------------------------------------------------------------------------
(* run_sources up to the worker.                                           *)

Start(c, s) ==
  /\ pc = "idle"
  /\ run # "done"
  /\ MayAsk(c, s) /\ Seedable(c)
  /\ conf' = c /\ asked' = s
  /\ have' = source
  /\ pc' = "seed"
  /\ UNCHANGED <<database, toggle, cur, heard, adapter, bounds>>

SeedCommit ==
  /\ pc = "seed"
  /\ \A s \in Sources : source[s].there => have[s].there
  /\ source' = [s \in Sources |-> IF have[s].there
                  THEN Flushed(source[s], have[s], Wanted(conf, s)) ELSE Wanted(conf, s)]
  /\ have' = [s \in Sources |-> Wanted(conf, s)]
  /\ Goto("check")
  /\ UNCHANGED <<run, job, tries, cur, heard, adapter>>

\* Another process inserted the rows first: the unique code raises.
SeedConflict ==
  /\ pc = "seed"
  /\ \E s \in Sources : source[s].there /\ ~have[s].there
  /\ Leave
  /\ UNCHANGED <<database, bounds>>

\* The source must be enabled in the database and, as loaded, approved; a run
\* that is there is resumed, whatever the source its jobs are for.
Accepted == source[asked].enabled /\ have[asked].approved

Check ==
  /\ pc = "check" /\ Accepted
  /\ Goto(IF run = "none" THEN "plan" ELSE "next")
  /\ UNCHANGED <<database, have, cur, heard, adapter>>

Refuse ==
  /\ pc = "check" /\ ~Accepted
  /\ Leave
  /\ UNCHANGED <<database, bounds>>

\* The planner selects the enabled sources once more.
Plan ==
  /\ pc = "plan"
  /\ run' = "open"
  /\ job' = [j \in Jobs |-> IF j[1] = asked /\ source[asked].enabled THEN "OPEN" ELSE "ABSENT"]
  /\ Goto("next")
  /\ UNCHANGED <<source, tries, have, cur, heard, adapter>>

-----------------------------------------------------------------------------
(* The worker.                                                             *)

NextJob(j) ==
  /\ pc = "next"
  /\ job[j] = "OPEN"
  /\ cur' = j /\ heard' = "none"
  /\ Goto("begin")
  /\ UNCHANGED <<database, have, adapter>>

Finish ==
  /\ pc = "next"
  /\ \A j \in Jobs : job[j] # "OPEN"
  /\ run' = "done"
  /\ Leave
  /\ UNCHANGED <<source, job, tries, bounds>>

Close(outcome) ==
  /\ job' = [job EXCEPT ![cur] = outcome]
  /\ cur' = NoJob /\ heard' = "none"
  /\ Goto("next")

\* Slip: a refusal counts as transient.
RetriedRefusal(code) == code \in {"TRANSIENT", "REFUSED"} /\ tries[cur] < MaxAttempts

Retried(code) == code = "TRANSIENT" /\ tries[cur] < MaxAttempts

\* An attempt ended: with an answer, a failure to retry, or one to record.
Ended(outcome) ==
  \/ /\ Retried(outcome)
     /\ heard' = outcome
     /\ Goto("backoff")
     /\ UNCHANGED <<job, cur>>
  \/ /\ ~Retried(outcome)
     /\ Close(outcome)

\* A resumed job may have no attempts left.
Exhausted ==
  /\ pc = "begin" /\ tries[cur] >= MaxAttempts
  /\ Close("TRANSIENT")
  /\ UNCHANGED <<source, run, tries, have, adapter>>

\* Slip: failed attempts are not counted.
CountedOnSuccess == UNCHANGED tries

Counted == tries' = [tries EXCEPT ![cur] = @ + 1]

\* default_registry: the adapters these settings have.
Registered(c, s) == IF s = "DUFFEL" THEN c.token ELSE c.profile

MayAttempt == (pc = "begin" /\ tries[cur] < MaxAttempts) \/ pc = "backoff"

Attempt ==
  /\ MayAttempt /\ Registered(conf, cur[1])
  /\ Counted
  /\ Goto("wait")
  /\ UNCHANGED <<source, run, job, have, cur, heard, adapter>>

\* registry.get raises KeyError.
AttemptUnregistered ==
  /\ MayAttempt /\ ~Registered(conf, cur[1])
  /\ Counted
  /\ Close("INVALID")
  /\ UNCHANGED <<source, run, have, adapter>>

\* The limiter lets the call through and books the next slot; the timeout starts.
NextSlot == Interval

Call ==
  /\ pc = "wait" /\ slot[cur[1]] = 0
  /\ slot' = [slot EXCEPT ![cur[1]] = NextSlot]
  /\ silent' = [silent EXCEPT ![cur[1]] = 0]
  /\ UNCHANGED <<source, run, tries, have, rules, age, quiet>>

CallDuffel ==
  /\ cur[1] = "DUFFEL" /\ Call
  /\ budget' = Timeout
  /\ Goto("call")
  /\ UNCHANGED <<job, cur, heard>>

\* Slip: the permission is not checked again by the adapter.
PermittedAlways(c) == TRUE

\* PermissionedWebAdapter._validate_permission
Permitted(c) == c.approved["WEB"] /\ c.reference

CallWeb ==
  /\ cur[1] = "WEB" /\ Call
  /\ Permitted(conf)
  /\ budget' = Timeout
  /\ Goto("robots")
  /\ UNCHANGED <<job, cur, heard>>

CallForbidden ==
  /\ cur[1] = "WEB" /\ Call
  /\ ~Permitted(conf)
  /\ Close("REFUSED")
  /\ UNCHANGED budget

-----------------------------------------------------------------------------
(* The adapters.                                                           *)

DuffelAnswered(outcome) ==
  /\ pc = "call"
  /\ Ended(outcome)
  /\ budget' = 0
  /\ UNCHANGED <<source, run, tries, have, slot, rules, age, quiet, silent>>

Allowed(r) == cur[2] \in r.allowed

Obey(r) ==
  \/ /\ Allowed(r)
     /\ Goto("delay")
     /\ UNCHANGED <<job, cur, heard, budget>>
  \/ /\ ~Allowed(r)
     /\ Ended("REFUSED")
     /\ budget' = 0

\* HttpRobotsChecker.check: from its cache, or with what the site now serves.
RobotsCached ==
  /\ pc = "robots" /\ rules.read
  /\ Obey(rules)
  /\ UNCHANGED <<source, run, tries, have, slot, rules, age, quiet, silent>>

RobotsRead(r) ==
  /\ pc = "robots" /\ ~rules.read
  /\ rules' = r
  /\ Obey(r)
  /\ UNCHANGED <<source, run, tries, have, slot, age, quiet, silent>>

RobotsFail(code) ==
  /\ pc = "robots" /\ ~rules.read
  /\ Ended(code)
  /\ budget' = 0
  /\ UNCHANGED <<source, run, tries, have, slot, rules, age, quiet, silent>>

\* Sleep what remains of the crawl delay, then render the page.
Render ==
  /\ pc = "delay" /\ age >= rules.delay
  /\ Goto("render")
  /\ UNCHANGED <<database, have, cur, heard, adapter>>

\* Slip: the time of the last page is kept for rendered pages only.
LeftOnAnswer(place) == age

\* finally: _last_render_finished_at is set however the page was left.
Left(place) == IF place = "render" THEN 0 ELSE age

PageAnswered(outcome) ==
  /\ pc = "render"
  /\ Ended(outcome)
  /\ age' = Left(pc) /\ quiet' = 0 /\ budget' = 0
  /\ UNCHANGED <<source, run, tries, have, slot, rules, silent>>

\* asyncio.timeout cancels the adapter wherever it is.
TimeOut ==
  /\ pc \in Inside /\ budget = 0
  /\ Ended("TRANSIENT")
  /\ age' = Left(pc)
  /\ quiet' = IF pc = "render" THEN 0 ELSE quiet
  /\ UNCHANGED <<source, run, tries, have, slot, rules, budget, silent>>

-----------------------------------------------------------------------------
(* Time, crashes and the whole.                                            *)

\* Slip: the clock runs past zero.
DownTooFar(n) == n - 1

Down(n) == IF n = 0 THEN 0 ELSE n - 1
Up(n, cap) == IF n < cap THEN n + 1 ELSE n

Tick ==
  /\ pc \in Running
  /\ pc \in Inside => budget > 0
  /\ slot' = [s \in Sources |-> Down(slot[s])]
  /\ budget' = Down(budget)
  /\ age' = Up(age, CrawlDelay) /\ quiet' = Up(quiet, CrawlDelay)
  /\ silent' = [s \in Sources |-> Up(silent[s], Interval)]
  /\ UNCHANGED <<database, toggle, pc, conf, asked, have, cur, heard, rules, bounds>>

\* The process dies; its jobs stay as committed.
Crash ==
  /\ pc # "idle"
  /\ bounds.crashes < MaxCrashes
  /\ bounds' = [bounds EXCEPT !.crashes = @ + 1]
  /\ Leave
  /\ UNCHANGED database

Work == \/ \E j \in Jobs : NextJob(j)
        \/ Exhausted \/ Attempt \/ AttemptUnregistered
        \/ CallDuffel \/ CallWeb \/ CallForbidden
        \/ \E o \in DuffelAnswers : DuffelAnswered(o)
        \/ RobotsCached
        \/ \E a \in SUBSET Searches, d \in {0, CrawlDelay} : RobotsRead(Rules(a, d))
        \/ \E o \in RobotsFailures : RobotsFail(o)
        \/ Render
        \/ \E o \in PageAnswers : PageAnswered(o)
        \/ TimeOut

Step == SeedCommit \/ SeedConflict \/ Check \/ Refuse \/ Plan \/ Work \/ Finish

Next == \/ \E c \in Settings, s \in Sources : Start(c, s)
        \/ Step
        \/ Tick
        \/ \E c \in Settings : SeedElsewhere(c)
        \/ \E s \in Sources, to \in BOOLEAN : ToggleLoad(s, to)
        \/ ToggleCommit
        \/ Crash

\* The event loop runs the session and time passes; nothing else is promised.
Spec == Init /\ [][Next]_vars /\ WF_vars(Step) /\ WF_vars(Tick)

-----------------------------------------------------------------------------
(* source_health: what the jobs of a source say of it.                     *)

JobsOf(s) == {j \in Jobs : j[1] = s /\ job[j] # "ABSENT"}

Health(s) ==
  LET some(codes) == \E j \in JobsOf(s) : job[j] \in codes
      all(codes)  == \A j \in JobsOf(s) : job[j] \in codes
  IN IF ~source[s].enabled THEN "DISABLED"
     ELSE IF some({"CHANGED"}) THEN "PARSER_CHANGED"
     ELSE IF some({"REFUSED"}) THEN "BLOCKED"
     ELSE IF JobsOf(s) # {} /\ all({"SUCCEEDED"}) THEN "HEALTHY" ELSE "DEGRADED"

-----------------------------------------------------------------------------
(* Properties.                                                             *)

\* Everything has its type, and attempts and clocks keep to their bounds.
TypeOK ==
  /\ source \in [Sources -> RowType]
  /\ run \in {"none", "open", "done"}
  /\ job \in [Jobs -> {"ABSENT", "OPEN", "SUCCEEDED"} \cup Failure]
  /\ tries \in [Jobs -> 0..MaxAttempts]
  /\ pc \in Places
  /\ conf \in Settings /\ asked \in Sources
  /\ have \in [Sources -> RowType]
  /\ cur \in Jobs \cup {NoJob}
  /\ slot \in [Sources -> 0..Interval] /\ silent \in [Sources -> 0..Interval]
  /\ age \in 0..CrawlDelay /\ quiet \in 0..CrawlDelay /\ budget \in 0..Timeout
  /\ heard \in Failure \cup {"none"}
  /\ toggle = NoToggle \/ toggle.of \in Sources

\* What a session has made sure of when it talks to the source of its job.
Cleared ==
  /\ cur[1] = asked => MayAsk(conf, asked)
  /\ IF cur[1] = "DUFFEL" THEN conf.token
     ELSE conf.approved["WEB"] /\ conf.reference /\ conf.profile
  /\ pc \in {"delay", "render"} => rules.read /\ cur[2] \in rules.allowed

\* However runs are resumed, sources toggled and settings changed, jobs are planned
\* only for the source asked for, enabled in the database at that moment and
\* enabled, approved and permitted by the session's settings.  The source a session
\* was asked for it calls only so; any other, for which it resumes a run, only with
\* a Duffel token, or with an approved, referenced permission and a profile of the
\* portal; and a page is opened only where robots.txt, as the session read it, allows
\* the search (run_duffel, run_permissioned_web, CollectionPlanner, registry.get,
\* _validate_permission, HttpRobotsChecker.check).  That a source resumed for is
\* enabled is not part of it: see CallsEnabled.
CallsPermitted ==
  [][/\ \A j \in Jobs : job[j] = "ABSENT" /\ job'[j] # "ABSENT" =>
          j[1] = asked /\ source[asked].enabled /\ MayAsk(conf, asked)
     /\ pc' \in Inside => Cleared']_vars

\* Documented (docs/api-reference.md:116-118, docs/source-policy.md:46-47 and 76): an
\* adapter runs only when its source's enablement, approval and credential or
\* permission settings are all satisfied.  The source of a resumed job is not checked.
CallsEnabled == pc \in Inside => MayAsk(conf, cur[1])

\* Through retries, failures, timeouts and the change from one job to the next,
\* a session leaves the rate limiter's interval between two calls to a source
\* and the crawl delay between two pages of the portal (SourceRateLimiter.wait,
\* PermissionedWebAdapter.search).
Calling == pc = "wait" /\ pc' \in {"call", "robots", "next"}
Spaced ==
  [][/\ Calling => silent[cur[1]] >= Interval
     /\ pc = "delay" /\ pc' = "render" => quiet >= rules.delay]_vars

\* A captcha, a robots or a terms refusal, or any failure that is not
\* transient, is the session's last call for that job, and a refused job keeps
\* an enabled source from being reported healthy or merely degraded
\* (TRANSIENT_FAILURES, _health_status).
RefusalStands ==
  [][/\ Calling => heard \in {"TRANSIENT", "none"}
     /\ \A j \in Jobs : job'[j] = "REFUSED" =>
          Health(j[1])' \in {"DISABLED", "PARSER_CHANGED", "BLOCKED"}]_vars

\* A session ends: no limiter, crawl delay, silent source or retry holds it for
\* ever (asyncio.timeout, the bound on attempts).
SessionEnds == (pc # "idle") ~> (pc = "idle")

=============================================================================
