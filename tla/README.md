# Airfare APIx: a TLA+ verification development

Airfare APIx collects air fares from approved sources every day, cleans them,
reduces them to one canonical fare per flight, and computes an airfare price
index from them. The backend (`src/backend/app`, Python, FastAPI, SQLAlchemy on
PostgreSQL) is a modular monolith; the frontend (`src/frontend`) reads it.
This directory models what in them depends on the order of steps (transactions,
awaits, retries, crashes, sessions that overlap, answers that come late) and
what the rules that turn quotes into an index promise together. Paths below are
relative to `src/backend/app` unless they say otherwise.

## 1. Inventory

| component | state | operations | what must hold |
|---|---|---|---|
| Collection run (`services/planner.py`, `collection.py`, `worker.py`, `models/collection.py`) | `collection_runs`, `collection_jobs`, `raw_quotes`, `fare_observations`; in each session the identity map, the list of jobs, the loop counter | plan, execute, retry, fail, resume, close | a source is called at most `adapter_max_retries + 1` times per job; a finished run accounts for all its jobs; nothing settled changes |
| Canonical fares (`services/canonical.py`) | `canonical_fares`, `canonical_fare_observations`, the inclusion of observations | canonicalize once per run | one fare per flight, supported by an included observation, written once; the numbers follow the policy |
| Normalization (`pipeline/normalize.py`), outliers (`pipeline/outliers.py`) | flags, score, status and inclusion of observations | normalize a quote, flag outliers | each quote is eligible, excluded with a reason, or rejected; flags are paid for once, and nothing excluded counts again |
| Scheduler and entry points (`scheduler.py`, `main.py`, `cli.py`, `api/v1/collection_runs.py`) | APScheduler's job | call `run_sources` daily, on POST, from the CLI | one run per date, trigger and data class |
| Index series (`indexing/basket.py`, `aggregate.py`, `service.py`, `methodology.py`) | basket and base prices, daily route-window prices, daily indices and their components | ensure the basket, aggregate, freeze the base, compute the index of a run | the base is frozen once; indices of one series share it; prices and index of a date come from one run |
| Period aggregates (`indexing/periods.py`, `api/v1/index.py`) | `period_indices`, `period_index_inputs` | refresh the week and month of a daily index | an aggregate is that of the stored daily indices |
| Source registry (`services/seed.py`, `api/v1/source_health.py`, `services/source_health.py`) | `sources.enabled`, `review_status` | seed (in every run), enable, disable, health | jobs are planned only for an enabled, approved source, and a session calls the source it was asked for only so; the documents say it of every source called, which a resumed run breaks (finding) |
| Adapters, web compliance (`collectors/`) | robots cache, crawl-delay clock, browser | search, robots check, pacing | robots and crawl delay respected; failures mapped to codes |
| Historical reference (`services/historical.py`, `api/v1/historical.py`, `src/scripts/`) | datasets and their observations | import, backtest | an imported dataset never changes |
| Views (`services/aggregation.py`, `analytics.py`) | none | read | routes, sources and rows add up to the index and to each other |
| Exports (`services/exports.py`, `api/v1/exports.py`) | a session's identity map during several selects | build a package | a package agrees with itself |
| Frontend (`src/frontend/src`) | request state of each view, the entry chosen | load, time out, retry, choose, leave | what a page shows is what it asked for last; it never loads for ever |

How they interact: an entry point opens a session and calls
`CollectionService.run_sources`, which seeds the sources, plans the run, hands
each open job to `CollectionWorker.execute`, then flags outliers, canonicalizes
and closes the run. Everything is shared through the database; nothing but
APScheduler's `max_instances=1` keeps two such calls apart. The index is not
part of the run: `calculate_index_for_run` is called by the operator
(`POST /admin/index/recalculate`, `cli.py apix-run`) for a finished run.

What is hard here:
- sessions keep their loaded rows across commits (`expire_on_commit=False`,
  `db/session.py:17`), so overlapping sessions act on stale rows;
- each phase has its own commit: a crash between two leaves a state that the
  next request must complete without doing anything twice;
- the attempt budget must survive restarts, timeouts and rollbacks;
- a commit can fail on a unique constraint after the check that meant to avoid
  it;
- passes over the observations may be repeated after a crash, on rows that the
  first time already changed;
- a source may answer, fail, refuse or be silent, and robots.txt, a rate limit, a
  crawl delay and a timeout meet in one attempt;
- reports and pages are put together from several selects or requests while the
  data changes.

`PROJECT.json` lists every hazard at its line, with the properties that cover it
or why none does.

## 2. Modules

| module | what it is |
|---|---|
| `CollectionRun` | one run, its jobs and the sessions that execute it; properties |
| `RunContract` | what a run promises to its readers, without sessions or restarts |
| `CollectionRunInvariant` | the inductive invariant when requests do not overlap |
| `CollectionRunProofs` | TLAPS: types, the invariant, budget, accounts, canonical fares |
| `CollectionRunRefinement` | TLAPS: canonical fares under overlap, the refinement of `RunContract` |
| `MCCollectionRun` | the quotes of the instances TLC checks |
| `OrderStatistics` | medians and the first dates of a set, as operators |
| `DataLemmas` | TLAPS: these operators are defined and return what they promise; sums and counts over finite sets |
| `IndexSeries` | the index of one data class: basket, base, daily prices and indices, aggregates; properties |
| `SeriesContract` | what the series promises to its readers, without requests or crashes |
| `IndexSeriesInvariant` | its inductive invariants, with and without overlapping requests |
| `IndexSeriesProofs` | TLAPS: what holds however requests overlap, what holds when they do not, the refinement of `SeriesContract` |
| `MCIndexSeries` | the runs, dates and prices of the instances TLC checks |
| `FarePipeline`, `MCFarePipeline` | from quotes to the index of a date and its reports; the quotes TLC checks |
| `FarePipelineProofs` | TLAPS: verdicts, fares, the mean and the reports, for any quotes |
| `SourceGateway`, `MCSourceGateway` | the registry of sources, the rate limiter and the adapters, in time; settings |
| `SourceGatewayProofs` | TLAPS: types, permitted calls, spacing, refusals |
| `HistoricalReference`, `MCHistoricalReference` | imports of reference data, export and backtest; payloads |
| `HistoricalReferenceProofs` | TLAPS: imports are answered truthfully, an export agrees with itself, a backtest explains itself |
| `RemoteView`, `MCRemoteView` | a page with a list and a detail; a route explorer |
| `RemoteViewProofs` | TLAPS: no stale answer, no detail older than its list |

How they fit together: `SourceGateway` is an attempt of `CollectionRun` seen from
inside (who may be called, when, and how a call ends); `FarePipeline` is the content
of the rows `CollectionRun` writes and of the index `IndexSeries` writes for one date;
`HistoricalReference` and `RemoteView` read what these leave. `CollectionRun` implements
`RunContract` and `IndexSeries` implements `SeriesContract`, both when requests do not
overlap; the five share no variables and state what they take from each other.

### CollectionRun

The rows `run`, `job`, `raw`, `excluded` and `canon` are the database. Each
session has a program counter `pc` and what it holds in memory: the source codes
asked for (`want`), its identity map (`runSeen`, `seen`), the jobs it selected
(`todo`), the one in execution (`cur`) and the iterations of the attempt loop
(`left`). `calls`, `answers` and `crashes` are history and bound.

| action | code |
|---|---|
| `Request`, `ReturnExisting` | `plan_collection_run`'s select (planner.py:47-55); a finished run is returned (collection.py:127-132) |
| `Insert` | the run's row and its jobs in one commit, or the unique constraint (planner.py:57-118) |
| `Begin`, `LoadJobs` | RUNNING and commit; the select of open jobs (collection.py:134-149) |
| `StartJob`, `BeginAttempt` | `execute`: RUNNING, the attempts left, the count committed before the call (worker.py:76-99) |
| `CallAdapter` | the adapter is called (worker.py:134-145) |
| `AnswerEmpty`, `AnswerQuotes`, `AnswerRejected` | the three ends of an answer (worker.py:146-202) |
| `FailTransient`, `FailPermanent`, `FailMalformed`, `FailUnknown`, `FailJob` | the except clauses, with or without rollback, and `_fail_job` (worker.py:203-216, 276-302) |
| `CheckCanonical`, `Canonicalize` | `canonicalize_run`: its existence check, then fares and exclusions in one commit (canonical.py:69-227) |
| `Finish` | counters, verdict, commit (collection.py:155-181) |
| `Crash` | the process dies or loses the database: the open transaction and the session are lost |

`Column` is the unit of work: a column is written only if the value assigned
differs from the one loaded, so a session with a stale row may write nothing, or
write over another session's value. A rollback (`FailMalformed`, `FailUnknown`)
expires every loaded row; an expired row is read again when next used.

Abstractions, and why they lose nothing:
- one run identity (date, trigger, data class): runs share nothing but sources;
- a quote is a member of `Offers`, named by its content hash; normalization maps
  it to eligible, not eligible, or an exception (`Broken`); `FlightOf` and
  `TotalOf` give what canonicalization compares;
- the rows and commit of the planner are one step, since nothing is visible
  before the commit; so are canonicalization's reads and commit: between them
  another session can only add observations, and the flights already seen
  conflict on the unique constraint all the same;
- jobs are executed in any order (the code's order is that of their ids, random
  UUIDs);
- routes and sources do not disappear (worker.py:77-81), and the enabled and
  approved checks (collection.py:105-115) have passed;
- `adapter_max_retries` does not change between restarts;
- pacing and backoff only delay.

### IndexSeries

The tables are `basket`, `base` (an item's price and components), `window` (the
basket's base dates), `daily` (who owns the price rows of a date), `index`, `period`
and `inputs`. A session is one call of `calculate_index_for_run` or of
`recalculate_period_aggregates`; it holds the run asked for, the basket's dates as it
loaded them, the item rows, the periods left to refresh, and the dates and rows of
the refresh.

| action | code |
|---|---|
| `Recalculate`, `CreateBasket` | `ensure_mvp_basket`: select, insert or unique constraint (indexing/basket.py:32-72) |
| `FindPrices`, `InsertPrices` | `aggregate_route_window_prices`: own rows returned, another run's refused, else inserted (indexing/aggregate.py:31-111) |
| `LoadItems`, `SelectBase`, `CommitBase` | `freeze_base_period_if_ready`: items loaded, each with its own select and assignment, one commit (indexing/basket.py:84-138) |
| `FindIndex`, `InsertIndex` | the index of the date: own, another run's, or a new one (indexing/service.py:46-119) |
| `RefreshAll` | the backfill of every week and month (api/v1/index.py:167-186) |
| `SelectDays`, `LoadPeriod`, `WritePeriod` | `refresh_period`: the daily indices, the row, its counts and inputs (indexing/periods.py:158-226) |
| `Crash` | the process dies, or the database refuses a commit |

Abstractions, and why they lose nothing:
- one data class and one basket: they share no rows with the others;
- a run is one that is COMPLETED or PARTIAL, with fixed prices: it and its
  canonical fares never change again (`SettledStays`, `CanonicalFrozen`);
- prices are natural numbers of the least currency unit; a median that falls between
  two of them is rounded half up by the `numeric(12, 2)` column;
- items are looked at in any order (the code's is that of their ids, random UUIDs);
- the existence check and the load of the items before the index are one step: an
  index of the date that appears in between makes the insert fail;
- items are loaded again where the code selects them again, because nothing keeps
  them in the weak identity map in between, while the basket row stays referenced;
- weights are equal and every item counts alike in the coverage; the value of an
  index, and an aggregate's mean, confidence and warnings, are left out: an index is
  the run and the base it refers to, its completeness and which items it covers;
- the failure of `WritePeriod` is allowed whenever the stored row is not the loaded
  one: PostgreSQL may block, order or refuse two such transactions;
- `set_seeded_base_prices` is called by tests only and left out.

### FarePipeline

One run from its first quote to the reports. `done` and `obs` are the jobs and
observations, `fares` the canonical fares with the role each observation has in them,
`run` the count on the closed run, `price` and `index` the rows of the date, `base` the
basket. One session at a time (`pc`, `seen`: the approved sources in its identity map)
may die and be followed by another; the approval of a source may be revoked at any time.

| action | code |
|---|---|
| `Begin` | `run_sources` asked again for an unfinished run (services/collection.py:127-149) |
| `RunJob`, `FailJob` | the last attempt of a job: the observations of its quotes, or none, with or without a rollback, which would also expire the loaded sources (services/worker.py:146-216, pipeline/normalize.py) |
| `Canonicalize` | outlier flags and `canonicalize_run`, one commit (collection.py:150-154, pipeline/outliers.py, services/canonical.py) |
| `Close` | the count and verdict; after a crash, with a second outlier pass (collection.py:150-181) |
| `Price`, `Index` | daily prices and the daily index (indexing/aggregate.py, methodology.py, weights.py, price_relative.py, service.py) |
| `Crash`, `Revoke` | the session dies; the review of a source changes (external to the run) |

Pure parts are operators: `HardFlags` (the rules of `normalize_raw_quote`), `Outliers`,
`Repeated`, `Cheapest`, `Selected`, `Role`, `Fare`, `NewIndex`, `RouteCoverage`,
`QualitySummary`. Money is in hundredths, medians are kept doubled and an index value is
an exact fraction; `HalfEven` is the rounding of a canonical fare's median (canonical.py:58). The
other `quantize` calls, of basket weights, coverage, reports, periods and historical
values, are left out: no property depends on the digits they drop.
A relative is kept times `Scale`, a multiple of twice every base price, so that it is a
whole number: any such multiple will do, and no property depends on which.

Abstractions, and why they lose nothing:
- a quote carries the outcome of what normalization reads (its travel date is the one
  asked for, another or missing; its airports likewise), not the text it reads it from;
- `SOURCE_MISMATCH`, `DATA_CLASS_MISMATCH` and `INVALID_BOOKING_WINDOW` compare columns
  copied from one row, and cannot be raised;
- a quote is unreadable (`Rejected`) only where normalization raises, which no quote of
  the adapters does: a test patches it in. Such a row keeps the total as it came; a
  negative one would violate the table's CHECK and end as a failed job (`FailJob`);
- jobs run in a fixed order: no rule depends on it.

### SourceGateway

`source` is the registry; `run`, `job`, `tries` the LIVE run of the date; `toggle` an
administrator's request under way. One session is followed: its settings (`conf`), the
source asked for, the rows it loaded (`have`), the job (`cur`), and what lives in its
adapters: the limiter's slots, the robots cache, the time of the last page, the timeout
left. Time passes in ticks; `silent`, `quiet` and `heard` are history.

| action | code |
|---|---|
| `Start`, `SeedCommit`, `SeedConflict` | the checks on the settings and `seed_configuration` (collection.py:50-104, services/seed.py) |
| `SeedElsewhere` | a seeding by another process, with settings of its own |
| `ToggleLoad`, `ToggleCommit` | `_set_source_enabled` (api/v1/source_health.py) |
| `Check`, `Refuse`, `Plan` | the source enabled and approved; the planner's own select (collection.py:105-133, planner.py:60-118) |
| `NextJob`, `Exhausted`, `Attempt`, `AttemptUnregistered` | the attempt loop and `registry.get` (worker.py:76-137, collectors/registry.py) |
| `CallDuffel`, `CallWeb`, `CallForbidden` | `SourceRateLimiter.wait` is over and the adapter called; `_validate_permission` |
| `DuffelAnswered` | how a Duffel request can end (collectors/duffel.py) |
| `RobotsCached`, `RobotsRead`, `RobotsFail` | `HttpRobotsChecker.check` (collectors/web_compliance.py) |
| `Render`, `PageAnswered` | the crawl delay, the page and its `finally` (collectors/permissioned_web.py, web_browser.py) |
| `TimeOut` | `asyncio.timeout` round the adapter, wherever it is |
| `Finish`, `Tick`, `Crash` | the run is closed; time; the process dies |

`Health` is `_health_status` for the jobs of the run. Abstractions: failure codes are four
kinds, those anything tells apart; one session is followed, with adapters of its own, as
each session has; Duffel's live mode and `enforce_source_rate_limits` are on; a blank
user agent is not modelled.

### HistoricalReference

`dataset` and `row` are the committed datasets and observations, `period` the monthly rows
of the index, `importer` the sessions that import, `reader` one export or backtest: the
months in its identity map, the datasets listed, the references read, its points and
warnings.

| action | code |
|---|---|
| `Ask`, `AskMalformed` | `payload_from_csv`, the schema (services/historical.py:37-142, schemas/historical.py) |
| `FindCode`, `FindHash`, `Insert`, `Commit`, `RollBack` | `import_historical_dataset`: its two selects, the flush with the unique code, the one commit |
| `Kill` | the importer dies |
| `Refresh` | the index computes a month again (see `IndexSeries`) |
| `Request`, `ReadPeriods`, `ReadDatasets`, `FindDataset`, `ReadReferences`, `Compare`, `ReadRows` | `build_json_export` and `build_backtest`, select by select |

A select sees what is committed then (READ COMMITTED), but a row already in the identity
map keeps the values it was loaded with (`Loaded`). A point is a pair of values with its
bases; the division by them is left out except where it fails. The Excel package is made
of the JSON one.

### RemoteView

A page with two `useRemoteData` hooks: per hook the retries, the dependencies its effect
last ran with, the request in flight with what it was served so far, requests cleaned up
and not settled, and the state shown.

| action | code |
|---|---|
| `RunEffects` | React runs the effects whose dependencies changed: cleanup, request, loading (hooks/useRemoteData.ts:12-39) |
| `Select`, `Retry`, `Revisit` | a click on an entry; on the retry `DataState` offers; leaving and opening the page (App.tsx) |
| `Serve` | the server answers one of a loader's parallel requests (api.ts) |
| `Deliver`, `Fail`, `TimeOut` | the loader settles, or the timer aborts it (useRemoteData.ts:14-32) |
| `SettleLate` | a request that was cleaned up settles: nothing happens |
| `Advance` | the data behind the API changes |

Between a click and the effects there is a frame with the old detail beside the new
selection; `ShownIsAsked` speaks of the states after the effects.

## 3. Runs

| run | instance | what it shows |
|---|---|---|
| `serial_safety` | 2 sources, 1 search, 3 offers, 2 attempts, 2 crashes, one session at a time | every property of a run whose requests do not overlap, the inductive invariant, the refinement of `RunContract`, and that sessions end and runs settle |
| `overlap_holds` | 3 sessions, 1 job, 5 offers, 1 attempt | what overlap cannot break |
| `overlap_attempt_budget` | 2 sessions, no crash | the budget is exceeded under overlap (finding) |
| `second_answer` | 1 session, 1 crash | a resumed job stores a second answer (finding) |
| `series_serial` | 5 runs on 4 dates, 2 items, 2 weeks and a month, base of 2 dates, 1 crash, one request at a time | the series implements `SeriesContract`: the base is frozen once, of all that is due, before an index is published over it; aggregates are those of the stored indices and catch up |
| `series_overlap` | 3 runs on 2 dates, 2 items, base of 1 date, 2 requests, 1 crash | what overlap cannot break: one run per date, nothing replaced, every base a median |
| `base_overwritten` | the same, no crash | two requests freeze the base, the second replaces it (finding) |
| `fare_pipeline` | an airline and two agencies, 3 cells on 2 routes, up to 4 quotes an answer, 1 crash, 1 revocation | flags, scores, fares, index and reports account for the quotes, and for each other, wherever the session dies |
| `source_gateway` | 2 searches, 4 settings, 2 attempts, interval and crawl delay 2, timeout 1, 1 other writer, 1 crash | only permitted calls, spaced in time, no refusal repeated, every session ends |
| `disabled_source_called` | 1 search, 2 settings, 1 attempt, 1 crash | a run resumed for another source calls a source disabled since (finding) |
| `historical_reference` | 2 importers, 5 payloads, 3 months, 3 imports, 1 kill, 1 refresh | imports are answered truthfully, a backtest explains itself, an export agrees with itself |
| `remote_view` | a list that grows twice, 2 requests per detail, 3 clicks, 2 visits | what is shown is what was asked for last, no detail is older than its list, nothing loads for ever |

The bounds of the collection run: two attempts are the least with a retry and a last
attempt; two crashes let a resumption be interrupted again; two jobs separate "this
job" from "the other jobs" in the list, the counters and all three verdicts; the
offers include two with the same flight and total (a duplicate) and one that
normalization rejects, under overlap also another total and another flight.

The bounds of the series: two dates are the least with a median of two prices, and
two more let the base be frozen before, between and after other dates; one date has
two runs, one of which does not count for the base; each item lacks a fare on one
date, so that items become ready apart and one index has insufficient coverage; two
weeks of one month separate the two aggregates. Under overlap a base of one date is
enough for two requests to freeze it from different dates.

The bounds of the pipeline: a cell needs five fares before outliers are looked for, so
the busy cell has answers that reach five and more; they bring ties, duplicates of one
source, conflicts between sources, an outlier that shows only in a second pass, a quote
with more flags than its score can pay for, and each way a fare's parts can disagree.
One cell has little weight and one may lack a base or a price, so that an index is
published with a cell missing, is short of coverage, and is provisional.

The bounds of the gateway: a timeout shorter than the crawl delay makes timeouts hit the
wait for a page as well as the page; two attempts and two searches bring a retry of the
same page and the change to the next. The settings differ in what a resumed session lacks
for the source of a job: a token (`WebOnly`), the permission (`DuffelOnly`), enablement
alone (`PortalOff`: the portal approved, permitted and off), or enablement and approval
with the token there (`DuffelOff`). Each can follow, and be followed by, each other, so a
call is made, refused or impossible for each reason apart.

The bounds of the reference data: two contents of one code race for it; one dataset has
a month twice, one a zero first month, one a later zero, one a clash of its route rows;
three months are the least with a correlation. Those of the view: three requests in a row
for one hook, and a click that arrives while each is in flight.

`MaxCrashes` and its like bound only how often a process dies or another writes; requests
are unbounded in the collection and the series. `CHECK_DEADLOCK` is left on there: a
finished run can always be asked for and returned, and an index always asked for again.
The other four systems really stop (the run is finished, the imports are over, the page
shows its data), and their configurations switch it off.

Fairness. `Progress` is weak fairness of each session's own steps. In a collection
run every await is bounded (`asyncio.timeout` round the adapter, worker.py:134-145;
backoff capped, worker.py:108-111; pacing bounded by the rate limit); an index request
waits for the database only. `Asked` says that somebody asks again and again, for the
unfinished run or for the aggregates: nothing in the code does it after a crash, it
takes the operator, and `RunSettles` and `PeriodsCatchUp` are claimed only under it.
`SourceGateway` has weak fairness of the session's steps, by the event loop, and of
time: no source has to answer, the timeout ends the wait. `RemoteView` has weak fairness
of React's pending effects and of the timers: no server has to answer. Crashes, clicks
and other writers are never fair.

Each property has a mutant (`PROJECT.json`): a slip in one definition, kept beside it or
in the section of slips of its module, under which TLC finds the property violated.

## 4. Proofs

All theorems are for any values of the constants that satisfy the named assumption of
the component's module.

### Collection run

Overlap or not:
- `TypeCorrect`: `TypeOK`, which includes `attempt_count <= MaxAttempts`. It needs
  `AttemptReady` (a session about to attempt has attempts left by the count it has
  loaded): `TypeInv == TypeOK /\ AttemptReady` is inductive.
- `CanonicalFaresSupported`, `CanonicalFaresFrozen`: the first from an invariant on
  the included observations (excluding duplicates keeps one of each fare), the
  second from the unique constraint: fares once found only grow, so a second
  write always conflicts.

Without overlap (`Serial`): `SerialInv` is inductive. The properties are not
inductive themselves, because they speak of stored rows while the code computes
from loaded ones; the invariant adds, for each stage of the one live session, that
its loaded rows are the stored ones or expired (`Fresh`), that the jobs on its list
are exactly the open ones (`ListIsOpenJobs`), and that the loop counter is what the
attempt count leaves (`Attempting`). From it: `BudgetHolds`, `FinishedRunsAccount`,
`FinishedRunsAreCanonical`, `SettledForGood`, and `RunImplementsContract` (initial
states map to initial states, every step to a step of `RunContract` or a stutter).

### Data

`OrderStatistics` picks a value by its rank with CHOOSE; `AtRankCorrect` proves that
the value exists for every rank (the least value with enough others not above it),
`MedianBetween` bounds the median, `FewAboveMedian` counts the values beyond a multiple of
it, `EarliestCorrect` proves that the limited query returns exactly `n` dates, all earlier
than the rest. The inductions they need are by the least counterexample: a set of natural
numbers has a least element.

Sums are the community modules' `SumFunctionOnSet`, a fold over an order of the set that a
CHOOSE picks. `SumsExist` and `SumsUnique` prove that the fold is defined, `SumRemove` that
any element may be taken out first; from these follow `SumBetween` (a weighted mean lies
between its values), `SumByPart` and `CountByPart` (parts add up to the whole). An
induction over a finite set is stated for a family of its subsets (`SubsetInduction`,
`ElementInduction`), since no backend instantiates a theorem about every predicate.

### Index series

Overlap or not:
- `TypeCorrect`: `TypeOK` needs `RequestReady`: past the daily prices the run of a
  request owns its date, and a refresh has a period to refresh. That the base, its
  dates and the order of the backfill are defined at all rests on the theorems about
  medians.
- `IndexOwnsItsPrices`, `PublishedForGood`: from `RequestReady` and the two unique
  constraints.
- `BaseIsAlwaysAMedian`: what a session has assigned and not yet committed is a
  median too (`AssignedAreMedians`), and daily prices that arrive in between leave it
  one, because they are only added. So overlap can replace a base, but never with
  something that is not a median of stored prices.

Without overlap (`Serial`): `SerialInv` adds that a session's rows are the stored ones
(`ItemsFresh`, `BasketFresh`, `RefreshFresh`), and that a period that lacks an index is
on the queue of the session under way (`PeriodsAwaited`). From it: `BaseStaysFrozen`,
`SeriesIsComparable`, `BaseIsDated`, `AggregatesAreCounts`, `AggregatesAreCurrent`.

`ContractInv` adds what the loop of `freeze_base_period_if_ready` has done so far
(`FreezeAgrees`): an item it has looked at has been given the base it would get now, or
cannot have one, and from its commit to the index nothing is left to freeze. It cannot be
dropped: `SeriesContract` freezes in one step all that is due, while the code selects item
by item and commits once. `SeriesImplementsContract` maps the daily prices to `owner` and
has one step per commit: `InsertPrices` owns a date, `CommitBase` freezes (or stutters when
nothing is due), `InsertIndex` publishes, `WritePeriod` aggregates, and every select,
every end and every crash stutters.

### Fare pipeline

`IInv` describes each table as the pass that writes it leaves it. `Sound` says of a row
that its status, its inclusion and its score are what its flags make them, whatever flags
they are; this is what lets a pass be repeated on rows that an earlier one changed. It is
stated for a table `O` of rows, since `Canonicalize` reads the rows the outlier pass left
and writes others in the same commit. `SoundFares` says of a fare which of its rows count
(`Counted`: all but the duplicates and those of unapproved sources), that its price lies
between two of the quotes used, its counts and its conflict mark, and that no row is in two
fares; `AlikeFares` carries it over a later outlier pass. `Judged` says that once the fares
are there each row that counts is in one, and that the closed run's count is theirs;
`SoundPrice` and `SoundIndex` tie a price and a relative to a fare, and the index to the
weights. `Phases` tells which tables exist in which state: a job is open only while there
are no fares, or a late observation would be outside all of them. The properties are not
inductive on their own: `FaresAccount` cannot survive an outlier pass without the
soundness of the rows, `IndexIsMean` and `ReportsAgree` relate tables that different steps
write.

From it, for any sources, searches, quotes, weights and base prices: `TypeCorrect`,
`VerdictsAreExplained`, `FaresAreAccounts` (a median lies between two of its values),
`IndexIsAMean` (`SumBetween`), `ReportsAlwaysAgree` (`CountByPart`), and two theorems on
steps, `ExclusionsAreFinal` and `FewOutliers` (`FewAboveMedian`, and that a fare flagged
deviates by more than twice the median deviation).

`PipelineAssumption` asks of a quote what the adapters give it (a fare class; no two quotes
of one answer with one content hash, `uq_raw_job_content`), positive weights and base
prices, and finitely many sources, searches and quotes.

### Source gateway

`SessionInv` has three parts. `Progress`: a session may ask the source it was asked for, one
at work has an open job, and one that backs off has attempts left. `Checked`: where the session stands tells what it has checked
(an adapter registered, a permission, a rule of robots.txt). `Clocks`: the ticks until the
limiter's next slot and the ticks since the last call of the source together make the
interval, and what the adapter remembers of its last page is the truth. Types alone are
not inductive, and `Spaced` speaks of one step only. With `Registry` (rows are never
removed, so what was loaded is still there) follow `TypeCorrect`, `OnlyPermittedCalls`,
`CallsAreSpaced` and `RefusalsStand`, for any interval, delay, timeout and settings.
`OnlyPermittedCalls` rests on two facts: a job is made by the planner and nowhere else
(`OnlyThePlannerPlans`: closing a job never touches one that is not open), and the checks
made at the start hold of the session's settings to its end. It says of a source that a
resumed run belongs to only what the adapters check, and not that it is enabled:
`CallsEnabled` would, and `disabled_source_called` shows it false.

### Historical reference

`ImportAnswered` needs `StagedAlone`: a flushed dataset holds its code until it is
committed or rolled back, so a commit never meets another dataset of its code, and what
was answered stays true because datasets are only added. `ExportAgrees` needs that the
points of a backtest were made of the months the session holds (`ReaderInv`).
`BacktestsAreExplained` follows the reader from select to select (`BacktestInv`): the
references it read are lines of the dataset it found, because codes are unique and rows
complete and neither ever changes; the order of the points exists because a finite set has
a month at every rank (`RankTaken`).

### Remote view

`ViewInv` says of each hook that its request in flight and its state are those of its
newest request, for what its effect last ran with (`InFlight`, `ShownIsNewest`); that a
list once shown stays until the page is left, and that without a list nothing is chosen
and no detail asked for (`ListFirst`); and that what a detail was served so far is not
older than the list (`ServedLater`). From it `NoStaleAnswer` and `DetailIsNotOlder`.

Model-checked only: the liveness properties (`SessionEnds`, `RunSettles`, `PeriodsCatchUp`,
`LoadingEnds`: TLAPS has no rules for fairness here) and the violations. Every safety
invariant and every action property of the passing runs is a theorem; the two refinements,
`RunImplementsContract` and `SeriesImplementsContract`, and what is claimed only of requests
that do not overlap, assume `Serial`.

## 5. Findings

Four runs end in a violation of what a document or a message of the repository says;
see `findings` in `PROJECT.json`: the attempt budget under overlapping requests, the
second answer after a crash, the disabled source called for a resumed run, and the base
replaced under overlapping requests.

Read while modelling, and without a run of their own:
- a run is found by date, trigger and data class only (`planner.py:47-55`): resumed for
  another source it has no job for that one, though `docs/architecture.md:209-210` has one
  job per route, window and enabled source (the cause of `disabled_source_called`);
- two overlapping sessions of one run break more than the attempt budget: the one with the
  older rows sets a finished job back to RUNNING (`worker.py:82-84`), in a finished run
  too. `SettledStays` and `FinishedRunAccounts`, asked of the instance of
  `overlap_attempt_budget`, fail there for the same reason as the budget;
- two overlapping index requests refresh an aggregate from different reads
  (`periods.py:165-226`): the later commit can leave out a date, or leave counts and inputs
  of different reads. `PeriodsCurrent` and `PeriodLineage`, asked of the instance of
  `series_overlap`, fail, against `docs/architecture.md:278-279`;
- `docs/source-policy.md:76` allows no collection from a source its operator disabled; an
  administrator's disable lasts until the next run of any source, whose seeding writes the
  settings' flag over it (`services/seed.py:118-135`);
- `docs/methodology.md:219-222` freezes the base over the first eligible dates;
  `basket.py:105-107` takes the first dates known when it is asked;
- methodology section 8.3 has the median of a source's eligible quotes; the code takes
  the cheapest of each source (`Cheapest`);
- methodology section 7 keeps the first stored of two equal quotes; the code keeps the
  one with the lowest content hash (`Repeated`);
- the coverage of `route_history` divides by 5, whatever windows the basket has;
- an outlier pass over a resumed run may flag a quote behind a fare already frozen: the
  flag does not exclude it, so the fare stands (`VerdictExplained`, `ExclusionIsFinal`).
  With five equal quotes of one source at 900 and four of others at 100, the first pass
  flags the four, and the second, the duplicates gone, the one left at 900. That less than
  half of a cell is flagged is true of a pass, not of a run, and `OutliersAreFew` says it
  of a step.

## 6. Not modelled

- Schema migrations and API schemas: declarations without behaviour; the constraints that
  matter are in the actions that can violate them.
- Authentication, logging, the fixture adapter, the profile file, and the text of requests
  and answers: no state, or only parsing.
- `useApiStatus` and the system status page: no page of `App` uses them.
- The other read endpoints and CSV files: one select each.
- The value of a correlation, route comparisons and the 30-day script: numbers that no
  other part reads. A dataset of daily frequency is imported like any other, and nothing
  in a backtest looks at it.
- Two sessions that pace the same source: no code paces them together, and no document
  says so; that sessions overlap is in `CollectionRun`.
- That an administrator's disable lasts: a seeding overrules it in `SourceGateway` as in
  the code, and no property claims otherwise (section 5).
- Requests of different hooks of one overview page may see different versions of the data;
  the page promises nothing about it.

## 7. Plan

Done: every component above except those of section 6.

1. Sessions of `SourceGateway` that overlap, should a limiter be shared between them.
2. Proofs about the value of a correlation, should it be modelled.
