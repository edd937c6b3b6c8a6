---------------------------- MODULE CollectionRun ----------------------------
(***************************************************************************)
(* One daily collection run: the row of collection_runs for one            *)
(* (methodological_date, trigger_type, data_class), its collection_jobs,   *)
(* and the sessions (scheduler thread, HTTP request, CLI command) that     *)
(* plan it, execute its jobs and close it.                                 *)
(*                                                                         *)
(*   services/planner.py     plan_collection_run                           *)
(*   services/collection.py  CollectionService.run_sources                 *)
(*   services/worker.py      CollectionWorker.execute, _attempt, _fail_job *)
(*   services/canonical.py   canonicalize_run (which fares it freezes)     *)
(*                                                                         *)
(* Every action below is one database transaction of the code, or one      *)
(* await of it.  A session keeps the rows it has loaded in its identity    *)
(* map (expire_on_commit=False, db/session.py:17): it goes on using the    *)
(* values it read, whatever other sessions commit, until a rollback        *)
(* expires them.                                                           *)
(***************************************************************************)
EXTENDS Naturals, FiniteSets

CONSTANTS
  Executors,     \* the sessions that may execute the run
  Sources,       \* enabled, approved sources
  Searches,      \* active routes x advance windows
  Offers,        \* contents of raw quotes, told apart by their content hash
  Eligible,      \* the offers normalization includes in the index
  Broken,        \* the offers normalization raises on
  FlightOf,      \* eligible offer -> flight, cabin, fare class and currency
  TotalOf,       \* eligible offer -> total fare
  MaxAttempts,   \* adapter_max_retries + 1
  MaxCrashes,    \* bound on the crashes of one behaviour
  Serial         \* TRUE: requests never overlap (APScheduler, max_instances=1)

ASSUME ConstantsAssumption ==
  /\ IsFiniteSet(Sources) /\ IsFiniteSet(Searches) /\ IsFiniteSet(Offers)
  /\ Eligible \subseteq Offers
  /\ Broken \subseteq Offers
  /\ Eligible \cap Broken = {}
  /\ DOMAIN FlightOf = Eligible /\ DOMAIN TotalOf = Eligible
  /\ MaxAttempts \in Nat \ {0}
  /\ MaxCrashes \in Nat
  /\ Serial \in BOOLEAN

Jobs == Sources \X Searches

TerminalRun == {"COMPLETED", "PARTIAL", "FAILED"}
TerminalJob == {"SUCCEEDED", "FAILED"}
OpenJob     == {"PLANNED", "RUNNING"}
RunStatus   == {"NONE", "PLANNED", "RUNNING"} \cup TerminalRun
JobStatus   == {"ABSENT"} \cup OpenJob \cup TerminalJob

RunRow == [status: RunStatus, successful: Nat, failed: Nat, valid: Nat]
JobRow == [status: JobStatus, attempts: 0..MaxAttempts]

Run(s, n, f, v) == [status |-> s, successful |-> n, failed |-> f, valid |-> v]
Job(s, n)       == [status |-> s, attempts |-> n]

\* No row in the table, or (in a session) no loaded row.
NoRun == Run("NONE", 0, 0, 0)
NoJob == Job("ABSENT", 0)

VARIABLES
  run,       \* the row of collection_runs
  job,       \* the rows of collection_jobs
  raw,       \* per job, the offers stored with their observation
  excluded,  \* <<job, offer>> excluded as duplicates by canonicalize_run
  canon,     \* canonical_fares: <<search, flight>>
  pc,        \* per session, where run_sources stands ("idle": not in it)
  want,      \* per session, the source codes it was asked for
  runSeen,   \* per session, the run row in its identity map
  seen,      \* per session, the job rows in its identity map
  todo,      \* per session, the jobs left of the list it selected
  cur,       \* per session, the set holding the job in execution, if any
  left,      \* per session, the iterations left in execute's loop
  calls,     \* history: adapter.search calls made for a job
  answers,   \* history: answers of a job that added an observation
  crashes    \* how many sessions have died so far

store == <<run, job, raw, excluded, canon>>
local == <<want, runSeen, seen, todo, cur, left>>
vars  == <<store, pc, local, calls, answers, crashes>>

At(e, label)   == pc[e] = label
Goto(e, label) == pc' = [pc EXCEPT ![e] = label]

Init ==
  /\ run = NoRun
  /\ job = [j \in Jobs |-> NoJob]
  /\ raw = [j \in Jobs |-> {}]
  /\ excluded = {}
  /\ canon = {}
  /\ pc = [e \in Executors |-> "idle"]
  /\ want = [e \in Executors |-> {}]
  /\ runSeen = [e \in Executors |-> NoRun]
  /\ seen = [e \in Executors |-> [j \in Jobs |-> NoJob]]
  /\ todo = [e \in Executors |-> {}]
  /\ cur = [e \in Executors |-> {}]
  /\ left = [e \in Executors |-> 0]
  /\ calls = [j \in Jobs |-> 0]
  /\ answers = [j \in Jobs |-> 0]
  /\ crashes = 0

-----------------------------------------------------------------------------
(* What the canonical fares are made of.                                   *)

Observations == {x \in Jobs \X Eligible : x[2] \in raw[x[1]]}
Included     == Observations \ excluded

\* The canonical fares a set of observations groups into.
Grouped(X) == {<<x[1][2], FlightOf[x[2]]>> : x \in X}
Fares      == Grouped(Included)

\* The exact duplicates of x: the same source, flight and total for the same
\* search.  canonicalize_run keeps one of them.
SameFare(x) == {y \in Included : /\ y[1] = x[1]
                                 /\ FlightOf[y[2]] = FlightOf[x[2]]
                                 /\ TotalOf[y[2]] = TotalOf[x[2]]}
Kept(x)     == CHOOSE y \in SameFare(x) : TRUE

JobsAt(rows, s) == Cardinality({j \in Jobs : rows[j].status = s})

-----------------------------------------------------------------------------
(* Slips a maintainer could make in the definition each is named after; no  *)
(* specification uses them.  Each breaks a property when it takes the       *)
(* definition's place, which shows that the property can fail.              *)

FinishedRefusesRunning(row)  == row.status \in TerminalRun \cup {"RUNNING"}
FinishedUnlessPartial(row)   == row.status \in {"COMPLETED", "FAILED"}
SelectedPlannedOnly          == {j \in Jobs : job[j].status = "PLANNED"}
RestKeepsJob(e, j)           == todo[e]
RemainingIgnoresEarlier(row) == MaxAttempts
DuplicatesAll                == {x \in Included : Cardinality(SameFare(x)) > 1}
ConflictUnchecked            == FALSE
VerdictNeverFailed(successful, failed) == IF failed = 0 THEN "COMPLETED" ELSE "PARTIAL"

-----------------------------------------------------------------------------
(* The session.                                                            *)

\* The unit of work writes a column only when the assigned value differs from
\* the one the session has loaded; otherwise the stored value stays.
Column(loaded, assigned, stored) == IF assigned = loaded THEN stored ELSE assigned

\* An expired row is read again when it is next used.
RunLoaded(e)    == IF runSeen[e] = NoRun THEN run ELSE runSeen[e]
JobLoaded(e, j) == IF seen[e][j] = NoJob THEN job[j] ELSE seen[e][j]
TouchRun(e)     == runSeen' = [runSeen EXCEPT ![e] = RunLoaded(e)]

\* job.status = s; session.commit()
CommitStatus(e, j, s) ==
  /\ job' = [job EXCEPT ![j] =
               Job(Column(seen[e][j].status, s, @.status), @.attempts)]
  /\ seen' = [seen EXCEPT ![e][j] =
                IF @ = NoJob THEN job'[j] ELSE Job(s, @.attempts)]

\* The session ends: the call returns, raises, or its process dies.
Leave(e) ==
  /\ Goto(e, "idle")
  /\ want' = [want EXCEPT ![e] = {}]
  /\ runSeen' = [runSeen EXCEPT ![e] = NoRun]
  /\ seen' = [seen EXCEPT ![e] = [j \in Jobs |-> NoJob]]
  /\ todo' = [todo EXCEPT ![e] = {}]
  /\ cur' = [cur EXCEPT ![e] = {}]
  /\ left' = [left EXCEPT ![e] = 0]

-----------------------------------------------------------------------------
(* Planning.                                                               *)

Finished(row) == row.status \in TerminalRun

\* run_sources called for the source codes S: the planner's select finds no
\* row, or a row that is not finished.
Request(e, S) ==
  /\ At(e, "idle")
  /\ Serial => \A f \in Executors : At(f, "idle")
  /\ S # {}
  /\ ~Finished(run)
  /\ Goto(e, IF run.status = "NONE" THEN "insert" ELSE "begin")
  /\ want' = [want EXCEPT ![e] = S]
  /\ runSeen' = [runSeen EXCEPT ![e] = run]
  /\ UNCHANGED <<store, seen, todo, cur, left, calls, answers, crashes>>

\* run_sources on a finished run returns it as it is.
ReturnExisting(e) ==
  /\ At(e, "idle")
  /\ Finished(run)
  /\ UNCHANGED vars

\* The run and its jobs, in one commit.  A second session that also found no
\* row violates the unique constraint and raises.
Insert(e) ==
  /\ At(e, "insert")
  /\ \/ /\ run.status = "NONE"
        /\ run' = Run("PLANNED", 0, 0, 0)
        /\ job' = [j \in Jobs |-> IF j[1] \in want[e] THEN Job("PLANNED", 0) ELSE NoJob]
        /\ runSeen' = [runSeen EXCEPT ![e] = run']
        /\ Goto(e, "begin")
        /\ UNCHANGED <<want, seen, todo, cur, left>>
     \/ /\ run.status # "NONE"
        /\ Leave(e)
        /\ UNCHANGED <<run, job>>
  /\ UNCHANGED <<raw, excluded, canon, calls, answers, crashes>>

\* run.status = RUNNING; commit.
Begin(e) ==
  LET old == runSeen[e]
  IN  /\ At(e, "begin")
      /\ run' = Run(Column(old.status, "RUNNING", run.status),
                    run.successful, run.failed, run.valid)
      /\ runSeen' = [runSeen EXCEPT ![e] =
                       Run("RUNNING", old.successful, old.failed, old.valid)]
      /\ Goto(e, "load")
      /\ UNCHANGED <<job, raw, excluded, canon, want, seen, todo, cur, left,
                     calls, answers, crashes>>

\* The select of the run's planned and running jobs, those an interrupted
\* session left included.
Selected == {j \in Jobs : job[j].status \in OpenJob}

LoadJobs(e) ==
  /\ At(e, "load")
  /\ todo' = [todo EXCEPT ![e] = Selected]
  /\ seen' = [seen EXCEPT ![e] =
                [j \in Jobs |-> IF j \in Selected THEN job[j] ELSE NoJob]]
  /\ Goto(e, "pick")
  /\ UNCHANGED <<store, want, runSeen, cur, left, calls, answers, crashes>>

-----------------------------------------------------------------------------
(* CollectionWorker.execute.                                               *)

Rest(e, j)     == todo[e] \ {j}
Remaining(row) == MaxAttempts - row.attempts

\* job.status = RUNNING; commit; then the attempts left by earlier executions.
StartJob(e, j) ==
  LET row    == JobLoaded(e, j)
      budget == Remaining(row)
  IN  /\ At(e, "pick")
      /\ j \in todo[e]
      /\ todo' = [todo EXCEPT ![e] = Rest(e, j)]
      /\ cur' = [cur EXCEPT ![e] = {j}]
      /\ job' = [job EXCEPT ![j] =
                   Job(Column(row.status, "RUNNING", @.status), @.attempts)]
      /\ seen' = [seen EXCEPT ![e][j] = Job("RUNNING", row.attempts)]
      /\ left' = [left EXCEPT ![e] = budget]
      /\ Goto(e, IF budget = 0 THEN "fail" ELSE "attempt")
      /\ UNCHANGED <<run, raw, excluded, canon, want, runSeen,
                     calls, answers, crashes>>

\* job.attempt_count = n; commit.
Record(e, j, n) ==
  /\ job' = [job EXCEPT ![j] = Job(@.status, n)]
  /\ seen' = [seen EXCEPT ![e][j] = Job(@.status, n)]

\* The attempt is on record before the call.
BeginAttempt(e, j) ==
  /\ At(e, "attempt")
  /\ j \in cur[e]
  /\ Record(e, j, seen[e][j].attempts + 1)
  /\ left' = [left EXCEPT ![e] = @ - 1]
  /\ Goto(e, "call")
  /\ UNCHANGED <<run, raw, excluded, canon, want, runSeen, todo, cur,
                 calls, answers, crashes>>

\* The rate limiter has let the request through: adapter.search is called.
CallAdapter(e, j) ==
  /\ At(e, "call")
  /\ j \in cur[e]
  /\ calls' = [calls EXCEPT ![j] = @ + 1]
  /\ Goto(e, "await")
  /\ UNCHANGED <<store, local, answers, crashes>>

\* An empty answer: SUCCEEDED with NO_RESULTS.
AnswerEmpty(e, j) ==
  /\ At(e, "await")
  /\ j \in cur[e]
  /\ CommitStatus(e, j, "SUCCEEDED")
  /\ cur' = [cur EXCEPT ![e] = {}]
  /\ Goto(e, "pick")
  /\ UNCHANGED <<run, raw, excluded, canon, want, runSeen, todo, left,
                 calls, answers, crashes>>

\* The observations of an answer join those of the job.  A quote stored before
\* is found by its content hash and its observation is not built again.
Store(j, Q) ==
  /\ raw' = [raw EXCEPT ![j] = @ \cup Q]
  /\ answers' = [answers EXCEPT ![j] = IF Q \subseteq raw[j] THEN @ ELSE @ + 1]

\* Every quote normalizes: observations and SUCCEEDED in one commit.
AnswerQuotes(e, j, Q) ==
  /\ At(e, "await")
  /\ j \in cur[e]
  /\ Q # {}
  /\ Q \cap Broken \subseteq raw[j]
  /\ Store(j, Q)
  /\ CommitStatus(e, j, "SUCCEEDED")
  /\ cur' = [cur EXCEPT ![e] = {}]
  /\ TouchRun(e)
  /\ Goto(e, "pick")
  /\ UNCHANGED <<run, excluded, canon, want, todo, left, calls, crashes>>

\* The first quote that does not normalize, q, ends the answer: the commit keeps
\* the quotes before it, and the job is failed in a later commit.
AnswerRejected(e, j, Q, q) ==
  /\ At(e, "await")
  /\ j \in cur[e]
  /\ q \in Broken \ raw[j]
  /\ Q \cap Broken \subseteq raw[j]
  /\ Store(j, Q \cup {q})
  /\ TouchRun(e)
  /\ Goto(e, "fail")
  /\ UNCHANGED <<run, job, excluded, canon, want, seen, todo, cur, left,
                 calls, crashes>>

\* After a transient failure: another attempt while the count the session reads
\* is below the maximum.  The loop may be over all the same, and execute then
\* returns with the job as it is.
Retry(e, attempts) ==
  \/ /\ attempts >= MaxAttempts
     /\ Goto(e, "fail")
     /\ UNCHANGED cur
  \/ /\ attempts < MaxAttempts
     /\ left[e] > 0
     /\ Goto(e, "attempt")
     /\ UNCHANGED cur
  \/ /\ attempts < MaxAttempts
     /\ left[e] = 0
     /\ Goto(e, "pick")
     /\ cur' = [cur EXCEPT ![e] = {}]

\* A timeout, or an AdapterError with a transient code; nothing is rolled back.
FailTransient(e, j) ==
  /\ At(e, "await")
  /\ j \in cur[e]
  /\ Retry(e, seen[e][j].attempts)
  /\ IF seen[e][j].attempts < MaxAttempts THEN TouchRun(e) ELSE UNCHANGED runSeen
  /\ UNCHANGED <<store, want, seen, todo, left, calls, answers, crashes>>

\* An AdapterError whose code is not transient.
FailPermanent(e, j) ==
  /\ At(e, "await")
  /\ j \in cur[e]
  /\ Goto(e, "fail")
  /\ UNCHANGED <<store, local, calls, answers, crashes>>

\* KeyError, TypeError or ValueError, from the registry (before the call) or from
\* the adapter: rollback, and every loaded row expires.
FailMalformed(e, j) ==
  /\ pc[e] \in {"call", "await"}
  /\ j \in cur[e]
  /\ runSeen' = [runSeen EXCEPT ![e] = NoRun]
  /\ seen' = [seen EXCEPT ![e] = [k \in Jobs |-> NoJob]]
  /\ Goto(e, "fail")
  /\ UNCHANGED <<store, want, todo, cur, left, calls, answers, crashes>>

\* Any other exception: rollback; the log entry reads the run and the job again.
FailUnknown(e, j) ==
  /\ At(e, "await")
  /\ j \in cur[e]
  /\ runSeen' = [runSeen EXCEPT ![e] = run]
  /\ seen' = [seen EXCEPT ![e] = [k \in Jobs |-> IF k = j THEN job[k] ELSE NoJob]]
  /\ Retry(e, job[j].attempts)
  /\ UNCHANGED <<store, want, todo, left, calls, answers, crashes>>

\* _fail_job.
FailJob(e, j) ==
  /\ At(e, "fail")
  /\ j \in cur[e]
  /\ CommitStatus(e, j, "FAILED")
  /\ cur' = [cur EXCEPT ![e] = {}]
  /\ Goto(e, "pick")
  /\ UNCHANGED <<run, raw, excluded, canon, want, runSeen, todo, left,
                 calls, answers, crashes>>

-----------------------------------------------------------------------------
(* Closing the run.                                                        *)

Duplicates == {x \in Included : x # Kept(x)}

\* uq_canonical_fare_identity refuses a fare that is stored already.
Conflict == Fares \cap canon # {}

\* No job left: canonicalize_run looks for canonical fares of the run.
CheckCanonical(e) ==
  /\ At(e, "pick")
  /\ todo[e] = {}
  /\ TouchRun(e)
  /\ Goto(e, IF canon = {} THEN "canon" ELSE "finish")
  /\ UNCHANGED <<store, want, seen, todo, cur, left, calls, answers, crashes>>

\* ... and, having found none, writes them in one commit.  Fares another session
\* has written since make the commit fail, and the call raises.
Canonicalize(e) ==
  /\ At(e, "canon")
  /\ \/ /\ ~Conflict
        /\ canon' = canon \cup Fares
        /\ excluded' = excluded \cup Duplicates
        /\ Goto(e, "finish")
        /\ UNCHANGED local
     \/ /\ Conflict
        /\ Leave(e)
        /\ UNCHANGED <<canon, excluded>>
  /\ UNCHANGED <<run, job, raw, calls, answers, crashes>>

Verdict(successful, failed) ==
  CASE failed = 0                    -> "COMPLETED"
    [] failed > 0 /\ successful = 0  -> "FAILED"
    [] failed > 0 /\ successful > 0  -> "PARTIAL"

\* The counters and the verdict, from the job rows as the session sees them.
Finish(e) ==
  LET rows       == [j \in Jobs |-> JobLoaded(e, j)]
      successful == JobsAt(rows, "SUCCEEDED")
      failed     == JobsAt(rows, "FAILED")
      valid      == Cardinality(Included)
      old        == runSeen[e]
  IN  /\ At(e, "finish")
      /\ run' = Run(Column(old.status, Verdict(successful, failed), run.status),
                    Column(old.successful, successful, run.successful),
                    Column(old.failed, failed, run.failed),
                    Column(old.valid, valid, run.valid))
      /\ Leave(e)
      /\ UNCHANGED <<job, raw, excluded, canon, calls, answers, crashes>>

-----------------------------------------------------------------------------
(* The process dies, or the database refuses a commit: the open            *)
(* transaction is lost and the session with it.                            *)

Crash(e) ==
  /\ ~At(e, "idle")
  /\ crashes < MaxCrashes
  /\ crashes' = crashes + 1
  /\ Leave(e)
  /\ UNCHANGED <<store, calls, answers>>

Settle(e, j) ==
  \/ AnswerEmpty(e, j)
  \/ \E Q \in SUBSET Offers :
       \/ AnswerQuotes(e, j, Q)
       \/ \E q \in Broken : AnswerRejected(e, j, Q, q)
  \/ FailTransient(e, j)
  \/ FailPermanent(e, j)
  \/ FailMalformed(e, j)
  \/ FailUnknown(e, j)

Step(e) ==
  \/ Insert(e)
  \/ Begin(e)
  \/ LoadJobs(e)
  \/ \E j \in Jobs : \/ StartJob(e, j)
                     \/ BeginAttempt(e, j)
                     \/ CallAdapter(e, j)
                     \/ Settle(e, j)
                     \/ FailJob(e, j)
  \/ CheckCanonical(e)
  \/ Canonicalize(e)
  \/ Finish(e)

Next ==
  \E e \in Executors : \/ \E S \in SUBSET Sources : Request(e, S)
                       \/ ReturnExisting(e)
                       \/ Step(e)
                       \/ Crash(e)

Spec == Init /\ [][Next]_vars

\* A session that is alive goes on: every await is bounded (asyncio.timeout
\* round the adapter, bounded backoff, bounded pacing).
Progress == \A e \in Executors : WF_vars(Step(e))

\* Someone asks for an unfinished run again: nothing in the code does, it takes
\* the operator's retry or the day's scheduled request.
Asked == \A e \in Executors : WF_vars(\E S \in SUBSET Sources : Request(e, S))

FairSpec == Spec /\ Progress
AskedSpec == Spec /\ Progress /\ Asked
-----------------------------------------------------------------------------
(* Properties.                                                             *)

Labels == {"idle", "insert", "begin", "load", "pick", "attempt", "call",
           "await", "fail", "canon", "finish"}

\* Every variable has its type; the rows are rows, and a session executes at most
\* one job at a time.
TypeOK ==
  /\ run \in RunRow
  /\ job \in [Jobs -> JobRow]
  /\ raw \in [Jobs -> SUBSET Offers]
  /\ excluded \subseteq Jobs \X Eligible
  /\ canon \subseteq Searches \X {FlightOf[o] : o \in Eligible}
  /\ pc \in [Executors -> Labels]
  /\ want \in [Executors -> SUBSET Sources]
  /\ runSeen \in [Executors -> RunRow]
  /\ seen \in [Executors -> [Jobs -> JobRow]]
  /\ todo \in [Executors -> SUBSET Jobs]
  /\ cur \in [Executors -> SUBSET Jobs]
  /\ left \in [Executors -> 0..MaxAttempts]
  /\ calls \in [Jobs -> Nat]
  /\ answers \in [Jobs -> Nat]
  /\ crashes \in 0..MaxCrashes

\* The attempt budget of a job is a budget of adapter calls: however often the
\* run is interrupted and resumed, a source is called at most MaxAttempts times
\* for a job (worker.py:86-99; docs/architecture.md:254-256).
AttemptBudget == \A j \in Jobs : calls[j] <= MaxAttempts

\* attempt_count is never behind the calls made: the count is committed before
\* the call (worker.py:98-100), so no crash hides a call from it.
AttemptsOnRecord == \A j \in Jobs : calls[j] <= job[j].attempts

\* A finished run accounts for all of its jobs: none is still open, the counters
\* count the rows as they are stored, and the verdict follows from them
\* (collection.py:155-177).
FinishedRunAccounts ==
  run.status \in TerminalRun =>
    /\ \A j \in Jobs : job[j].status \notin OpenJob
    /\ run.successful = JobsAt(job, "SUCCEEDED")
    /\ run.failed = JobsAt(job, "FAILED")
    /\ run.status = Verdict(run.successful, run.failed)

\* The canonical fares of a finished run are exactly those its included
\* observations support, and valid_observations counts these observations:
\* skipping a run that already has canonical fares (canonical.py:69-76) loses
\* nothing, wherever the run was interrupted.
FinishedRunIsCanonical ==
  run.status \in TerminalRun =>
    /\ canon = Fares
    /\ run.valid = Cardinality(Included)

\* Excluding duplicates (canonical.py:136-142) never excludes the last
\* observation of a flight, nor the last one behind a canonical fare.
CanonicalSupported ==
  /\ canon \subseteq Fares
  /\ Fares = Grouped(Observations)

\* Canonical fares, once written, are never rewritten or added to: a second
\* canonicalization finds them or is refused by uq_canonical_fare_identity.
CanonicalFrozen == [][canon # {} => canon' = canon]_vars

\* What is settled stays settled: a finished job or run never changes, and a
\* finished job gains no observation (collection.py:127-149).
SettledStays ==
  [][/\ run.status \in TerminalRun => run' = run
     /\ \A j \in Jobs : job[j].status \in TerminalJob =>
          job'[j] = job[j] /\ raw'[j] = raw[j]]_vars

\* A session that is not killed leaves run_sources, whatever the sources answer.
SessionEnds == \A e \in Executors : (pc[e] # "idle") ~> (pc[e] = "idle")

\* A run that was planned reaches a verdict, if interrupted runs are asked for
\* again.
RunSettles == (run.status # "NONE") ~> (run.status \in TerminalRun)

\* docs/architecture.md:211-212: "a retry cannot create an accidental second
\* observation for the same source query and scheduled run".
OneAnswerPerQuery == \A j \in Jobs : answers[j] <= 1

\* The run as its readers see it, for the refinement of RunContract.
Open(s) == IF s \in OpenJob THEN "OPEN" ELSE s

Contract == INSTANCE RunContract WITH
  status   <- Open(run.status),
  outcome  <- [j \in Jobs |-> Open(job[j].status)],
  spent    <- calls,
  evidence <- raw,
  fares    <- canon

\* Without overlap, the run keeps the contract of RunContract.
ContractSpec == Contract!Spec
=============================================================================
