----------------------- MODULE CollectionRunInvariant -----------------------
(***************************************************************************)
(* The inductive invariant of CollectionRun when requests do not overlap.  *)
(* It is checked by TLC as it stands and proved in CollectionRunProofs.    *)
(***************************************************************************)
EXTENDS CollectionRun

Working   == {"attempt", "call", "await", "fail"}   \* inside execute
Executing == {"pick"} \cup Working
Closing   == {"canon", "finish"}

NoOpenJob == \A j \in Jobs : job[j].status \notin OpenJob

\* Overlap or not: a session that is about to attempt has attempts left, by the
\* count it has loaded and by its loop, and executes one job at a time.  With
\* TypeOK it is inductive.
AttemptReady ==
  \A e \in Executors :
    /\ \A j, k \in cur[e] : j = k
    /\ pc[e] = "attempt" =>
         left[e] > 0 /\ \A j \in cur[e] : seen[e][j].attempts < MaxAttempts

TypeInv == TypeOK /\ AttemptReady

-----------------------------------------------------------------------------
(* One session.                                                            *)

\* Outside run_sources it holds nothing; before the select it has no job rows.
HoldsNothingEarly(e) ==
  /\ pc[e] = "idle" => todo[e] = {}
  /\ pc[e] \in {"idle", "insert", "begin", "load"} => seen[e] = [j \in Jobs |-> NoJob]
  /\ pc[e] \notin Working => cur[e] = {}

\* The stage it is in agrees with the stored status of the run.
StageAgrees(e) ==
  /\ pc[e] = "insert" => run.status = "NONE"
  /\ pc[e] = "begin" => run.status \in OpenJob
  /\ pc[e] \in {"load"} \cup Executing \cup Closing => run.status = "RUNNING"

\* What it has loaded is what is stored: nobody else writes.
Fresh(e) ==
  /\ pc[e] \in {"begin"} \cup Closing => runSeen[e] = run
  /\ pc[e] \in {"load"} \cup Executing => runSeen[e] \in {run, NoRun}
  /\ \A j \in Jobs : seen[e][j] \in {job[j], NoJob}

\* The job in execution is RUNNING, its row is loaded while an attempt is under
\* way, and the loop's iterations are what its attempt_count leaves.
Attempting(e) ==
  pc[e] \in Working =>
    \E j \in Jobs :
      /\ cur[e] = {j}
      /\ j \notin todo[e]
      /\ job[j].status = "RUNNING"
      /\ pc[e] # "fail" => seen[e][j] = job[j] /\ left[e] = MaxAttempts - job[j].attempts
      /\ pc[e] = "attempt" => job[j].attempts < MaxAttempts
      /\ pc[e] = "call" => calls[j] < job[j].attempts
      /\ pc[e] = "await" => calls[j] > 0

\* The list it works through, with its current job, is the open jobs.
ListIsOpenJobs(e) ==
  /\ pc[e] \in Executing =>
       {j \in Jobs : job[j].status \in OpenJob} = todo[e] \cup cur[e]
  /\ pc[e] \in Closing => NoOpenJob

CanonicalStage(e) ==
  /\ pc[e] = "canon" => canon = {}
  /\ pc[e] = "finish" => canon = Fares

SessionInv(e) ==
  /\ HoldsNothingEarly(e)
  /\ StageAgrees(e)
  /\ Fresh(e)
  /\ Attempting(e)
  /\ ListIsOpenJobs(e)
  /\ CanonicalStage(e)

-----------------------------------------------------------------------------
(* The store.                                                              *)

\* At most one session is inside run_sources.
Alone == \A e, f \in Executors : pc[e] # "idle" /\ pc[f] # "idle" => e = f

\* A run that is not planned has no jobs.
NothingPlanned ==
  run.status = "NONE" => run = NoRun /\ job = [j \in Jobs |-> NoJob]

\* Canonical fares exist only when every job is settled, and are all there are.
CanonicalIsFinal ==
  /\ canon # {} => NoOpenJob /\ run.status # "NONE" /\ canon = Fares
  /\ canon = {} => excluded = {}

\* A finished run is left alone.
FinishedIsQuiet ==
  run.status \in TerminalRun => \A e \in Executors : pc[e] = "idle"

SerialInv ==
  /\ TypeInv
  /\ Alone
  /\ NothingPlanned
  /\ CanonicalIsFinal
  /\ FinishedIsQuiet
  /\ AttemptsOnRecord
  /\ FinishedRunAccounts
  /\ FinishedRunIsCanonical
  /\ \A e \in Executors : SessionInv(e)
=============================================================================
