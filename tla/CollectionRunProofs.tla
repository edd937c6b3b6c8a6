------------------------- MODULE CollectionRunProofs -------------------------
(***************************************************************************)
(* Proofs about CollectionRun, for every value of its constants: the type  *)
(* invariant with or without overlapping requests, and, when requests do   *)
(* not overlap, the inductive invariant SerialInv and what follows from it *)
(***************************************************************************)
EXTENDS CollectionRunInvariant, FiniteSetTheorems, TLAPS

-----------------------------------------------------------------------------
(* Facts about the operators the actions are built from.                   *)

\* Counting jobs or observations gives a natural number.
LEMMA CountsAreNat ==
  ASSUME raw \in [Jobs -> SUBSET Offers]
  PROVE  /\ \A rows, s : JobsAt(rows, s) \in Nat
         /\ Cardinality(Included) \in Nat
<1>1. IsFiniteSet(Jobs)
  BY ConstantsAssumption, FS_Product DEF Jobs
<1>2. IsFiniteSet(Jobs \X Eligible)
  <2>1. IsFiniteSet(Eligible)
    BY ConstantsAssumption, FS_Subset
  <2> QED BY <1>1, <2>1, FS_Product
<1>3. \A rows, s : IsFiniteSet({j \in Jobs : rows[j].status = s})
  BY <1>1, FS_Subset
<1>4. Included \subseteq Jobs \X Eligible
  BY DEF Included, Observations
<1>5. IsFiniteSet(Included)
  BY <1>2, <1>4, FS_Subset
<1> QED BY <1>3, <1>5, FS_CardinalityType DEF JobsAt

LEMMA VerdictType ==
  ASSUME NEW s \in Nat, NEW f \in Nat
  PROVE  Verdict(s, f) \in TerminalRun
BY DEF Verdict, TerminalRun

-----------------------------------------------------------------------------
(* Type correctness, overlap or not.                                       *)

USE DEF At, Goto, Finished, Selected, Rest, Remaining, Record, Conflict, Grouped

LEMMA RowsHaveTypes ==
  /\ NoRun \in RunRow
  /\ NoJob \in JobRow
  /\ \A s \in JobStatus, n \in 0..MaxAttempts : Job(s, n) \in JobRow
  /\ \A s \in RunStatus, n, f, v \in Nat : Run(s, n, f, v) \in RunRow
BY ConstantsAssumption DEF Run, Job, NoRun, NoJob, RunRow, JobRow, RunStatus, JobStatus,
     TerminalRun, TerminalJob, OpenJob

LEMMA LeaveType ==
  ASSUME TypeOK, NEW e \in Executors, Leave(e)
  PROVE  /\ pc' \in [Executors -> Labels]
         /\ want' \in [Executors -> SUBSET Sources]
         /\ runSeen' \in [Executors -> RunRow]
         /\ seen' \in [Executors -> [Jobs -> JobRow]]
         /\ todo' \in [Executors -> SUBSET Jobs]
         /\ cur' \in [Executors -> SUBSET Jobs]
         /\ left' \in [Executors -> 0..MaxAttempts]
BY ConstantsAssumption, RowsHaveTypes DEF TypeOK, Leave, Labels

LEMMA TypeInit == Init => TypeInv
BY ConstantsAssumption, RowsHaveTypes DEF Init, TypeInv, TypeOK, AttemptReady, Labels

LEMMA CommitStatusType ==
  ASSUME TypeOK, NEW e \in Executors, NEW j \in Jobs, NEW s \in TerminalJob,
         CommitStatus(e, j, s)
  PROVE  job' \in [Jobs -> JobRow] /\ seen' \in [Executors -> [Jobs -> JobRow]]
BY DEF TypeOK, CommitStatus, Column, Job, JobRow, JobStatus, TerminalJob

LEMMA TypeStep ==
  ASSUME TypeInv, [Next]_vars
  PROVE  TypeInv'
<1> USE ConstantsAssumption, RowsHaveTypes DEF TypeInv
<1>1. ASSUME NEW e \in Executors, NEW S \in SUBSET Sources, Request(e, S)
      PROVE  TypeInv'
  BY <1>1 DEF Request, store, TypeOK, AttemptReady, Labels
<1>2. ASSUME NEW e \in Executors, Insert(e)
      PROVE  TypeInv'
  <2>1. CASE run.status = "NONE"
    <3>1. run' \in RunRow /\ job' \in [Jobs -> JobRow]
      <4>1. Run("PLANNED", 0, 0, 0) \in RunRow /\ Job("PLANNED", 0) \in JobRow
        BY DEF RunStatus, JobStatus, OpenJob
      <4> QED BY <1>2, <2>1, <4>1 DEF Insert
    <3>2. /\ runSeen' = [runSeen EXCEPT ![e] = run']
          /\ pc' = [pc EXCEPT ![e] = "begin"]
          /\ UNCHANGED <<raw, excluded, canon, want, seen, todo, cur, left, calls,
                         answers, crashes>>
      BY <1>2, <2>1 DEF Insert
    <3>4. TypeOK'
      BY <3>1, <3>2 DEF TypeOK, Labels
    <3>3. AttemptReady'
      BY <3>2 DEF TypeOK, AttemptReady
    <3> QED BY <3>3, <3>4
  <2>2. CASE run.status # "NONE"
    <3>1. Leave(e) /\ UNCHANGED <<run, job, raw, excluded, canon, calls, answers, crashes>>
      BY <1>2, <2>2 DEF Insert
    <3> QED BY <3>1, LeaveType DEF TypeOK, AttemptReady, Leave
  <2> QED BY <2>1, <2>2
<1>3. ASSUME NEW e \in Executors, Begin(e)
      PROVE  TypeInv'
  BY <1>3 DEF Begin, TypeOK, AttemptReady, Labels, RunRow, RunStatus, Run, Column
<1>4. ASSUME NEW e \in Executors, LoadJobs(e)
      PROVE  TypeInv'
  BY <1>4 DEF LoadJobs, store, TypeOK, AttemptReady, Labels
<1>5. ASSUME NEW e \in Executors, NEW j \in Jobs, StartJob(e, j)
      PROVE  TypeInv'
  <2>1. TypeOK'
    BY <1>5 DEF TypeOK, StartJob, Column, JobLoaded, Job, JobRow, JobStatus, OpenJob, Labels
  <2>2. AttemptReady'
    BY <1>5 DEF TypeOK, StartJob, AttemptReady, JobLoaded, Job, JobRow
  <2> QED BY <2>1, <2>2
<1>6. ASSUME NEW e \in Executors, NEW j \in Jobs, BeginAttempt(e, j)
      PROVE  TypeInv'
  <2>1. seen[e][j].attempts + 1 \in 0..MaxAttempts /\ left[e] - 1 \in 0..MaxAttempts
    <3>1. /\ seen[e][j].attempts \in 0..MaxAttempts
          /\ seen[e][j].attempts < MaxAttempts
          /\ left[e] \in 0..MaxAttempts
          /\ left[e] > 0
      BY <1>6 DEF BeginAttempt, TypeOK, AttemptReady, JobRow
    <3> QED BY <3>1
  <2>2. TypeOK'
    BY <1>6, <2>1 DEF TypeOK, BeginAttempt, Job, JobRow, Labels
  <2>3. AttemptReady'
    BY <1>6 DEF BeginAttempt, TypeOK, AttemptReady
  <2> QED BY <2>2, <2>3
<1>7. ASSUME NEW e \in Executors, NEW j \in Jobs, CallAdapter(e, j)
      PROVE  TypeInv'
  BY <1>7 DEF CallAdapter, store, local, TypeOK, AttemptReady, Labels
<1>8. ASSUME NEW e \in Executors, NEW j \in Jobs, AnswerEmpty(e, j)
      PROVE  TypeInv'
  <2>1. job' \in [Jobs -> JobRow] /\ seen' \in [Executors -> [Jobs -> JobRow]]
    BY <1>8, CommitStatusType DEF AnswerEmpty, TerminalJob
  <2>2. TypeOK'
    BY <1>8, <2>1 DEF AnswerEmpty, TypeOK, Labels
  <2>3. AttemptReady'
    BY <1>8 DEF AnswerEmpty, CommitStatus, TypeOK, AttemptReady
  <2> QED BY <2>2, <2>3
<1>9. ASSUME NEW e \in Executors, NEW j \in Jobs, NEW Q \in SUBSET Offers,
             AnswerQuotes(e, j, Q)
      PROVE  TypeInv'
  <2>1. job' \in [Jobs -> JobRow] /\ seen' \in [Executors -> [Jobs -> JobRow]]
    BY <1>9, CommitStatusType DEF AnswerQuotes, TerminalJob
  <2>2. raw' \in [Jobs -> SUBSET Offers] /\ answers' \in [Jobs -> Nat]
    BY <1>9 DEF AnswerQuotes, Store, TypeOK
  <2>4. TypeOK'
    BY <1>9, <2>1, <2>2 DEF AnswerQuotes, TouchRun, RunLoaded, TypeOK, Labels
  <2>3. AttemptReady'
    BY <1>9 DEF AnswerQuotes, CommitStatus, TypeOK, AttemptReady
  <2> QED BY <2>3, <2>4
<1>10. ASSUME NEW e \in Executors, NEW j \in Jobs, NEW Q \in SUBSET Offers,
              NEW q \in Broken, AnswerRejected(e, j, Q, q)
       PROVE  TypeInv'
  BY <1>10 DEF AnswerRejected, Store, TouchRun, RunLoaded, TypeOK, AttemptReady, Labels
<1>11. ASSUME NEW e \in Executors, NEW j \in Jobs, FailTransient(e, j)
       PROVE  TypeInv'
  <2>1. TypeOK'
    BY <1>11 DEF FailTransient, Retry, TouchRun, RunLoaded, store, TypeOK, Labels
  <2>2. AttemptReady'
    BY <1>11 DEF FailTransient, Retry, TypeOK, AttemptReady
  <2> QED BY <2>1, <2>2
<1>12. ASSUME NEW e \in Executors, NEW j \in Jobs, FailPermanent(e, j)
       PROVE  TypeInv'
  BY <1>12 DEF FailPermanent, store, local, TypeOK, AttemptReady, Labels
<1>13. ASSUME NEW e \in Executors, NEW j \in Jobs, FailMalformed(e, j)
       PROVE  TypeInv'
  BY <1>13 DEF FailMalformed, store, TypeOK, AttemptReady, Labels
<1>14. ASSUME NEW e \in Executors, NEW j \in Jobs, FailUnknown(e, j)
       PROVE  TypeInv'
  <2>1. TypeOK'
    BY <1>14 DEF FailUnknown, Retry, store, TypeOK, Labels
  <2>2. AttemptReady'
    BY <1>14 DEF FailUnknown, Retry, TypeOK, AttemptReady
  <2> QED BY <2>1, <2>2
<1>15. ASSUME NEW e \in Executors, NEW j \in Jobs, FailJob(e, j)
       PROVE  TypeInv'
  <2>1. job' \in [Jobs -> JobRow] /\ seen' \in [Executors -> [Jobs -> JobRow]]
    BY <1>15, CommitStatusType DEF FailJob, TerminalJob
  <2>2. TypeOK'
    BY <1>15, <2>1 DEF FailJob, TypeOK, Labels
  <2>3. AttemptReady'
    BY <1>15 DEF FailJob, CommitStatus, TypeOK, AttemptReady
  <2> QED BY <2>2, <2>3
<1>16. ASSUME NEW e \in Executors, CheckCanonical(e)
       PROVE  TypeInv'
  BY <1>16 DEF CheckCanonical, TouchRun, RunLoaded, store, TypeOK, AttemptReady, Labels
<1>17. ASSUME NEW e \in Executors, Canonicalize(e)
       PROVE  TypeInv'
  <2>1. Fares \subseteq Searches \X {FlightOf[o] : o \in Eligible}
    BY DEF Fares, Included, Observations, Jobs
  <2>2. Duplicates \subseteq Jobs \X Eligible
    BY DEF Duplicates, Included, Observations
  <2>3. CASE Fares \cap canon = {}
    <3>1. /\ canon' = canon \cup Fares
          /\ excluded' = excluded \cup Duplicates
          /\ pc' = [pc EXCEPT ![e] = "finish"]
          /\ UNCHANGED <<run, job, raw, local, calls, answers, crashes>>
      BY <1>17, <2>3 DEF Canonicalize
    <3>2. TypeOK'
      BY <2>1, <2>2, <3>1 DEF local, TypeOK, Labels
    <3>3. AttemptReady'
      BY <3>1 DEF local, TypeOK, AttemptReady
    <3> QED BY <3>2, <3>3
  <2>4. CASE Fares \cap canon # {}
    <3>1. Leave(e) /\ UNCHANGED <<run, job, raw, excluded, canon, calls, answers, crashes>>
      BY <1>17, <2>4 DEF Canonicalize
    <3> QED BY <3>1, LeaveType DEF TypeOK, AttemptReady, Leave
  <2> QED BY <2>3, <2>4
<1>18. ASSUME NEW e \in Executors, Finish(e)
       PROVE  TypeInv'
  <2> DEFINE rows == [j \in Jobs |-> JobLoaded(e, j)]
  <2>1. /\ JobsAt(rows, "SUCCEEDED") \in Nat
        /\ JobsAt(rows, "FAILED") \in Nat
        /\ Cardinality(Included) \in Nat
    BY CountsAreNat DEF TypeOK
  <2>2. Verdict(JobsAt(rows, "SUCCEEDED"), JobsAt(rows, "FAILED")) \in TerminalRun
    BY <2>1, VerdictType
  <2>3. run' \in RunRow
    BY <1>18, <2>1, <2>2 DEF Finish, Run, Column, RunRow, RunStatus, TypeOK
  <2>4. Leave(e) /\ UNCHANGED <<job, raw, excluded, canon, calls, answers, crashes>>
    BY <1>18 DEF Finish
  <2> QED BY <2>3, <2>4, LeaveType DEF TypeOK, AttemptReady, Leave
<1>19. ASSUME NEW e \in Executors, Crash(e)
       PROVE  TypeInv'
  <2>1. Leave(e) /\ UNCHANGED <<store, calls, answers>> /\ crashes' \in 0..MaxCrashes
    BY <1>19 DEF Crash, TypeOK
  <2> QED BY <2>1, LeaveType DEF store, TypeOK, AttemptReady, Leave
<1>20. CASE UNCHANGED vars
  BY <1>20 DEF vars, store, local, TypeOK, AttemptReady
<1> QED
  BY <1>1, <1>2, <1>3, <1>4, <1>5, <1>6, <1>7, <1>8, <1>9, <1>10, <1>11, <1>12,
     <1>13, <1>14, <1>15, <1>16, <1>17, <1>18, <1>19, <1>20
     DEF Next, Step, Settle, ReturnExisting

\* The rows keep their types, and no attempt_count exceeds the maximum, whatever
\* sessions overlap, crash and retry.
THEOREM TypeCorrect == Spec => []TypeOK
<1>1. Init => TypeInv
  BY TypeInit
<1>2. TypeInv /\ [Next]_vars => TypeInv'
  BY TypeStep
<1>3. TypeInv => TypeOK
  BY DEF TypeInv
<1> QED BY <1>1, <1>2, <1>3, PTL DEF Spec

-----------------------------------------------------------------------------
(* The inductive invariant, when requests do not overlap.                  *)

\* Actions of a session leave the others where they are.
Frame(e) ==
  \A f \in Executors : f # e =>
    /\ pc'[f] = pc[f]
    /\ todo'[f] = todo[f]
    /\ cur'[f] = cur[f]
    /\ seen'[f] = seen[f]

\* Sessions outside run_sources satisfy their part of the invariant, whatever is
\* stored.
LEMMA OthersKeepInv ==
  ASSUME SerialInv, NEW e \in Executors, Frame(e), TypeOK',
         \A f \in Executors : f # e => pc[f] = "idle"
  PROVE  \A f \in Executors : f # e => SessionInv(f)'
<1> SUFFICES ASSUME NEW f \in Executors, f # e PROVE SessionInv(f)'
  OBVIOUS
<1>1. /\ pc'[f] = "idle"
      /\ todo'[f] = {}
      /\ cur'[f] = {}
      /\ seen'[f] = [j \in Jobs |-> NoJob]
  BY DEF Frame, SerialInv, SessionInv, HoldsNothingEarly, Working
<1> QED
  BY <1>1 DEF SessionInv, HoldsNothingEarly, StageAgrees, Fresh, Attempting,
              ListIsOpenJobs, CanonicalStage, Working, Executing, Closing

\* What is left to show of a step that does not finish the run.
LEMMA StepSuffices ==
  ASSUME SerialInv, NEW e \in Executors, Frame(e), TypeInv',
         \A f \in Executors : f # e => pc[f] = "idle",
         run.status \notin TerminalRun,
         run'.status \notin TerminalRun,
         NothingPlanned', CanonicalIsFinal', AttemptsOnRecord', SessionInv(e)'
  PROVE  SerialInv'
<1>1. \A f \in Executors : SessionInv(f)'
  BY OthersKeepInv DEF TypeInv
<1>2. Alone'
  BY DEF Frame, Alone
<1>3. FinishedIsQuiet' /\ FinishedRunAccounts' /\ FinishedRunIsCanonical'
  BY DEF FinishedIsQuiet, FinishedRunAccounts, FinishedRunIsCanonical
<1> QED BY <1>1, <1>2, <1>3 DEF SerialInv

LEMMA ActiveSession ==
  ASSUME SerialInv, NEW e \in Executors, pc[e] # "idle"
  PROVE  /\ \A f \in Executors : f # e => pc[f] = "idle"
         /\ run.status \notin TerminalRun
BY DEF SerialInv, Alone, FinishedIsQuiet

LEMMA FaresUnchanged ==
  ASSUME UNCHANGED <<raw, excluded>>
  PROVE  Fares' = Fares
BY DEF Fares, Included, Observations

LEMMA RequestKeepsInv ==
  ASSUME SerialInv, Serial, NEW e \in Executors, NEW S \in SUBSET Sources,
         Request(e, S), TypeInv'
  PROVE  SerialInv'
<1> USE DEF SerialInv
<1>1. Frame(e) /\ \A f \in Executors : f # e => pc[f] = "idle"
  BY DEF Request, Frame, TypeInv, TypeOK
<1>2. run.status \notin TerminalRun /\ run' = run
  BY DEF Request, store
<1>3. NothingPlanned' /\ AttemptsOnRecord' /\ CanonicalIsFinal'
  BY FaresUnchanged DEF Request, store, NothingPlanned, AttemptsOnRecord, CanonicalIsFinal,
     NoOpenJob
<1>4. SessionInv(e)'
  <2>1. pc'[e] = IF run.status = "NONE" THEN "insert" ELSE "begin"
    BY DEF Request, TypeInv, TypeOK
  <2>2. /\ pc'[e] \in {"insert", "begin"} /\ runSeen'[e] = run
        /\ UNCHANGED <<run, job, canon, seen, todo, cur>>
        /\ todo[e] = {} /\ cur[e] = {} /\ seen[e] = [j \in Jobs |-> NoJob]
    BY <2>1 DEF Request, store, TypeInv, TypeOK, SessionInv, HoldsNothingEarly, Working
  <2>3. run.status = "NONE" \/ run.status \in OpenJob
    BY <1>2 DEF TypeInv, TypeOK, RunRow, RunStatus, OpenJob
  <2> QED
    BY <2>1, <2>2, <2>3 DEF SessionInv, HoldsNothingEarly, StageAgrees, Fresh, Attempting,
              ListIsOpenJobs, CanonicalStage, Working, Executing, Closing
<1> QED BY <1>1, <1>2, <1>3, <1>4, StepSuffices

LEMMA InsertKeepsInv ==
  ASSUME SerialInv, NEW e \in Executors, Insert(e), TypeInv'
  PROVE  SerialInv'
<1> USE DEF SerialInv
<1>1. run.status = "NONE" /\ pc[e] = "insert"
  BY DEF Insert, SessionInv, StageAgrees
<1>2. /\ run' = Run("PLANNED", 0, 0, 0)
      /\ job' = [j \in Jobs |-> IF j[1] \in want[e] THEN Job("PLANNED", 0) ELSE NoJob]
      /\ runSeen' = [runSeen EXCEPT ![e] = run']
      /\ pc' = [pc EXCEPT ![e] = "begin"]
      /\ UNCHANGED <<want, seen, todo, cur, left, raw, excluded, canon, calls,
                     answers, crashes>>
  BY <1>1 DEF Insert
<1>3. \A f \in Executors : f # e => pc[f] = "idle"
  BY <1>1, ActiveSession
<1>4. Frame(e)
  BY <1>2 DEF Frame, TypeInv, TypeOK
<1>5. run.status \notin TerminalRun /\ run'.status = "PLANNED"
  BY <1>1, <1>2 DEF TerminalRun, Run
<1>6. NothingPlanned'
  BY <1>5 DEF NothingPlanned
<1>7. AttemptsOnRecord'
  <2>1. \A j \in Jobs : calls[j] = 0
    BY <1>1 DEF NothingPlanned, AttemptsOnRecord, NoJob, Job, TypeInv, TypeOK
  <2> QED BY <1>2, <2>1 DEF AttemptsOnRecord, Job, NoJob
<1>8. CanonicalIsFinal'
  BY <1>1, <1>2 DEF CanonicalIsFinal
<1>9. SessionInv(e)'
  <2>1. /\ pc'[e] = "begin" /\ runSeen'[e] = run'
        /\ seen'[e] = [j \in Jobs |-> NoJob] /\ cur'[e] = {}
    BY <1>1, <1>2 DEF TypeInv, TypeOK, SessionInv, HoldsNothingEarly, Working
  <2> QED
    BY <2>1, <1>5 DEF SessionInv, HoldsNothingEarly, StageAgrees, Fresh, Attempting,
       ListIsOpenJobs, CanonicalStage, Working, Executing, Closing, OpenJob
<1> QED
  BY <1>3, <1>4, <1>5, <1>6, <1>7, <1>8, <1>9, StepSuffices DEF TerminalRun

LEMMA BeginKeepsInv ==
  ASSUME SerialInv, NEW e \in Executors, Begin(e), TypeInv'
  PROVE  SerialInv'
<1> USE DEF SerialInv
<1>1. pc[e] = "begin" /\ runSeen[e] = run /\ run.status \in OpenJob
  BY DEF Begin, SessionInv, StageAgrees, Fresh
<1>2. /\ run' = Run("RUNNING", run.successful, run.failed, run.valid)
      /\ runSeen' = [runSeen EXCEPT ![e] = run']
      /\ pc' = [pc EXCEPT ![e] = "load"]
      /\ UNCHANGED <<job, raw, excluded, canon, want, seen, todo, cur, left,
                     calls, answers, crashes>>
  BY <1>1 DEF Begin, Column
<1>3. \A f \in Executors : f # e => pc[f] = "idle"
  BY <1>1, ActiveSession
<1>4. Frame(e)
  BY <1>2 DEF Frame, TypeInv, TypeOK
<1>5. run.status \notin TerminalRun /\ run'.status = "RUNNING"
  BY <1>1, <1>2 DEF TerminalRun, OpenJob, Run
<1>6. NothingPlanned' /\ AttemptsOnRecord' /\ CanonicalIsFinal'
  BY <1>2, <1>5, FaresUnchanged DEF NothingPlanned, AttemptsOnRecord, CanonicalIsFinal,
     NoOpenJob
<1>7. SessionInv(e)'
  <2>1. /\ pc'[e] = "load" /\ runSeen'[e] = run'
        /\ seen'[e] = [j \in Jobs |-> NoJob] /\ cur'[e] = {}
    BY <1>1, <1>2 DEF TypeInv, TypeOK, SessionInv, HoldsNothingEarly, Working
  <2> QED
    BY <2>1, <1>5 DEF SessionInv, HoldsNothingEarly, StageAgrees, Fresh, Attempting,
       ListIsOpenJobs, CanonicalStage, Working, Executing, Closing, OpenJob
<1> QED
  BY <1>3, <1>4, <1>5, <1>6, <1>7, StepSuffices DEF TerminalRun

LEMMA LoadJobsKeepsInv ==
  ASSUME SerialInv, NEW e \in Executors, LoadJobs(e), TypeInv'
  PROVE  SerialInv'
<1> USE DEF SerialInv
<1> DEFINE open == {j \in Jobs : job[j].status \in OpenJob}
<1>1. /\ pc[e] = "load"
      /\ pc' = [pc EXCEPT ![e] = "pick"]
      /\ todo' = [todo EXCEPT ![e] = open]
      /\ seen' = [seen EXCEPT ![e] = [j \in Jobs |-> IF j \in open THEN job[j] ELSE NoJob]]
      /\ UNCHANGED <<run, job, raw, excluded, canon, runSeen, cur, calls>>
  BY DEF LoadJobs, store
<1>2. \A f \in Executors : f # e => pc[f] = "idle"
  BY <1>1, ActiveSession
<1>3. Frame(e)
  BY <1>1 DEF Frame, TypeInv, TypeOK
<1>4. run.status \notin TerminalRun /\ run' = run
  BY <1>1, ActiveSession
<1>5. NothingPlanned' /\ AttemptsOnRecord' /\ CanonicalIsFinal'
  BY <1>1, FaresUnchanged DEF NothingPlanned, AttemptsOnRecord, CanonicalIsFinal, NoOpenJob
<1>6. SessionInv(e)'
  <2>1. /\ pc'[e] = "pick" /\ todo'[e] = open
        /\ seen'[e] = [j \in Jobs |-> IF j \in open THEN job[j] ELSE NoJob]
        /\ cur'[e] = {} /\ runSeen'[e] \in {run, NoRun} /\ run.status = "RUNNING"
    BY <1>1 DEF TypeInv, TypeOK, SessionInv, HoldsNothingEarly, StageAgrees, Fresh, Working
  <2> QED
    BY <1>1, <2>1 DEF SessionInv, HoldsNothingEarly, StageAgrees, Fresh, Attempting,
       ListIsOpenJobs, CanonicalStage, Working, Executing, Closing
<1> QED
  BY <1>2, <1>3, <1>4, <1>5, <1>6, StepSuffices

\* A session about to start a job finds it open and what it loaded current.
LEMMA StartJobKeepsInv ==
  ASSUME SerialInv, NEW e \in Executors, NEW j \in Jobs, StartJob(e, j), TypeInv'
  PROVE  SerialInv'
<1> USE DEF SerialInv
<1>1. pc[e] = "pick" /\ j \in todo[e] /\ cur[e] = {} /\ run.status = "RUNNING"
  BY DEF StartJob, SessionInv, HoldsNothingEarly, StageAgrees, Executing, Working
<1>2. job[j].status \in OpenJob /\ JobLoaded(e, j) = job[j]
  BY <1>1 DEF SessionInv, ListIsOpenJobs, Executing, Fresh, JobLoaded
<1> DEFINE budget == MaxAttempts - job[j].attempts
<1>3. /\ job' = [job EXCEPT ![j] = Job("RUNNING", job[j].attempts)]
      /\ seen' = [seen EXCEPT ![e][j] = Job("RUNNING", job[j].attempts)]
      /\ todo' = [todo EXCEPT ![e] = @ \ {j}]
      /\ cur' = [cur EXCEPT ![e] = {j}]
      /\ left' = [left EXCEPT ![e] = budget]
      /\ pc' = [pc EXCEPT ![e] = IF budget = 0 THEN "fail" ELSE "attempt"]
      /\ UNCHANGED <<run, raw, excluded, canon, runSeen, calls>>
  BY <1>2 DEF StartJob, Column
<1>4. \A f \in Executors : f # e => pc[f] = "idle"
  BY <1>1, ActiveSession
<1>5. Frame(e)
  BY <1>3 DEF Frame, TypeInv, TypeOK
<1>6. run.status \notin TerminalRun /\ run' = run
  BY <1>1, <1>3, ActiveSession
<1>7. NothingPlanned'
  BY <1>1, <1>6 DEF NothingPlanned
<1>8. AttemptsOnRecord'
  BY <1>3 DEF AttemptsOnRecord, Job, TypeInv, TypeOK
<1>9. CanonicalIsFinal'
  BY <1>2, <1>3 DEF CanonicalIsFinal, NoOpenJob
<1>10. SessionInv(e)'
  <2>1. /\ pc'[e] = (IF budget = 0 THEN "fail" ELSE "attempt")
        /\ todo'[e] = todo[e] \ {j} /\ cur'[e] = {j} /\ left'[e] = budget
        /\ job'[j] = Job("RUNNING", job[j].attempts)
        /\ seen'[e][j] = job'[j]
        /\ \A k \in Jobs \ {j} : job'[k] = job[k] /\ seen'[e][k] = seen[e][k]
    BY <1>3 DEF TypeInv, TypeOK
  <2>2. job'[j].status = "RUNNING" /\ job'[j].attempts = job[j].attempts
    BY <2>1 DEF Job
  <2>3. job[j].attempts \in 0..MaxAttempts
    BY DEF TypeInv, TypeOK, JobRow
  <2>4. Attempting(e)'
    BY <1>1, <2>1, <2>2, <2>3, ConstantsAssumption DEF Attempting, Working
  <2>5. Fresh(e)'
    BY <1>1, <1>3, <2>1 DEF SessionInv, Fresh, Executing, Working, Closing
  <2>6. ListIsOpenJobs(e)'
    <3>1. {k \in Jobs : job'[k].status \in OpenJob} = {k \in Jobs : job[k].status \in OpenJob}
      BY <1>2, <2>1, <2>2 DEF OpenJob
    <3> QED
      BY <1>1, <2>1, <3>1 DEF SessionInv, ListIsOpenJobs, Executing, Working, Closing
  <2>7. HoldsNothingEarly(e)' /\ StageAgrees(e)' /\ CanonicalStage(e)'
    BY <1>1, <1>6, <2>1 DEF HoldsNothingEarly, StageAgrees, CanonicalStage, Executing,
       Working, Closing
  <2> QED BY <2>4, <2>5, <2>6, <2>7 DEF SessionInv
<1> QED
  BY <1>4, <1>5, <1>6, <1>7, <1>8, <1>9, <1>10, StepSuffices

\* A session inside execute: its job is the only open one it holds, and nothing
\* is canonical yet.
LEMMA InsideExecute ==
  ASSUME SerialInv, NEW e \in Executors, NEW j \in Jobs, pc[e] \in Working, j \in cur[e]
  PROVE  /\ \A f \in Executors : f # e => pc[f] = "idle"
         /\ cur[e] = {j} /\ j \notin todo[e]
         /\ run.status = "RUNNING" /\ job[j].status = "RUNNING"
         /\ canon = {} /\ excluded = {}
         /\ {k \in Jobs : job[k].status \in OpenJob} = todo[e] \cup {j}
         /\ runSeen[e] \in {run, NoRun}
         /\ pc[e] # "fail" => seen[e][j] = job[j] /\ left[e] = MaxAttempts - job[j].attempts
         /\ pc[e] = "attempt" => job[j].attempts < MaxAttempts
         /\ pc[e] = "call" => calls[j] < job[j].attempts
<1> USE DEF SerialInv
<1>1. pc[e] # "idle"
  BY DEF Working
<1>2. SessionInv(e)
  OBVIOUS
<1>3. cur[e] = {j} /\ job[j].status = "RUNNING" /\ j \notin todo[e]
  BY <1>2 DEF SessionInv, Attempting
<1>4. canon = {} /\ excluded = {}
  BY <1>3 DEF CanonicalIsFinal, NoOpenJob, OpenJob
<1> QED
  BY <1>1, <1>2, <1>3, <1>4, ActiveSession
  DEF SessionInv, StageAgrees, Attempting, ListIsOpenJobs, Fresh, Executing

LEMMA BeginAttemptKeepsInv ==
  ASSUME SerialInv, NEW e \in Executors, NEW j \in Jobs, BeginAttempt(e, j), TypeInv'
  PROVE  SerialInv'
<1> USE DEF SerialInv
<1> DEFINE n == job[j].attempts + 1
<1>1. pc[e] = "attempt" /\ pc[e] \in Working /\ j \in cur[e]
  BY DEF BeginAttempt, Working
<1>2. /\ \A f \in Executors : f # e => pc[f] = "idle"
      /\ cur[e] = {j} /\ j \notin todo[e]
      /\ run.status = "RUNNING" /\ job[j].status = "RUNNING"
      /\ canon = {} /\ excluded = {}
      /\ {k \in Jobs : job[k].status \in OpenJob} = todo[e] \cup {j}
      /\ runSeen[e] \in {run, NoRun}
      /\ seen[e][j] = job[j] /\ left[e] = MaxAttempts - job[j].attempts
      /\ job[j].attempts < MaxAttempts
  BY <1>1, InsideExecute
<1>3. /\ job' = [job EXCEPT ![j] = Job("RUNNING", n)]
      /\ seen' = [seen EXCEPT ![e][j] = Job("RUNNING", n)]
      /\ left' = [left EXCEPT ![e] = @ - 1]
      /\ pc' = [pc EXCEPT ![e] = "call"]
      /\ UNCHANGED <<run, raw, excluded, canon, runSeen, todo, cur, calls>>
  BY <1>1, <1>2 DEF BeginAttempt
<1>4. Frame(e)
  BY <1>3 DEF Frame, TypeInv, TypeOK
<1>5. run.status \notin TerminalRun /\ run' = run
  BY <1>2, <1>3 DEF TerminalRun
<1>6. NothingPlanned' /\ CanonicalIsFinal'
  BY <1>2, <1>3 DEF NothingPlanned, CanonicalIsFinal
<1>7. /\ job'[j].status = "RUNNING" /\ job'[j].attempts = n /\ seen'[e][j] = job'[j]
      /\ \A k \in Jobs \ {j} : job'[k] = job[k] /\ seen'[e][k] = seen[e][k]
      /\ pc'[e] = "call" /\ left'[e] = left[e] - 1 /\ todo'[e] = todo[e] /\ cur'[e] = {j}
  BY <1>2, <1>3 DEF TypeInv, TypeOK, Job
<1>8. job[j].attempts \in 0..MaxAttempts /\ calls[j] \in Nat /\ calls[j] <= job[j].attempts
  BY DEF TypeInv, TypeOK, JobRow, AttemptsOnRecord
<1>9. AttemptsOnRecord'
  BY <1>3, <1>7, <1>8 DEF AttemptsOnRecord
<1>10. SessionInv(e)'
  <2>1. Attempting(e)'
    <3>1. cur'[e] = {j} /\ j \notin todo'[e] /\ job'[j].status = "RUNNING"
      BY <1>2, <1>7
    <3>2. seen'[e][j] = job'[j] /\ left'[e] = MaxAttempts - job'[j].attempts
      BY <1>2, <1>7, <1>8, ConstantsAssumption
    <3>3. calls'[j] < job'[j].attempts
      BY <1>3, <1>7, <1>8
    <3> QED BY <1>7, <3>1, <3>2, <3>3 DEF Attempting
  <2>2. Fresh(e)'
    BY <1>2, <1>3, <1>7 DEF SessionInv, Fresh, Executing, Working, Closing
  <2>3. ListIsOpenJobs(e)'
    <3>1. {k \in Jobs : job'[k].status \in OpenJob} = {k \in Jobs : job[k].status \in OpenJob}
      BY <1>2, <1>7 DEF OpenJob
    <3> QED
      BY <1>2, <1>7, <3>1 DEF ListIsOpenJobs, Executing, Working, Closing
  <2>4. HoldsNothingEarly(e)' /\ StageAgrees(e)' /\ CanonicalStage(e)'
    BY <1>2, <1>5, <1>7 DEF HoldsNothingEarly, StageAgrees, CanonicalStage, Executing,
       Working, Closing
  <2> QED BY <2>1, <2>2, <2>3, <2>4 DEF SessionInv
<1> QED
  BY <1>2, <1>4, <1>5, <1>6, <1>9, <1>10, StepSuffices

LEMMA CallAdapterKeepsInv ==
  ASSUME SerialInv, NEW e \in Executors, NEW j \in Jobs, CallAdapter(e, j), TypeInv'
  PROVE  SerialInv'
<1> USE DEF SerialInv
<1>1. pc[e] = "call" /\ pc[e] \in Working /\ j \in cur[e]
  BY DEF CallAdapter, Working
<1>2. /\ \A f \in Executors : f # e => pc[f] = "idle"
      /\ cur[e] = {j} /\ run.status = "RUNNING"
      /\ seen[e][j] = job[j] /\ left[e] = MaxAttempts - job[j].attempts
      /\ calls[j] < job[j].attempts
  BY <1>1, InsideExecute
<1>3. /\ calls' = [calls EXCEPT ![j] = @ + 1]
      /\ pc' = [pc EXCEPT ![e] = "await"]
      /\ UNCHANGED <<run, job, raw, excluded, canon, runSeen, seen, todo, cur, left>>
  BY DEF CallAdapter, store, local
<1>4. Frame(e)
  BY <1>3 DEF Frame, TypeInv, TypeOK
<1>5. run.status \notin TerminalRun /\ run' = run
  BY <1>2, <1>3 DEF TerminalRun
<1>6. NothingPlanned' /\ CanonicalIsFinal'
  BY <1>3, FaresUnchanged DEF NothingPlanned, CanonicalIsFinal, NoOpenJob
<1>7. AttemptsOnRecord'
  BY <1>2, <1>3 DEF AttemptsOnRecord, TypeInv, TypeOK, JobRow
<1>8. SessionInv(e)'
  <2>1. pc'[e] = "await"
    BY <1>3 DEF TypeInv, TypeOK
  <2>2. Attempting(e)'
    <3>1. calls'[j] > 0
      BY <1>3 DEF TypeInv, TypeOK
    <3>2. j \notin todo[e] /\ job[j].status = "RUNNING"
      BY <1>1, <1>2 DEF SessionInv, Attempting
    <3> QED BY <1>2, <1>3, <2>1, <3>1, <3>2 DEF Attempting
  <2>3. Fresh(e)' /\ ListIsOpenJobs(e)'
    BY <1>1, <1>3, <2>1 DEF SessionInv, Fresh, ListIsOpenJobs, Executing, Working, Closing
  <2>4. HoldsNothingEarly(e)' /\ StageAgrees(e)' /\ CanonicalStage(e)'
    BY <1>2, <1>3, <2>1 DEF HoldsNothingEarly, StageAgrees, CanonicalStage, Executing,
       Working, Closing
  <2> QED BY <2>2, <2>3, <2>4 DEF SessionInv
<1> QED
  BY <1>2, <1>4, <1>5, <1>6, <1>7, <1>8, StepSuffices

\* Committing a terminal status of the job in execution, with or without new
\* observations, keeps the invariant.
LEMMA SettlingKeepsInv ==
  ASSUME SerialInv, NEW e \in Executors, NEW j \in Jobs, NEW s \in TerminalJob,
         pc[e] \in {"await", "fail"}, j \in cur[e], CommitStatus(e, j, s),
         cur' = [cur EXCEPT ![e] = {}], pc' = [pc EXCEPT ![e] = "pick"],
         UNCHANGED <<run, excluded, canon, todo, calls>>,
         runSeen'[e] \in {run, NoRun}, TypeInv'
  PROVE  SerialInv'
<1> USE DEF SerialInv
<1>1. pc[e] \in Working
  BY DEF Working
<1>2. /\ \A f \in Executors : f # e => pc[f] = "idle"
      /\ j \notin todo[e] /\ run.status = "RUNNING" /\ job[j].status = "RUNNING"
      /\ canon = {} /\ excluded = {}
      /\ {k \in Jobs : job[k].status \in OpenJob} = todo[e] \cup {j}
  BY <1>1, InsideExecute
<1>3. seen[e][j] \in {job[j], NoJob} /\ seen[e][j].status # s
  BY <1>2 DEF SessionInv, Fresh, NoJob, Job, TerminalJob
<1>4. /\ job' = [job EXCEPT ![j] = Job(s, job[j].attempts)]
      /\ seen' = [seen EXCEPT ![e][j] = Job(s, job[j].attempts)]
  <2>1. job' = [job EXCEPT ![j] = Job(s, job[j].attempts)]
    BY <1>3 DEF CommitStatus, Column
  <2>2. job'[j] = Job(s, job[j].attempts)
    BY <2>1 DEF TypeInv, TypeOK
  <2>3. (IF seen[e][j] = NoJob THEN job'[j] ELSE Job(s, seen[e][j].attempts))
          = Job(s, job[j].attempts)
    BY <1>3, <2>2
  <2> QED BY <2>1, <2>3 DEF CommitStatus
<1>5. Frame(e)
  BY <1>4 DEF Frame, TypeInv, TypeOK
<1>6. run.status \notin TerminalRun /\ run' = run
  BY <1>2 DEF TerminalRun
<1>7. NothingPlanned' /\ CanonicalIsFinal'
  BY <1>2 DEF NothingPlanned, CanonicalIsFinal
<1>8. /\ job'[j].status = s /\ job'[j].attempts = job[j].attempts /\ seen'[e][j] = job'[j]
      /\ \A k \in Jobs \ {j} : job'[k] = job[k] /\ seen'[e][k] = seen[e][k]
      /\ pc'[e] = "pick" /\ todo'[e] = todo[e] /\ cur'[e] = {}
  BY <1>4 DEF TypeInv, TypeOK, Job
<1>9. AttemptsOnRecord'
  BY <1>8 DEF AttemptsOnRecord
<1>10. SessionInv(e)'
  <2>1. Fresh(e)'
    BY <1>6, <1>8 DEF SessionInv, Fresh, Executing, Working, Closing
  <2>2. ListIsOpenJobs(e)'
    <3>1. {k \in Jobs : job'[k].status \in OpenJob}
            = {k \in Jobs : job[k].status \in OpenJob} \ {j}
      BY <1>8 DEF OpenJob, TerminalJob
    <3> QED
      BY <1>2, <1>8, <3>1 DEF ListIsOpenJobs, Executing, Working, Closing
  <2>3. HoldsNothingEarly(e)' /\ StageAgrees(e)' /\ CanonicalStage(e)' /\ Attempting(e)'
    BY <1>2, <1>6, <1>8 DEF HoldsNothingEarly, StageAgrees, CanonicalStage, Attempting,
       Executing, Working, Closing
  <2> QED BY <2>1, <2>2, <2>3 DEF SessionInv
<1> QED
  BY <1>2, <1>5, <1>6, <1>7, <1>9, <1>10, StepSuffices

LEMMA AnswerEmptyKeepsInv ==
  ASSUME SerialInv, NEW e \in Executors, NEW j \in Jobs, AnswerEmpty(e, j), TypeInv'
  PROVE  SerialInv'
<1>1. pc[e] = "await" /\ pc[e] \in Working /\ j \in cur[e]
  BY DEF AnswerEmpty, Working
<1>2. runSeen[e] \in {run, NoRun}
  BY <1>1, InsideExecute
<1> QED BY <1>1, <1>2, SettlingKeepsInv DEF AnswerEmpty, TerminalJob

LEMMA TouchRunFresh ==
  ASSUME TypeInv, NEW e \in Executors, runSeen[e] \in {run, NoRun}, TouchRun(e)
  PROVE  runSeen'[e] = run
BY DEF TouchRun, RunLoaded, TypeInv, TypeOK

LEMMA AnswerQuotesKeepsInv ==
  ASSUME SerialInv, NEW e \in Executors, NEW j \in Jobs, NEW Q \in SUBSET Offers,
         AnswerQuotes(e, j, Q), TypeInv'
  PROVE  SerialInv'
<1>1. pc[e] = "await" /\ pc[e] \in Working /\ j \in cur[e]
  BY DEF AnswerQuotes, Working
<1>2. runSeen'[e] = run
  BY <1>1, InsideExecute, TouchRunFresh DEF AnswerQuotes, SerialInv
<1> QED BY <1>1, <1>2, SettlingKeepsInv DEF AnswerQuotes, TerminalJob

LEMMA FailJobKeepsInv ==
  ASSUME SerialInv, NEW e \in Executors, NEW j \in Jobs, FailJob(e, j), TypeInv'
  PROVE  SerialInv'
<1>1. pc[e] = "fail" /\ pc[e] \in Working /\ j \in cur[e]
  BY DEF FailJob, Working
<1>2. runSeen[e] \in {run, NoRun}
  BY <1>1, InsideExecute
<1> QED BY <1>1, <1>2, SettlingKeepsInv DEF FailJob, TerminalJob

\* An attempt that does not settle the job leads to another or to _fail_job; what
\* the session has expired or loaded again is as stored.
LEMMA FailingKeepsInv ==
  ASSUME SerialInv, NEW e \in Executors, NEW j \in Jobs, NEW l \in {"attempt", "fail"},
         pc[e] \in {"call", "await"}, j \in cur[e],
         UNCHANGED <<run, job, excluded, canon, todo, cur, left, calls>>,
         pc' = [pc EXCEPT ![e] = l],
         runSeen'[e] \in {run, NoRun},
         \A k \in Jobs : seen'[e][k] \in {job[k], NoJob},
         \A f \in Executors : f # e => seen'[f] = seen[f],
         l = "attempt" => job[j].attempts < MaxAttempts /\ seen'[e][j] = job[j],
         TypeInv'
  PROVE  SerialInv'
<1> USE DEF SerialInv
<1>1. pc[e] \in Working
  BY DEF Working
<1>2. /\ \A f \in Executors : f # e => pc[f] = "idle"
      /\ cur[e] = {j} /\ j \notin todo[e]
      /\ run.status = "RUNNING" /\ job[j].status = "RUNNING"
      /\ canon = {} /\ excluded = {}
      /\ {k \in Jobs : job[k].status \in OpenJob} = todo[e] \cup {j}
      /\ left[e] = MaxAttempts - job[j].attempts
  BY <1>1, InsideExecute
<1>3. Frame(e) /\ pc'[e] = l
  BY DEF Frame, TypeInv, TypeOK
<1>4. run.status \notin TerminalRun /\ run' = run
  BY <1>2 DEF TerminalRun
<1>5. NothingPlanned' /\ CanonicalIsFinal' /\ AttemptsOnRecord'
  BY <1>2 DEF NothingPlanned, CanonicalIsFinal, AttemptsOnRecord
<1>6. SessionInv(e)'
  <2>1. Attempting(e)'
    BY <1>2, <1>3 DEF Attempting, Working
  <2>2. Fresh(e)' /\ ListIsOpenJobs(e)'
    BY <1>2, <1>3 DEF Fresh, ListIsOpenJobs, Executing, Working, Closing
  <2>3. HoldsNothingEarly(e)' /\ StageAgrees(e)' /\ CanonicalStage(e)'
    BY <1>2, <1>3 DEF HoldsNothingEarly, StageAgrees, CanonicalStage, Executing,
       Working, Closing
  <2> QED BY <2>1, <2>2, <2>3 DEF SessionInv
<1> QED
  BY <1>2, <1>3, <1>4, <1>5, <1>6, StepSuffices

LEMMA AnswerRejectedKeepsInv ==
  ASSUME SerialInv, NEW e \in Executors, NEW j \in Jobs, NEW Q \in SUBSET Offers,
         NEW q \in Broken, AnswerRejected(e, j, Q, q), TypeInv'
  PROVE  SerialInv'
<1>1. pc[e] = "await" /\ pc[e] \in Working /\ j \in cur[e]
  BY DEF AnswerRejected, Working
<1>2. runSeen'[e] = run
  BY <1>1, InsideExecute, TouchRunFresh DEF AnswerRejected, SerialInv
<1>3. \A k \in Jobs : seen'[e][k] \in {job[k], NoJob}
  BY DEF AnswerRejected, SerialInv, SessionInv, Fresh
<1> QED BY <1>1, <1>2, <1>3, FailingKeepsInv DEF AnswerRejected

LEMMA FailTransientKeepsInv ==
  ASSUME SerialInv, NEW e \in Executors, NEW j \in Jobs, FailTransient(e, j), TypeInv'
  PROVE  SerialInv'
<1>1. pc[e] = "await" /\ pc[e] \in Working /\ j \in cur[e]
  BY DEF FailTransient, Working
<1>2. /\ runSeen[e] \in {run, NoRun} /\ seen[e][j] = job[j]
      /\ left[e] = MaxAttempts - job[j].attempts
  BY <1>1, InsideExecute
<1>3. job[j].attempts \in 0..MaxAttempts
  BY DEF SerialInv, TypeInv, TypeOK, JobRow
<1>4. \A k \in Jobs : seen'[e][k] \in {job[k], NoJob}
  BY DEF FailTransient, SerialInv, SessionInv, Fresh
<1>5. runSeen'[e] \in {run, NoRun}
  BY <1>2, TouchRunFresh DEF FailTransient, SerialInv
<1>6. UNCHANGED <<run, job, excluded, canon, seen, todo, left, calls>>
  BY DEF FailTransient, store
<1>7. CASE job[j].attempts < MaxAttempts
  <2>1. pc' = [pc EXCEPT ![e] = "attempt"] /\ UNCHANGED cur
    BY <1>2, <1>3, <1>7, ConstantsAssumption DEF FailTransient, Retry
  <2> QED BY <1>1, <1>2, <1>4, <1>5, <1>6, <1>7, <2>1, FailingKeepsInv
<1>8. CASE ~(job[j].attempts < MaxAttempts)
  <2>1. pc' = [pc EXCEPT ![e] = "fail"] /\ UNCHANGED cur
    BY <1>2, <1>3, <1>8, ConstantsAssumption DEF FailTransient, Retry
  <2> QED BY <1>1, <1>4, <1>5, <1>6, <2>1, FailingKeepsInv
<1> QED BY <1>7, <1>8

LEMMA FailPermanentKeepsInv ==
  ASSUME SerialInv, NEW e \in Executors, NEW j \in Jobs, FailPermanent(e, j), TypeInv'
  PROVE  SerialInv'
<1>1. pc[e] = "await" /\ pc[e] \in Working /\ j \in cur[e]
  BY DEF FailPermanent, Working
<1>2. runSeen[e] \in {run, NoRun}
  BY <1>1, InsideExecute
<1>3. \A k \in Jobs : seen[e][k] \in {job[k], NoJob}
  BY DEF SerialInv, SessionInv, Fresh
<1> QED BY <1>1, <1>2, <1>3, FailingKeepsInv DEF FailPermanent, store, local

LEMMA FailMalformedKeepsInv ==
  ASSUME SerialInv, NEW e \in Executors, NEW j \in Jobs, FailMalformed(e, j), TypeInv'
  PROVE  SerialInv'
<1>1. pc[e] \in {"call", "await"} /\ j \in cur[e]
  BY DEF FailMalformed
<1>2. /\ runSeen'[e] = NoRun
      /\ \A k \in Jobs : seen'[e][k] = NoJob
      /\ \A f \in Executors : f # e => seen'[f] = seen[f]
  BY DEF FailMalformed, SerialInv, TypeInv, TypeOK
<1> QED BY <1>1, <1>2, FailingKeepsInv DEF FailMalformed, store

LEMMA FailUnknownKeepsInv ==
  ASSUME SerialInv, NEW e \in Executors, NEW j \in Jobs, FailUnknown(e, j), TypeInv'
  PROVE  SerialInv'
<1>1. pc[e] = "await" /\ pc[e] \in Working /\ j \in cur[e]
  BY DEF FailUnknown, Working
<1>2. left[e] = MaxAttempts - job[j].attempts
  BY <1>1, InsideExecute
<1>3. job[j].attempts \in 0..MaxAttempts
  BY DEF SerialInv, TypeInv, TypeOK, JobRow
<1>4. /\ runSeen'[e] = run /\ seen'[e][j] = job[j]
      /\ \A k \in Jobs : seen'[e][k] \in {job[k], NoJob}
      /\ \A f \in Executors : f # e => seen'[f] = seen[f]
  BY DEF FailUnknown, SerialInv, TypeInv, TypeOK
<1>5. UNCHANGED <<run, job, excluded, canon, todo, left, calls>>
  BY DEF FailUnknown, store
<1>6. CASE job[j].attempts < MaxAttempts
  <2>1. pc' = [pc EXCEPT ![e] = "attempt"] /\ UNCHANGED cur
    BY <1>2, <1>3, <1>6, ConstantsAssumption DEF FailUnknown, Retry
  <2> QED BY <1>1, <1>4, <1>5, <1>6, <2>1, FailingKeepsInv
<1>7. CASE ~(job[j].attempts < MaxAttempts)
  <2>1. pc' = [pc EXCEPT ![e] = "fail"] /\ UNCHANGED cur
    BY <1>2, <1>3, <1>7, ConstantsAssumption DEF FailUnknown, Retry
  <2> QED BY <1>1, <1>4, <1>5, <2>1, FailingKeepsInv
<1> QED BY <1>6, <1>7

\* Excluding the exact duplicates of a job leaves every fare an observation.
LEMMA DuplicatesKeepFares ==
  ASSUME raw' = raw, excluded' = excluded \cup Duplicates
  PROVE  Fares' = Fares
<1>1. Included' = Included \ Duplicates
  BY DEF Included, Observations
<1>2. Fares' \subseteq Fares
  BY <1>1 DEF Fares
<1>3. ASSUME NEW x \in Included
      PROVE  \E y \in Included' : y[1] = x[1] /\ FlightOf[y[2]] = FlightOf[x[2]]
  <2>1. x \in SameFare(x)
    BY DEF SameFare
  <2>2. Kept(x) \in SameFare(x)
    BY <2>1 DEF Kept
  <2>3. SameFare(Kept(x)) = SameFare(x)
    BY <2>2 DEF SameFare
  <2>4. Kept(Kept(x)) = Kept(x)
    BY <2>3 DEF Kept
  <2>5. Kept(x) \in Included'
    BY <1>1, <2>2, <2>4 DEF Duplicates, SameFare
  <2> QED BY <2>2, <2>5 DEF SameFare
<1>4. Fares \subseteq Fares'
  <2> SUFFICES ASSUME NEW z \in Fares PROVE z \in Fares'
    OBVIOUS
  <2>1. PICK x \in Included : z = <<x[1][2], FlightOf[x[2]]>>
    BY DEF Fares
  <2>2. PICK y \in Included' : y[1] = x[1] /\ FlightOf[y[2]] = FlightOf[x[2]]
    BY <1>3
  <2> QED BY <2>1, <2>2 DEF Fares
<1> QED BY <1>2, <1>4

LEMMA CheckCanonicalKeepsInv ==
  ASSUME SerialInv, NEW e \in Executors, CheckCanonical(e), TypeInv'
  PROVE  SerialInv'
<1> USE DEF SerialInv
<1>1. /\ pc[e] = "pick" /\ pc[e] # "idle" /\ todo[e] = {} /\ cur[e] = {}
      /\ run.status = "RUNNING" /\ runSeen[e] \in {run, NoRun}
  BY DEF CheckCanonical, SessionInv, HoldsNothingEarly, StageAgrees, Fresh, Executing, Working
<1>2. NoOpenJob
  BY <1>1 DEF SessionInv, ListIsOpenJobs, Executing, NoOpenJob
<1>3. /\ runSeen'[e] = run
      /\ pc' = [pc EXCEPT ![e] = IF canon = {} THEN "canon" ELSE "finish"]
      /\ UNCHANGED <<run, job, raw, excluded, canon, seen, todo, cur, calls>>
  BY <1>1, TouchRunFresh DEF CheckCanonical, store
<1>4. \A f \in Executors : f # e => pc[f] = "idle"
  BY <1>1, ActiveSession
<1>5. Frame(e)
  BY <1>3 DEF Frame, TypeInv, TypeOK
<1>6. run.status \notin TerminalRun /\ run' = run
  BY <1>1, <1>3 DEF TerminalRun
<1>7. NothingPlanned' /\ AttemptsOnRecord' /\ CanonicalIsFinal' /\ NoOpenJob'
  BY <1>2, <1>3, FaresUnchanged DEF NothingPlanned, AttemptsOnRecord, CanonicalIsFinal, NoOpenJob
<1>8. SessionInv(e)'
  <2>1. pc'[e] = IF canon = {} THEN "canon" ELSE "finish"
    BY <1>3 DEF TypeInv, TypeOK
  <2>2. CanonicalStage(e)'
    BY <1>3, <2>1, FaresUnchanged DEF CanonicalStage, CanonicalIsFinal
  <2>3. Fresh(e)'
    BY <1>3, <2>1 DEF SessionInv, Fresh, Executing, Working, Closing
  <2>4. HoldsNothingEarly(e)' /\ StageAgrees(e)' /\ Attempting(e)' /\ ListIsOpenJobs(e)'
    BY <1>1, <1>3, <1>7, <2>1 DEF HoldsNothingEarly, StageAgrees, Attempting, ListIsOpenJobs,
       Executing, Working, Closing
  <2> QED BY <2>2, <2>3, <2>4 DEF SessionInv
<1> QED
  BY <1>4, <1>5, <1>6, <1>7, <1>8, StepSuffices

\* A session that leaves run_sources without having changed the run row.
LEMMA LeavingKeepsInv ==
  ASSUME SerialInv, NEW e \in Executors, pc[e] # "idle", Leave(e),
         UNCHANGED <<store, calls>>, TypeInv'
  PROVE  SerialInv'
<1> USE DEF SerialInv
<1>1. \A f \in Executors : f # e => pc[f] = "idle"
  BY ActiveSession
<1>2. Frame(e)
  BY DEF Leave, Frame, TypeInv, TypeOK
<1>3. run.status \notin TerminalRun /\ run' = run
  BY ActiveSession DEF store
<1>4. NothingPlanned' /\ AttemptsOnRecord' /\ CanonicalIsFinal'
  BY FaresUnchanged DEF store, NothingPlanned, AttemptsOnRecord, CanonicalIsFinal, NoOpenJob
<1>5. SessionInv(e)'
  <2>1. /\ pc'[e] = "idle" /\ todo'[e] = {} /\ cur'[e] = {}
        /\ seen'[e] = [j \in Jobs |-> NoJob]
    BY DEF Leave, TypeInv, TypeOK
  <2> QED
    BY <2>1 DEF SessionInv, HoldsNothingEarly, StageAgrees, Fresh, Attempting,
       ListIsOpenJobs, CanonicalStage, Working, Executing, Closing
<1> QED
  BY <1>1, <1>2, <1>3, <1>4, <1>5, StepSuffices

LEMMA CanonicalizeKeepsInv ==
  ASSUME SerialInv, NEW e \in Executors, Canonicalize(e), TypeInv'
  PROVE  SerialInv'
<1> USE DEF SerialInv
<1>1. /\ pc[e] = "canon" /\ pc[e] # "idle" /\ cur[e] = {} /\ run.status = "RUNNING"
      /\ runSeen[e] = run /\ NoOpenJob /\ canon = {} /\ excluded = {}
  BY DEF Canonicalize, SessionInv, HoldsNothingEarly, StageAgrees, Fresh, ListIsOpenJobs,
     CanonicalStage, CanonicalIsFinal, Working, Closing
<1>2. /\ canon' = Fares
      /\ excluded' = excluded \cup Duplicates
      /\ pc' = [pc EXCEPT ![e] = "finish"]
      /\ UNCHANGED <<run, job, raw, runSeen, seen, todo, cur, calls>>
  BY <1>1 DEF Canonicalize, local
<1>3. Fares' = Fares
  BY <1>2, DuplicatesKeepFares
<1>4. \A f \in Executors : f # e => pc[f] = "idle"
  BY <1>1, ActiveSession
<1>5. Frame(e)
  BY <1>2 DEF Frame, TypeInv, TypeOK
<1>6. run.status \notin TerminalRun /\ run' = run
  BY <1>1, <1>2 DEF TerminalRun
<1>7. NothingPlanned' /\ AttemptsOnRecord' /\ NoOpenJob'
  BY <1>1, <1>2 DEF NothingPlanned, AttemptsOnRecord, NoOpenJob
<1>8. CanonicalIsFinal'
  <2>1. ASSUME canon' = {} PROVE excluded' = {}
    <3>1. Included = {}
      BY <1>2, <2>1 DEF Fares
    <3> QED BY <1>1, <1>2, <3>1 DEF Duplicates
  <2> QED BY <1>1, <1>2, <1>3, <1>6, <1>7, <2>1 DEF CanonicalIsFinal
<1>9. SessionInv(e)'
  <2>1. pc'[e] = "finish"
    BY <1>2 DEF TypeInv, TypeOK
  <2>2. Fresh(e)'
    BY <1>1, <1>2, <2>1 DEF SessionInv, Fresh, Executing, Working, Closing
  <2>3. HoldsNothingEarly(e)' /\ StageAgrees(e)' /\ Attempting(e)' /\ ListIsOpenJobs(e)'
          /\ CanonicalStage(e)'
    BY <1>1, <1>2, <1>3, <1>7, <2>1 DEF HoldsNothingEarly, StageAgrees, Attempting,
       ListIsOpenJobs, CanonicalStage, Executing, Working, Closing
  <2> QED BY <2>2, <2>3 DEF SessionInv
<1> QED
  BY <1>4, <1>5, <1>6, <1>7, <1>8, <1>9, StepSuffices

\* The step that finishes the run establishes what a finished run promises.
LEMMA FinishKeepsInv ==
  ASSUME SerialInv, NEW e \in Executors, Finish(e), TypeInv'
  PROVE  SerialInv'
<1> USE DEF SerialInv
<1> DEFINE successful == JobsAt(job, "SUCCEEDED")
           failed     == JobsAt(job, "FAILED")
           valid      == Cardinality(Included)
<1>1. /\ pc[e] = "finish" /\ pc[e] # "idle" /\ run.status = "RUNNING" /\ runSeen[e] = run
      /\ NoOpenJob /\ canon = Fares
  BY DEF Finish, SessionInv, StageAgrees, Fresh, ListIsOpenJobs, CanonicalStage, Closing
<1>2. [j \in Jobs |-> JobLoaded(e, j)] = job
  <2>1. \A j \in Jobs : JobLoaded(e, j) = job[j]
    BY DEF JobLoaded, SessionInv, Fresh
  <2> QED BY <2>1 DEF TypeInv, TypeOK
<1>3. /\ run' = Run(Verdict(successful, failed), successful, failed, valid)
      /\ Leave(e)
      /\ UNCHANGED <<job, raw, excluded, canon, calls>>
  BY <1>1, <1>2 DEF Finish, Column
<1>4. successful \in Nat /\ failed \in Nat
  BY CountsAreNat DEF TypeInv, TypeOK
<1>5. run'.status \in TerminalRun
  BY <1>3, <1>4, VerdictType DEF Run
<1>6. \A f \in Executors : f # e => pc[f] = "idle"
  BY <1>1, ActiveSession
<1>7. Frame(e)
  BY <1>3 DEF Leave, Frame, TypeInv, TypeOK
<1>8. pc'[e] = "idle" /\ todo'[e] = {} /\ cur'[e] = {} /\ seen'[e] = [j \in Jobs |-> NoJob]
  BY <1>3 DEF Leave, TypeInv, TypeOK
<1>9. \A f \in Executors : SessionInv(f)'
  <2>1. SessionInv(e)'
    BY <1>8 DEF SessionInv, HoldsNothingEarly, StageAgrees, Fresh, Attempting,
       ListIsOpenJobs, CanonicalStage, Working, Executing, Closing
  <2> QED BY <1>6, <1>7, <2>1, OthersKeepInv DEF TypeInv
<1>10. Alone' /\ FinishedIsQuiet'
  BY <1>6, <1>7, <1>8 DEF Alone, FinishedIsQuiet, Frame
<1>11. NothingPlanned' /\ AttemptsOnRecord'
  BY <1>3, <1>5 DEF NothingPlanned, AttemptsOnRecord, TerminalRun
<1>12. CanonicalIsFinal'
  BY <1>1, <1>3, <1>5, FaresUnchanged DEF CanonicalIsFinal, NoOpenJob, TerminalRun
<1>13. FinishedRunAccounts'
  <2>1. JobsAt(job, "SUCCEEDED")' = successful /\ JobsAt(job, "FAILED")' = failed
    BY <1>3 DEF JobsAt
  <2> QED BY <1>1, <1>3, <2>1 DEF FinishedRunAccounts, NoOpenJob, Run
<1>14. FinishedRunIsCanonical'
  <2>1. Fares' = Fares
    BY <1>3, FaresUnchanged
  <2>2. Cardinality(Included)' = valid
    BY <1>3 DEF Included, Observations
  <2> QED BY <1>1, <1>3, <2>1, <2>2 DEF FinishedRunIsCanonical, Run
<1> QED BY <1>9, <1>10, <1>11, <1>12, <1>13, <1>14

LEMMA CrashKeepsInv ==
  ASSUME SerialInv, NEW e \in Executors, Crash(e), TypeInv'
  PROVE  SerialInv'
BY LeavingKeepsInv DEF Crash

LEMMA StutterKeepsInv ==
  ASSUME SerialInv, UNCHANGED vars
  PROVE  SerialInv'
<1> USE DEF vars, store, local
<1>1. TypeInv'
  BY DEF SerialInv, TypeInv, TypeOK, AttemptReady
<1>2. Fares' = Fares /\ Cardinality(Included)' = Cardinality(Included)
  BY DEF Fares, Included, Observations
<1>3. \A s : JobsAt(job, s)' = JobsAt(job, s)
  BY DEF JobsAt
<1>4. NothingPlanned' /\ CanonicalIsFinal' /\ AttemptsOnRecord' /\ Alone' /\ FinishedIsQuiet'
  BY <1>2 DEF SerialInv, NothingPlanned, CanonicalIsFinal, AttemptsOnRecord, Alone,
     FinishedIsQuiet, NoOpenJob
<1>5. FinishedRunAccounts' /\ FinishedRunIsCanonical'
  BY <1>2, <1>3 DEF SerialInv, FinishedRunAccounts, FinishedRunIsCanonical
<1>6. \A e \in Executors : SessionInv(e)'
  BY <1>2 DEF SerialInv, SessionInv, HoldsNothingEarly, StageAgrees, Fresh, Attempting,
     ListIsOpenJobs, CanonicalStage, NoOpenJob
<1> QED BY <1>1, <1>4, <1>5, <1>6 DEF SerialInv

LEMMA SerialInit == Init => SerialInv
<1> SUFFICES ASSUME Init PROVE SerialInv
  OBVIOUS
<1>1. TypeInv
  BY TypeInit
<1>2. run.status = "NONE"
  BY DEF Init, NoRun, Run
<1>3. Alone /\ NothingPlanned /\ CanonicalIsFinal /\ FinishedIsQuiet
  BY DEF Init, Alone, NothingPlanned, CanonicalIsFinal, FinishedIsQuiet
<1>4. AttemptsOnRecord /\ FinishedRunAccounts /\ FinishedRunIsCanonical
  BY <1>2 DEF Init, AttemptsOnRecord, FinishedRunAccounts, FinishedRunIsCanonical,
     TerminalRun, NoJob, Job
<1>5. \A e \in Executors : SessionInv(e)
  BY DEF Init, SessionInv, HoldsNothingEarly, StageAgrees, Fresh, Attempting,
     ListIsOpenJobs, CanonicalStage, Working, Executing, Closing
<1> QED BY <1>1, <1>3, <1>4, <1>5 DEF SerialInv

LEMMA SerialStep ==
  ASSUME Serial, SerialInv, [Next]_vars
  PROVE  SerialInv'
<1>1. TypeInv'
  BY TypeStep DEF SerialInv
<1>2. CASE UNCHANGED vars
  BY <1>2, StutterKeepsInv
<1>3. ASSUME NEW e \in Executors, NEW j \in Jobs, Settle(e, j)
      PROVE  SerialInv'
  BY <1>1, <1>3, AnswerEmptyKeepsInv, AnswerQuotesKeepsInv, AnswerRejectedKeepsInv,
     FailTransientKeepsInv, FailPermanentKeepsInv, FailMalformedKeepsInv,
     FailUnknownKeepsInv DEF Settle
<1>4. ASSUME NEW e \in Executors, Step(e)
      PROVE  SerialInv'
  BY <1>1, <1>3, <1>4, InsertKeepsInv, BeginKeepsInv, LoadJobsKeepsInv, StartJobKeepsInv,
     BeginAttemptKeepsInv, CallAdapterKeepsInv, FailJobKeepsInv, CheckCanonicalKeepsInv,
     CanonicalizeKeepsInv, FinishKeepsInv DEF Step
<1>5. ASSUME Next
      PROVE  SerialInv'
  BY <1>1, <1>2, <1>4, <1>5, RequestKeepsInv, CrashKeepsInv DEF Next, ReturnExisting
<1> QED BY <1>2, <1>5

-----------------------------------------------------------------------------
(* What follows from it.                                                   *)

\* The inductive invariant holds as long as requests do not overlap.
THEOREM SerialInvariant == ASSUME Serial PROVE Spec => []SerialInv
<1>1. Init => SerialInv
  BY SerialInit
<1>2. SerialInv /\ [Next]_vars => SerialInv'
  BY SerialStep
<1> QED BY <1>1, <1>2, PTL DEF Spec

\* No crash hides a call from attempt_count, and however often a run is
\* interrupted and resumed, a job makes at most MaxAttempts calls.
THEOREM BudgetHolds == ASSUME Serial PROVE Spec => [](AttemptBudget /\ AttemptsOnRecord)
<1>1. SerialInv => AttemptBudget /\ AttemptsOnRecord
  <2> SUFFICES ASSUME SerialInv PROVE AttemptBudget
    BY DEF SerialInv
  <2> SUFFICES ASSUME NEW j \in Jobs PROVE calls[j] <= MaxAttempts
    BY DEF AttemptBudget
  <2>1. calls[j] \in Nat /\ job[j].attempts \in 0..MaxAttempts
    BY DEF SerialInv, TypeInv, TypeOK, JobRow
  <2>2. calls[j] <= job[j].attempts
    BY DEF SerialInv, AttemptsOnRecord
  <2> QED BY <2>1, <2>2, ConstantsAssumption
<1> QED BY <1>1, SerialInvariant, PTL

\* A finished run has no open job, and its counters and verdict are those of the
\* stored rows.
THEOREM FinishedRunsAccount == ASSUME Serial PROVE Spec => []FinishedRunAccounts
<1>1. SerialInv => FinishedRunAccounts
  BY DEF SerialInv
<1> QED BY <1>1, SerialInvariant, PTL

\* Wherever a run was interrupted, when it is finished its canonical fares are
\* exactly those its included observations support.
THEOREM FinishedRunsAreCanonical == ASSUME Serial PROVE Spec => []FinishedRunIsCanonical
<1>1. SerialInv => FinishedRunIsCanonical
  BY DEF SerialInv
<1> QED BY <1>1, SerialInvariant, PTL
=============================================================================
