------------------------ MODULE CollectionRunRefinement ------------------------
(***************************************************************************)
(* More proofs about CollectionRun: what the canonical fares keep, overlap *)
(* or not; and, when requests do not overlap, that what is settled stays   *)
(* settled and that the run implements RunContract.                        *)
(***************************************************************************)
EXTENDS CollectionRunProofs

USE DEF At, Goto, Finished, Selected, Rest, Remaining, Record, Conflict, Grouped

-----------------------------------------------------------------------------
(* The canonical fares, overlap or not.                                    *)

\* With CanonicalSupported: only what was observed is excluded.
EvidenceInv == TypeInv /\ excluded \subseteq Observations /\ CanonicalSupported

\* What a step does to the evidence, if it is not the commit of canonicalize_run.
EvidenceGrows ==
  /\ UNCHANGED <<excluded, canon>>
  /\ \A j \in Jobs : raw[j] \subseteq raw'[j]

LEMMA StepsGrowEvidence ==
  ASSUME TypeOK, [Next]_vars
  PROVE  EvidenceGrows \/ \E e \in Executors : Canonicalize(e)
<1> USE DEF EvidenceGrows
<1>1. ASSUME NEW e \in Executors, NEW j \in Jobs, Settle(e, j)
      PROVE  EvidenceGrows
  <2>1. CASE raw' = raw
    BY <1>1, <2>1 DEF Settle, AnswerEmpty, AnswerQuotes, AnswerRejected, FailTransient,
       FailPermanent, FailMalformed, FailUnknown, store
  <2>2. ASSUME NEW Q, Store(j, Q)
        PROVE  \A k \in Jobs : raw[k] \subseteq raw'[k]
    BY <2>2 DEF Store, TypeOK
  <2>3. CASE raw' # raw
    BY <1>1, <2>2, <2>3 DEF Settle, AnswerEmpty, AnswerQuotes, AnswerRejected,
       FailTransient, FailPermanent, FailMalformed, FailUnknown, store
  <2> QED BY <2>1, <2>3
<1>2. ASSUME NEW e \in Executors, NEW j \in Jobs,
             StartJob(e, j) \/ BeginAttempt(e, j) \/ CallAdapter(e, j) \/ FailJob(e, j)
      PROVE  EvidenceGrows
  BY <1>2 DEF StartJob, BeginAttempt, CallAdapter, FailJob, store
<1>3. ASSUME NEW e \in Executors,
             \/ Insert(e) \/ Begin(e) \/ LoadJobs(e) \/ CheckCanonical(e) \/ Finish(e)
             \/ Crash(e) \/ ReturnExisting(e)
             \/ \E S \in SUBSET Sources : Request(e, S)
      PROVE  EvidenceGrows
  BY <1>3 DEF Insert, Begin, LoadJobs, CheckCanonical, Finish, Crash, ReturnExisting,
     Request, store, vars
<1>4. CASE UNCHANGED vars
  BY <1>4 DEF vars, store
<1> QED BY <1>1, <1>2, <1>3, <1>4 DEF Next, Step

LEMMA GrowingKeepsEvidence ==
  ASSUME EvidenceInv, TypeOK', EvidenceGrows
  PROVE  (excluded \subseteq Observations /\ CanonicalSupported)'
<1> USE DEF EvidenceInv, EvidenceGrows, CanonicalSupported
<1>1. Observations \subseteq Observations'
  BY DEF Observations
<1>2. Included' = Included \cup (Observations' \ Observations)
  BY <1>1 DEF Included
<1>3. Fares' = Fares \cup Grouped(Observations' \ Observations)
  BY <1>2 DEF Fares
<1>4. Grouped(Observations)' = Grouped(Observations) \cup Grouped(Observations' \ Observations)
  BY <1>1
<1> QED BY <1>1, <1>3, <1>4

LEMMA CanonicalizeKeepsEvidence ==
  ASSUME EvidenceInv, NEW e \in Executors, Canonicalize(e)
  PROVE  /\ (excluded \subseteq Observations /\ CanonicalSupported)'
         /\ canon # {} => canon' = canon
<1> USE DEF EvidenceInv, CanonicalSupported
<1>1. raw' = raw /\ Observations' = Observations
  BY DEF Canonicalize, Observations
<1>2. CASE Conflict
  <2>1. UNCHANGED <<canon, excluded>>
    BY <1>2 DEF Canonicalize
  <2> QED BY <1>1, <2>1 DEF Fares, Included
<1>3. CASE ~Conflict
  <2>1. canon = {} /\ canon' = Fares /\ excluded' = excluded \cup Duplicates
    BY <1>3 DEF Canonicalize
  <2>2. Fares' = Fares
    BY <1>1, <2>1, DuplicatesKeepFares
  <2>3. Duplicates \subseteq Observations
    BY DEF Duplicates, Included
  <2> QED BY <1>1, <2>1, <2>2, <2>3
<1> QED BY <1>2, <1>3

LEMMA EvidenceStep ==
  ASSUME EvidenceInv, [Next]_vars
  PROVE  EvidenceInv' /\ (canon # {} => canon' = canon)
<1>1. TypeInv'
  BY TypeStep DEF EvidenceInv
<1>2. CASE EvidenceGrows
  BY <1>1, <1>2, GrowingKeepsEvidence DEF EvidenceInv, EvidenceGrows, TypeInv
<1>3. ASSUME NEW e \in Executors, Canonicalize(e)
      PROVE  EvidenceInv' /\ (canon # {} => canon' = canon)
  BY <1>1, <1>3, CanonicalizeKeepsEvidence DEF EvidenceInv
<1> QED BY <1>2, <1>3, StepsGrowEvidence DEF EvidenceInv, TypeInv

LEMMA EvidenceAlways == Spec => []EvidenceInv
<1>1. Init => EvidenceInv
  BY TypeInit DEF Init, EvidenceInv, CanonicalSupported, Fares, Included, Observations
<1>2. EvidenceInv /\ [Next]_vars => EvidenceInv'
  BY EvidenceStep
<1> QED BY <1>1, <1>2, PTL DEF Spec

\* However many sessions execute a run, excluding duplicates never excludes the
\* last observation of a flight.
THEOREM CanonicalFaresSupported == Spec => []CanonicalSupported
<1>1. EvidenceInv => CanonicalSupported
  BY DEF EvidenceInv
<1> QED BY <1>1, EvidenceAlways, PTL

\* However many sessions execute a run, its canonical fares are written once.
THEOREM CanonicalFaresFrozen == Spec => CanonicalFrozen
<1>1. EvidenceInv /\ [Next]_vars => [canon # {} => canon' = canon]_vars
  BY EvidenceStep
<1> QED BY <1>1, EvidenceAlways, PTL DEF Spec, CanonicalFrozen

-----------------------------------------------------------------------------
(* Without overlap: what a session inside execute may change.              *)

LEMMA CurrentJobIsOpen ==
  ASSUME SerialInv, NEW e \in Executors, NEW j \in Jobs, pc[e] \in Working, j \in cur[e]
  PROVE  job[j].status = "RUNNING" /\ run.status = "RUNNING"
BY InsideExecute

LEMMA ListedJobIsOpen ==
  ASSUME SerialInv, NEW e \in Executors, NEW j \in Jobs, At(e, "pick"), j \in todo[e]
  PROVE  job[j].status \in OpenJob /\ run.status = "RUNNING"
BY DEF SerialInv, SessionInv, ListIsOpenJobs, StageAgrees, Executing

\* The steps a reader of the rows cannot see: the run and its jobs stay open, and
\* nothing else changes.
Unseen ==
  /\ Open(run'.status) = Open(run.status)
  /\ run.status \in TerminalRun => run' = run
  /\ \A j \in Jobs : /\ Open(job'[j].status) = Open(job[j].status)
                     /\ job[j].status \in TerminalJob => job'[j] = job[j]
  /\ UNCHANGED <<raw, canon, calls>>

LEMMA UnseenSteps ==
  ASSUME SerialInv, NEW e \in Executors,
         \/ \E S \in SUBSET Sources : Request(e, S)
         \/ ReturnExisting(e) \/ LoadJobs(e) \/ CheckCanonical(e) \/ Crash(e)
         \/ \E j \in Jobs : \/ FailTransient(e, j) \/ FailPermanent(e, j)
                            \/ FailMalformed(e, j) \/ FailUnknown(e, j)
  PROVE  Unseen
BY DEF Unseen, Request, ReturnExisting, LoadJobs, CheckCanonical, Crash, FailTransient,
   FailPermanent, FailMalformed, FailUnknown, store, vars

LEMMA BeginUnseen ==
  ASSUME SerialInv, NEW e \in Executors, Begin(e)
  PROVE  Unseen
<1>1. run.status \in OpenJob /\ runSeen[e] = run
  BY DEF Begin, SerialInv, SessionInv, StageAgrees, Fresh
<1>2. run'.status = "RUNNING" /\ UNCHANGED <<job, raw, canon, calls>>
  BY <1>1 DEF Begin, Run, Column
<1> QED BY <1>1, <1>2 DEF Unseen, Open, OpenJob, TerminalRun

LEMMA StartJobUnseen ==
  ASSUME SerialInv, NEW e \in Executors, NEW j \in Jobs, StartJob(e, j)
  PROVE  Unseen
<1>1. job[j].status \in OpenJob
  BY ListedJobIsOpen DEF StartJob
<1>2. JobLoaded(e, j) = job[j]
  BY DEF JobLoaded, SerialInv, SessionInv, Fresh
<1>3. /\ job' = [job EXCEPT ![j] = Job("RUNNING", @.attempts)]
      /\ UNCHANGED <<run, raw, canon, calls>>
  BY <1>2 DEF StartJob, Column
<1>4. job'[j].status = "RUNNING" /\ \A k \in Jobs \ {j} : job'[k] = job[k]
  BY <1>3 DEF SerialInv, TypeInv, TypeOK, Job
<1> QED BY <1>1, <1>3, <1>4 DEF Unseen, Open, OpenJob, TerminalJob

LEMMA BeginAttemptUnseen ==
  ASSUME SerialInv, NEW e \in Executors, NEW j \in Jobs, BeginAttempt(e, j)
  PROVE  Unseen
<1>1. job[j].status = "RUNNING"
  BY CurrentJobIsOpen DEF BeginAttempt, Working
<1>2. UNCHANGED <<run, raw, canon, calls>>
  BY DEF BeginAttempt
<1>3. job'[j].status = "RUNNING" /\ \A k \in Jobs \ {j} : job'[k] = job[k]
  BY <1>1 DEF BeginAttempt, SerialInv, TypeInv, TypeOK, Job
<1> QED BY <1>1, <1>2, <1>3 DEF Unseen, Open, OpenJob, TerminalJob

\* A commit of a terminal status stores that status, for a job that is open.
LEMMA CommitSettles ==
  ASSUME SerialInv, NEW e \in Executors, NEW j \in Jobs, NEW s \in TerminalJob,
         pc[e] \in Working, j \in cur[e], CommitStatus(e, j, s)
  PROVE  /\ job[j].status = "RUNNING" /\ run.status = "RUNNING"
         /\ job'[j].status = s
         /\ \A k \in Jobs \ {j} : job'[k] = job[k]
<1>1. job[j].status = "RUNNING" /\ run.status = "RUNNING"
  BY CurrentJobIsOpen
<1>2. seen[e][j] \in {job[j], NoJob}
  BY DEF SerialInv, SessionInv, Fresh
<1>3. seen[e][j].status # s
  BY <1>1, <1>2 DEF NoJob, Job, TerminalJob
<1>4. job' = [job EXCEPT ![j] = Job(s, @.attempts)]
  BY <1>3 DEF CommitStatus, Column
<1> QED BY <1>1, <1>4 DEF SerialInv, TypeInv, TypeOK, Job

-----------------------------------------------------------------------------
(* Without overlap: every step is a step of RunContract, or unseen.        *)

\* What the inductive invariant and the evidence give the simulation.
RefinementInv == SerialInv /\ EvidenceInv

LEMMA UnseenMaps ==
  ASSUME Unseen
  PROVE  UNCHANGED Contract!vars
BY DEF Unseen, Contract!vars, Contract!Jobs, Jobs

LEMMA InsertMaps ==
  ASSUME SerialInv, NEW e \in Executors, Insert(e)
  PROVE  Contract!Next
<1>1. run.status = "NONE" /\ want[e] \in SUBSET Sources
  BY DEF Insert, SerialInv, SessionInv, StageAgrees, TypeInv, TypeOK
<1>2. /\ run' = Run("PLANNED", 0, 0, 0)
      /\ job' = [j \in Jobs |-> IF j[1] \in want[e] THEN Job("PLANNED", 0) ELSE NoJob]
      /\ UNCHANGED <<raw, canon, calls>>
  BY <1>1 DEF Insert
<1>3. Open(run.status) = "NONE" /\ Open(run'.status) = "OPEN"
  BY <1>1, <1>2 DEF Open, OpenJob, Run
<1>4. \A j \in Jobs : Open(job'[j].status) = IF j[1] \in want[e] THEN "OPEN" ELSE "ABSENT"
  BY <1>2 DEF Open, OpenJob, Job, NoJob
<1>5. Contract!Plan(want[e])
  BY <1>2, <1>3, <1>4 DEF Contract!Plan, Contract!Jobs, Jobs
<1> QED BY <1>1, <1>5 DEF Contract!Next

LEMMA CallMaps ==
  ASSUME SerialInv, NEW e \in Executors, NEW j \in Jobs, CallAdapter(e, j)
  PROVE  Contract!Next
<1>1. /\ run.status = "RUNNING" /\ job[j].status = "RUNNING"
      /\ calls[j] < job[j].attempts
  BY InsideExecute DEF CallAdapter, Working
<1>2. calls[j] < MaxAttempts
  <2>1. calls[j] \in Nat /\ job[j].attempts \in 0..MaxAttempts
    BY DEF SerialInv, TypeInv, TypeOK, JobRow
  <2> QED BY <1>1, <2>1, ConstantsAssumption
<1>3. Open(run.status) = "OPEN" /\ Open(job[j].status) = "OPEN"
  BY <1>1 DEF Open, OpenJob
<1>4. UNCHANGED <<run, job, raw, canon>> /\ calls' = [calls EXCEPT ![j] = @ + 1]
  BY DEF CallAdapter, store
<1>5. Contract!Call(j)
  BY <1>2, <1>3, <1>4 DEF Contract!Call, Contract!Jobs, Jobs
<1> QED BY <1>5 DEF Contract!Next, Contract!Jobs, Jobs

\* A new status of one job, on the rows and as readers see it.
LEMMA OutcomeChanges ==
  ASSUME NEW j \in Jobs, NEW s \in TerminalJob, job'[j].status = s,
         \A k \in Jobs \ {j} : job'[k] = job[k]
  PROVE  [k \in Jobs |-> Open(job'[k].status)]
           = [[k \in Jobs |-> Open(job[k].status)] EXCEPT ![j] = s]
BY DEF Open, OpenJob, TerminalJob

LEMMA ObserveMaps ==
  ASSUME SerialInv, NEW e \in Executors, NEW j \in Jobs, NEW Q \in SUBSET Offers,
         pc[e] = "await", j \in cur[e],
         raw' = [raw EXCEPT ![j] = @ \cup Q],
         UNCHANGED <<run, canon, calls>>,
         UNCHANGED job \/ CommitStatus(e, j, "SUCCEEDED")
  PROVE  Contract!Next
<1>1. run.status = "RUNNING" /\ job[j].status = "RUNNING" /\ calls[j] > 0
  BY CurrentJobIsOpen DEF SerialInv, SessionInv, Attempting, Working
<1>2. Open(run.status) = "OPEN" /\ Open(job[j].status) = "OPEN"
  BY <1>1 DEF Open, OpenJob
<1>3. CASE UNCHANGED job
  <2>1. Contract!Observe(j, Q, "OPEN")
    BY <1>1, <1>2, <1>3 DEF Contract!Observe, Contract!Jobs, Jobs
  <2> QED BY <2>1 DEF Contract!Next, Contract!Jobs, Jobs
<1>4. CASE CommitStatus(e, j, "SUCCEEDED")
  <2>1. job'[j].status = "SUCCEEDED" /\ \A k \in Jobs \ {j} : job'[k] = job[k]
    BY <1>4, CommitSettles DEF Working, TerminalJob
  <2>2. [k \in Jobs |-> Open(job'[k].status)]
          = [[k \in Jobs |-> Open(job[k].status)] EXCEPT ![j] = "SUCCEEDED"]
    BY <2>1, OutcomeChanges DEF TerminalJob
  <2>3. Contract!Observe(j, Q, "SUCCEEDED")
    BY <1>1, <1>2, <2>2 DEF Contract!Observe, Contract!Jobs, Jobs
  <2> QED BY <2>3 DEF Contract!Next, Contract!Jobs, Jobs
<1> QED BY <1>3, <1>4

LEMMA AnswersMap ==
  ASSUME SerialInv, NEW e \in Executors, NEW j \in Jobs,
         \/ AnswerEmpty(e, j)
         \/ \E Q \in SUBSET Offers : \/ AnswerQuotes(e, j, Q)
                                     \/ \E q \in Broken : AnswerRejected(e, j, Q, q)
  PROVE  Contract!Next
<1>1. CASE AnswerEmpty(e, j)
  <2>1. raw' = [raw EXCEPT ![j] = @ \cup {}]
    BY <1>1 DEF AnswerEmpty, SerialInv, TypeInv, TypeOK
  <2>2. {} \in SUBSET Offers
    OBVIOUS
  <2>3. /\ pc[e] = "await" /\ j \in cur[e] /\ CommitStatus(e, j, "SUCCEEDED")
        /\ UNCHANGED <<run, canon, calls>>
    BY <1>1 DEF AnswerEmpty
  <2> HIDE <1>1
  <2> QED BY <2>1, <2>2, <2>3, ObserveMaps
<1>2. ASSUME NEW Q \in SUBSET Offers, AnswerQuotes(e, j, Q)
      PROVE  Contract!Next
  BY <1>2, ObserveMaps DEF AnswerQuotes, Store
<1>3. ASSUME NEW Q \in SUBSET Offers, NEW q \in Broken, AnswerRejected(e, j, Q, q)
      PROVE  Contract!Next
  <2>1. Q \cup {q} \in SUBSET Offers
    BY ConstantsAssumption
  <2> QED BY <1>3, <2>1, ObserveMaps DEF AnswerRejected, Store
<1> QED BY <1>1, <1>2, <1>3

LEMMA FailJobMaps ==
  ASSUME SerialInv, NEW e \in Executors, NEW j \in Jobs, FailJob(e, j)
  PROVE  Contract!Next
<1>1. /\ run.status = "RUNNING" /\ job[j].status = "RUNNING"
      /\ job'[j].status = "FAILED" /\ \A k \in Jobs \ {j} : job'[k] = job[k]
  BY CommitSettles DEF FailJob, Working, TerminalJob
<1>2. [k \in Jobs |-> Open(job'[k].status)]
        = [[k \in Jobs |-> Open(job[k].status)] EXCEPT ![j] = "FAILED"]
  BY <1>1, OutcomeChanges DEF TerminalJob
<1>3. Open(run.status) = "OPEN" /\ Open(job[j].status) = "OPEN"
  BY <1>1 DEF Open, OpenJob
<1>4. Contract!Fail(j)
  BY <1>2, <1>3 DEF Contract!Fail, Contract!Jobs, Jobs, FailJob
<1> QED BY <1>4 DEF Contract!Next, Contract!Jobs, Jobs

LEMMA ClosingIsSettled ==
  ASSUME SerialInv, NEW e \in Executors, pc[e] \in Closing
  PROVE  Open(run.status) = "OPEN" /\ Contract!Settled
<1>1. run.status = "RUNNING" /\ NoOpenJob
  BY DEF SerialInv, SessionInv, StageAgrees, ListIsOpenJobs
<1>2. \A j \in Jobs : Open(job[j].status) # "OPEN"
  BY <1>1 DEF NoOpenJob, Open, OpenJob, SerialInv, TypeInv, TypeOK, JobRow, JobStatus,
     TerminalJob
<1> QED BY <1>1, <1>2 DEF Open, OpenJob, Contract!Settled, Contract!Jobs, Jobs

LEMMA FaresOfEvidence ==
  ASSUME EvidenceInv
  PROVE  Contract!FaresOf(raw) = Fares
BY DEF EvidenceInv, CanonicalSupported, Observations, Contract!FaresOf, Contract!Jobs, Jobs

LEMMA CanonicalizeMaps ==
  ASSUME RefinementInv, NEW e \in Executors, Canonicalize(e)
  PROVE  Contract!Next
<1> USE DEF RefinementInv
<1>1. pc[e] \in Closing /\ canon = {}
  BY DEF Canonicalize, SerialInv, SessionInv, CanonicalStage, Closing
<1>2. canon' = Fares /\ UNCHANGED <<run, job, raw, calls>>
  BY <1>1 DEF Canonicalize
<1>3. Contract!Publish
  BY <1>1, <1>2, ClosingIsSettled, FaresOfEvidence DEF Contract!Publish
<1> QED BY <1>3 DEF Contract!Next

\* The counters say whether some job failed or succeeded.
LEMMA CountsSaySome ==
  ASSUME NEW s \in TerminalJob
  PROVE  JobsAt(job, s) = 0 <=> ~Contract!Some(s)
<1>1. IsFiniteSet({j \in Jobs : job[j].status = s})
  BY ConstantsAssumption, FS_Product, FS_Subset DEF Jobs
<1>2. JobsAt(job, s) = 0 <=> {j \in Jobs : job[j].status = s} = {}
  BY <1>1, FS_EmptySet DEF JobsAt
<1>3. Contract!Some(s) <=> \E j \in Jobs : job[j].status = s
  BY DEF Contract!Some, Contract!Jobs, Jobs, Open, OpenJob, TerminalJob
<1> QED BY <1>2, <1>3

LEMMA FinishMaps ==
  ASSUME RefinementInv, NEW e \in Executors, Finish(e)
  PROVE  Contract!Next /\ run.status \notin TerminalRun
<1> USE DEF RefinementInv
<1> DEFINE successful == JobsAt(job, "SUCCEEDED")
           failed     == JobsAt(job, "FAILED")
<1>1. /\ pc[e] \in Closing /\ canon = Fares /\ runSeen[e] = run /\ run.status = "RUNNING"
  BY DEF Finish, SerialInv, SessionInv, CanonicalStage, Fresh, StageAgrees, Closing
<1>2. [j \in Jobs |-> JobLoaded(e, j)] = job
  <2>1. \A j \in Jobs : JobLoaded(e, j) = job[j]
    BY DEF JobLoaded, SerialInv, SessionInv, Fresh
  <2> QED BY <2>1 DEF SerialInv, TypeInv, TypeOK
<1>3. successful \in Nat /\ failed \in Nat
  BY CountsAreNat DEF SerialInv, TypeInv, TypeOK
<1>4. Verdict(successful, failed) \in TerminalRun
  BY <1>3, VerdictType
<1>5. run'.status = Verdict(successful, failed) /\ UNCHANGED <<job, raw, canon, calls>>
  BY <1>1, <1>2, <1>4 DEF Finish, Run, Column, TerminalRun
<1>6. /\ failed = 0 <=> ~Contract!Some("FAILED")
      /\ successful = 0 <=> ~Contract!Some("SUCCEEDED")
  BY CountsSaySome DEF TerminalJob
<1>7. Open(run'.status) = CASE ~Contract!Some("FAILED") -> "COMPLETED"
        [] Contract!Some("FAILED") /\ ~Contract!Some("SUCCEEDED") -> "FAILED"
        [] Contract!Some("FAILED") /\ Contract!Some("SUCCEEDED") -> "PARTIAL"
  BY <1>3, <1>5, <1>6 DEF Verdict, Open, OpenJob
<1>8. Contract!Close
  BY <1>1, <1>5, <1>7, ClosingIsSettled, FaresOfEvidence DEF Contract!Close
<1> QED BY <1>1, <1>8 DEF Contract!Next, TerminalRun

LEMMA StepMaps ==
  ASSUME RefinementInv, Next
  PROVE  Unseen \/ Contract!Next
<1> USE DEF RefinementInv
<1>1. ASSUME NEW e \in Executors, NEW j \in Jobs, Settle(e, j)
      PROVE  Unseen \/ Contract!Next
  BY <1>1, AnswersMap, UnseenSteps DEF Settle
<1>2. ASSUME NEW e \in Executors, Step(e)
      PROVE  Unseen \/ Contract!Next
  BY <1>1, <1>2, InsertMaps, BeginUnseen, UnseenSteps, StartJobUnseen, BeginAttemptUnseen,
     CallMaps, FailJobMaps, CanonicalizeMaps, FinishMaps DEF Step
<1> QED BY <1>2, UnseenSteps DEF Next

LEMMA RefinementInvAlways == ASSUME Serial PROVE Spec => []RefinementInv
BY SerialInvariant, EvidenceAlways, PTL DEF RefinementInv

\* Without overlap a run keeps the contract its readers rely on: jobs fixed when
\* it is planned, a bounded number of calls, observations only for open jobs,
\* canonical fares from all the evidence, one verdict.
THEOREM RunImplementsContract == ASSUME Serial PROVE Spec => ContractSpec
<1>1. Init => Contract!Init
  BY DEF Init, Contract!Init, NoRun, NoJob, Run, Job, Open, OpenJob, Contract!Jobs, Jobs
<1>2. RefinementInv /\ [Next]_vars => [Contract!Next]_(Contract!vars)
  <2>1. ASSUME RefinementInv, Next
        PROVE  [Contract!Next]_(Contract!vars)
    BY <2>1, StepMaps, UnseenMaps
  <2>2. UNCHANGED vars => UNCHANGED Contract!vars
    BY DEF vars, store, Contract!vars
  <2> QED BY <2>1, <2>2
<1> QED BY <1>1, <1>2, RefinementInvAlways, PTL DEF Spec, ContractSpec, Contract!Spec

-----------------------------------------------------------------------------
(* Without overlap: what is settled stays settled.                         *)

SettledKept ==
  /\ run.status \in TerminalRun => run' = run
  /\ \A j \in Jobs : job[j].status \in TerminalJob =>
       job'[j] = job[j] /\ raw'[j] = raw[j]

LEMMA AnsweringKeepsSettled ==
  ASSUME SerialInv, NEW e \in Executors, NEW j \in Jobs,
         \/ AnswerEmpty(e, j) \/ FailJob(e, j)
         \/ \E Q \in SUBSET Offers : \/ AnswerQuotes(e, j, Q)
                                     \/ \E q \in Broken : AnswerRejected(e, j, Q, q)
  PROVE  SettledKept
<1>1. pc[e] \in Working /\ j \in cur[e]
  BY DEF AnswerEmpty, FailJob, AnswerQuotes, AnswerRejected, Working
<1>2. job[j].status = "RUNNING" /\ run' = run
  BY <1>1, CurrentJobIsOpen DEF AnswerEmpty, FailJob, AnswerQuotes, AnswerRejected
<1>3. \A k \in Jobs \ {j} : job'[k] = job[k]
  <2>1. CASE \E s \in TerminalJob : CommitStatus(e, j, s)
    BY <1>1, <2>1, CommitSettles
  <2>2. CASE job' = job
    BY <2>2
  <2> QED BY <2>1, <2>2 DEF AnswerEmpty, FailJob, AnswerQuotes, AnswerRejected, TerminalJob
<1>4. \A k \in Jobs \ {j} : raw'[k] = raw[k]
  BY DEF AnswerEmpty, FailJob, AnswerQuotes, AnswerRejected, Store, SerialInv, TypeInv, TypeOK
<1> QED BY <1>2, <1>3, <1>4 DEF SettledKept, TerminalJob

LEMMA SettledStep ==
  ASSUME RefinementInv, Next
  PROVE  SettledKept
<1> USE DEF RefinementInv
<1>1. Unseen => SettledKept
  BY DEF Unseen, SettledKept
<1>2. ASSUME NEW e \in Executors, NEW j \in Jobs, Settle(e, j)
      PROVE  SettledKept
  BY <1>1, <1>2, AnsweringKeepsSettled, UnseenSteps DEF Settle
<1>3. ASSUME NEW e \in Executors, Insert(e)
      PROVE  SettledKept
  <2>1. run.status = "NONE"
    BY <1>3 DEF Insert, SerialInv, SessionInv, StageAgrees
  <2>2. \A j \in Jobs : job[j].status = "ABSENT"
    BY <2>1 DEF SerialInv, NothingPlanned, NoJob, Job
  <2> QED BY <2>1, <2>2 DEF SettledKept, TerminalRun, TerminalJob
<1>4. ASSUME NEW e \in Executors, NEW j \in Jobs, CallAdapter(e, j)
      PROVE  SettledKept
  BY <1>4 DEF CallAdapter, store, SettledKept
<1>5. ASSUME NEW e \in Executors, Canonicalize(e) \/ Finish(e)
      PROVE  SettledKept
  BY <1>5, FinishMaps DEF Canonicalize, Finish, SettledKept
<1>6. ASSUME NEW e \in Executors, Step(e)
      PROVE  SettledKept
  BY <1>1, <1>2, <1>3, <1>4, <1>5, <1>6, BeginUnseen, UnseenSteps, StartJobUnseen,
     BeginAttemptUnseen, AnsweringKeepsSettled DEF Step
<1> QED BY <1>1, <1>6, UnseenSteps DEF Next

\* Without overlap, a finished run and a finished job never change again, and a
\* finished job gains no observation.
THEOREM SettledForGood == ASSUME Serial PROVE Spec => SettledStays
<1>1. RefinementInv /\ [Next]_vars => [SettledKept]_vars
  BY SettledStep
<1>2. SettledStays <=> [][SettledKept]_vars
  BY PTL DEF SettledStays, SettledKept
<1> QED BY <1>1, <1>2, RefinementInvAlways, PTL DEF Spec
=============================================================================
