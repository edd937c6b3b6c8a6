----------------------------- MODULE RunContract -----------------------------
(***************************************************************************)
(* What a collection run promises to whoever reads its rows, with no word  *)
(* of sessions, restarts or retries:                                       *)
(*                                                                         *)
(*   - the jobs are fixed when the run is planned;                         *)
(*   - a source is called at most MaxAttempts times for a job, and only    *)
(*     while the job is open;                                              *)
(*   - a job gains observations only while it is open, and only after a    *)
(*     call; it is settled once;                                           *)
(*   - the canonical fares are taken when every job is settled, from all   *)
(*     the observations;                                                   *)
(*   - the run is closed once, after that, with the verdict its jobs       *)
(*     support.                                                            *)
(*                                                                         *)
(* CollectionRun implements it as long as requests do not overlap.         *)
(***************************************************************************)
EXTENDS Naturals

CONSTANTS Sources, Searches, Offers, Eligible, FlightOf, MaxAttempts

Jobs == Sources \X Searches

VARIABLES
  status,    \* of the run: "NONE", "OPEN" or its verdict
  outcome,   \* per job: "ABSENT", "OPEN", "SUCCEEDED" or "FAILED"
  spent,     \* per job: calls made to its source
  evidence,  \* per job: the offers observed
  fares      \* the canonical fares

vars == <<status, outcome, spent, evidence, fares>>

Settled == \A j \in Jobs : outcome[j] # "OPEN"

FaresOf(ev) ==
  {<<x[1][2], FlightOf[x[2]]>> : x \in {y \in Jobs \X Eligible : y[2] \in ev[y[1]]}}

Some(o) == \E j \in Jobs : outcome[j] = o

Init ==
  /\ status = "NONE"
  /\ outcome = [j \in Jobs |-> "ABSENT"]
  /\ spent = [j \in Jobs |-> 0]
  /\ evidence = [j \in Jobs |-> {}]
  /\ fares = {}

Plan(S) ==
  /\ status = "NONE"
  /\ status' = "OPEN"
  /\ outcome' = [j \in Jobs |-> IF j[1] \in S THEN "OPEN" ELSE "ABSENT"]
  /\ UNCHANGED <<spent, evidence, fares>>

Call(j) ==
  /\ status = "OPEN"
  /\ outcome[j] = "OPEN"
  /\ spent[j] < MaxAttempts
  /\ spent' = [spent EXCEPT ![j] = @ + 1]
  /\ UNCHANGED <<status, outcome, evidence, fares>>

\* An answer: it may settle the job or leave it open (a rejected quote, whose
\* job is failed in a later step).
Observe(j, Q, o) ==
  /\ status = "OPEN"
  /\ outcome[j] = "OPEN"
  /\ spent[j] > 0
  /\ evidence' = [evidence EXCEPT ![j] = @ \cup Q]
  /\ outcome' = [outcome EXCEPT ![j] = o]
  /\ UNCHANGED <<status, spent, fares>>

\* A job may fail without a call: its attempts went to sessions that died.
Fail(j) ==
  /\ status = "OPEN"
  /\ outcome[j] = "OPEN"
  /\ outcome' = [outcome EXCEPT ![j] = "FAILED"]
  /\ UNCHANGED <<status, spent, evidence, fares>>

Publish ==
  /\ status = "OPEN"
  /\ Settled
  /\ fares' = FaresOf(evidence)
  /\ UNCHANGED <<status, outcome, spent, evidence>>

Close ==
  /\ status = "OPEN"
  /\ Settled
  /\ fares = FaresOf(evidence)
  /\ status' = CASE ~Some("FAILED")                      -> "COMPLETED"
                 [] Some("FAILED") /\ ~Some("SUCCEEDED") -> "FAILED"
                 [] Some("FAILED") /\ Some("SUCCEEDED")  -> "PARTIAL"
  /\ UNCHANGED <<outcome, spent, evidence, fares>>

Next ==
  \/ \E S \in SUBSET Sources : Plan(S)
  \/ \E j \in Jobs :
       \/ Call(j)
       \/ \E Q \in SUBSET Offers, o \in {"OPEN", "SUCCEEDED"} : Observe(j, Q, o)
       \/ Fail(j)
  \/ Publish
  \/ Close

Spec == Init /\ [][Next]_vars
=============================================================================
