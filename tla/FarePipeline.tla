---------------------------- MODULE FarePipeline ----------------------------
(***************************************************************************)
(* What one collection run makes of its quotes: observations, outlier      *)
(* flags, canonical fares, route-window prices, the index of the date and  *)
(* the reports computed from them.                                         *)
(*                                                                         *)
(*   pipeline/normalize.py    normalize_raw_quote                          *)
(*   pipeline/outliers.py     flag_statistical_outliers                    *)
(*   services/canonical.py    canonicalize_run (the numbers and roles)     *)
(*   indexing/                aggregate, methodology, weights, service     *)
(*   services/aggregation.py  index_coverage_response                      *)
(*   services/analytics.py    quality_summary                              *)
(*                                                                         *)
(* CollectionRun has the jobs, attempts and overlapping sessions; here one *)
(* session at a time runs the jobs, may die and be followed by another,    *)
(* and what matters is the content of the rows.  Money is in hundredths,   *)
(* a median is kept times two and an index value as an exact fraction.     *)
(***************************************************************************)
EXTENDS OrderStatistics, Integers, Sequences, FiniteSetsExt

CONSTANTS
  None,           \* a null column
  Sources, Direct,           \* the sources, and those of type AIRLINE_DIRECT
  Searches,       \* <<route, window>>: the searches and the basket's cells
  Answers,        \* job -> the answers its source may give: quotes, or Raises
  Raises,         \* an answer that ends in an exception
  DirectFirst,    \* canonical_fare_policy is direct-then-median-v1
  Weight, Bases,  \* cell -> its weight; the base prices it may have (or None)
  Scale,          \* a multiple of twice every base price: index values times Scale
  MinimumGroup,   \* MINIMUM_GROUP_SIZE
  MaxCrashes, MaxRevocations \* bounds

Jobs == Sources \X Searches

\* Every adapter fills in a fare class; an answer has no two quotes with one
\* content hash (uq_raw_job_content).
IsQuote(q) ==
  /\ q.total \in Int \cup {None} /\ q.hash \in Nat /\ q.class # None
  /\ q.readable \in BOOLEAN
IsAnswer(a) ==
  /\ IsFiniteSet(DOMAIN a)
  /\ \A i \in DOMAIN a : IsQuote(a[i])
  /\ \A i, k \in DOMAIN a : a[i].hash = a[k].hash => i = k

ASSUME PipelineAssumption ==
  /\ None \notin Int
  /\ IsFiniteSet(Sources) /\ Direct \subseteq Sources
  /\ IsFiniteSet(Searches) /\ Searches # {}
  /\ DOMAIN Answers = Jobs
  /\ \A j \in Jobs : \A a \in Answers[j] \ {Raises} : IsAnswer(a)
  /\ DirectFirst \in BOOLEAN
  /\ Weight \in [Searches -> Nat \ {0}]
  /\ Bases \subseteq [Searches -> (Nat \ {0}) \cup {None}]
  /\ Scale \in Nat \ {0}
  /\ \A b \in Bases, s \in Searches : b[s] # None => Scale % (2 * b[s]) = 0
  /\ MinimumGroup \in Nat \ {0}
  /\ MaxCrashes \in Nat /\ MaxRevocations \in Nat

SoftFlag == {"POSSIBLE_OUTLIER", "SOURCE_CONFLICT"}
HardFlag == {"INVALID_TRAVEL_DATE", "UNKNOWN_AIRPORT", "ROUTE_MISMATCH",
             "MISSING_FARE", "UNSUPPORTED_CURRENCY", "UNSUPPORTED_CABIN",
             "CONNECTING_FLIGHT", "PARSER_ERROR", "UNAVAILABLE_FARE",
             "UNAPPROVED_SOURCE", "NEGATIVE_FARE", "FARE_COMPONENT_MISMATCH",
             "INCOMPLETE_FLIGHT_IDENTITY", "DUPLICATE"}
Status   == {"ELIGIBLE", "ELIGIBLE_FLAGGED", "EXCLUDED"}

VARIABLES
  base,      \* the base prices of the basket (IndexSeries freezes them)
  done,      \* jobs in a terminal status -> whether they succeeded
  obs,       \* fare_observations, by <<job, quote>>
  fares,     \* canonical_fares with the roles of canonical_fare_observations
  run,       \* valid_observations of the closed run, or None
  price,     \* daily_route_window_prices by cell, or None
  index,     \* the daily index and its components, or None
  approved,  \* sources whose review_status is APPROVED
  pc,        \* where the session stands ("idle": there is none)
  seen,      \* the approved sources in its identity map
  crashes, revoked

vars == <<base, done, obs, fares, run, price, index, approved, pc, seen, crashes, revoked>>

Init ==
  /\ base \in Bases
  /\ done = <<>> /\ obs = <<>> /\ fares = {}
  /\ run = None /\ price = None /\ index = None
  /\ approved = Sources
  /\ pc = "idle" /\ seen = {}
  /\ crashes = 0 /\ revoked = 0

-----------------------------------------------------------------------------
(* Slips a maintainer could make in the definition each is named after; no  *)
(* specification uses them.                                                 *)

NonNegativeNot(n) == n
SoftenReplaces(o, flag, points) ==
  [o EXCEPT !.flags = {flag}, !.status = "ELIGIBLE_FLAGGED"]
ExcludeKeepsIncluded(o, flag, points) ==
  [o EXCEPT !.flags = @ \cup {flag}, !.status = "EXCLUDED"]
CheapestAll(O, X) == X

NonNegative(n) == IF n < 0 THEN 0 ELSE n

-----------------------------------------------------------------------------
(* Normalization.  A quote has the fields the rules read; travel date,     *)
(* airports, currency, cabin and availability are told apart only from     *)
(* what the job asked for.  The flags that compare columns copied from one *)
(* row (source, data class, booking window) cannot be raised.              *)

Parts(q)    == {q.parts[i] : i \in DOMAIN q.parts}  \* base, taxes, udf, fees
PartsSum(q) == SumFunction(q.parts)
Taxes(q)    == q.parts[2]

HardFlags(q, ok) ==
  LET raised == [
    INVALID_TRAVEL_DATE  |-> q.date \notin {"asked", None},
    UNKNOWN_AIRPORT      |-> q.airports = None,
    ROUTE_MISMATCH       |-> q.airports \notin {"asked", None},
    MISSING_FARE         |-> q.total = None \/ q.total <= 0,
    UNSUPPORTED_CURRENCY |-> q.currency # "INR",
    UNSUPPORTED_CABIN    |-> q.cabin # "ECONOMY",
    CONNECTING_FLIGHT    |-> q.nonstop # TRUE,
    PARSER_ERROR         |-> q.availability = "unreadable",
    UNAVAILABLE_FARE     |-> q.availability # "AVAILABLE",
    UNAPPROVED_SOURCE    |-> ~ok,
    NEGATIVE_FARE        |-> \E n \in Parts(q) \cup {q.total} : n # None /\ n < 0,
    FARE_COMPONENT_MISMATCH |->
      /\ q.total # None
      /\ IF None \notin Parts(q) THEN PartsSum(q) - q.total \notin -1..1
                                 ELSE Taxes(q) # None /\ q.total < Taxes(q),
    INCOMPLETE_FLIGHT_IDENTITY |-> q.flight = None]
  IN {f \in DOMAIN raised : raised[f]}

Observation(q, flags, score) ==
  [total |-> IF q.total # None /\ q.total < 0 THEN None ELSE q.total,
   flight |-> q.flight, class |-> q.class, flags |-> flags, score |-> score,
   status |-> IF flags = {} THEN "ELIGIBLE" ELSE "EXCLUDED",
   included |-> flags = {}]

Normalized(q, ok) ==
  LET flags == HardFlags(q, ok)
  IN  Observation(q, flags, NonNegative(100 - 20 * Cardinality(flags)))

\* The row kept for a quote normalization raises on; its total is as it came.
Rejected(q) ==
  [Observation(q, {"PARSER_ERROR"}, 0) EXCEPT !.total = q.total, !.flight = None, !.class = None]

-----------------------------------------------------------------------------
(* Scores and flags of an observation already stored.                      *)

\* max(0, (score or 100) - points): a score of 0 counts as 100.
Lowered(score, points) == NonNegative((IF score = 0 THEN 100 ELSE score) - points)

Soften(o, flag, points) ==
  [o EXCEPT !.flags = @ \cup {flag}, !.score = Lowered(@, points),
            !.status = IF @ = "ELIGIBLE" THEN "ELIGIBLE_FLAGGED" ELSE @]
Exclude(o, flag, points) ==
  [o EXCEPT !.flags = @ \cup {flag}, !.included = FALSE, !.status = "EXCLUDED",
            !.score = IF points = 0 THEN @ ELSE Lowered(@, points)]

-----------------------------------------------------------------------------
(* Outliers: modified z-scores over the included fares of a cell.          *)

Cell(x)   == x[1][2]
Source(x) == x[1][1]

Group(O, s) == {x \in DOMAIN O : Cell(x) = s /\ O[x].included}
Totals(O, X) == [x \in X |-> O[x].total]

\* Twice the distance of a total from the median of the group.
Deviation(O, G) ==
  LET center == TwiceMedian(Totals(O, G))
  IN  [x \in G |-> LET d == 2 * O[x].total - center IN IF d < 0 THEN -d ELSE d]

\* 0.6745 * deviation / mad > 3.5, or any deviation when mad is 0.
\* (A slip: with half the totals equal, those are outliers as well.)
OutliersAtLeast(O, G) ==
  LET deviation == Deviation(O, G)
      mad       == TwiceMedian(deviation)
  IN  {x \in G : deviation[x] >= 3 * mad}

OutliersOf(O, G) ==
  LET deviation == Deviation(O, G)
      mad       == TwiceMedian(deviation)
  IN  {x \in G : IF mad = 0 THEN deviation[x] > 0
                ELSE 6745 * 2 * deviation[x] > 35000 * mad}

Outliers(O) ==
  UNION {OutliersOf(O, G) : G \in {H \in {Group(O, s) : s \in Searches} :
                                     Cardinality(H) >= MinimumGroup}}

\* (A slip: a flag is paid for on every pass.)
FlagOutliersAgain(O) ==
  [x \in DOMAIN O |->
     IF x \in Outliers(O) THEN Soften(O[x], "POSSIBLE_OUTLIER", 5) ELSE O[x]]

FlagOutliers(O) ==
  LET new == {x \in Outliers(O) : "POSSIBLE_OUTLIER" \notin O[x].flags}
  IN  [x \in DOMAIN O |->
         IF x \in new THEN Soften(O[x], "POSSIBLE_OUTLIER", 5) ELSE O[x]]

-----------------------------------------------------------------------------
(* Canonical fares.  ok: the sources the session holds as approved.        *)

Key(O, x)   == <<Cell(x), O[x].flight, O[x].class>>
Candidates(O) == {x \in DOMAIN O : O[x].included /\ None \notin {O[x].flight, O[x].class}}

Unapproved(O, ok) == {x \in Candidates(O) : Source(x) \notin ok}

\* A later candidate with the source and the total of an accepted one.
Repeated(O, ok) ==
  LET approvedOnes == Candidates(O) \ Unapproved(O, ok)
  IN  {x \in approvedOnes :
         \E y \in approvedOnes :
            /\ x[1] = y[1] /\ y[2].hash < x[2].hash
            /\ O[y].total = O[x].total /\ Key(O, y) = Key(O, x)}

Accepted(O, ok) == Candidates(O) \ (Unapproved(O, ok) \cup Repeated(O, ok))

Cheapest(O, X) ==
  {x \in X : \A y \in X : Source(y) = Source(x) => O[x].total <= O[y].total}

IsDirect(x) == Source(x) \in Direct

Selected(X) ==
  IF DirectFirst /\ \E x \in X : IsDirect(x) THEN {x \in X : IsDirect(x)} ELSE X

\* quantize(Decimal("0.01")) of a median kept times two: half to even.
HalfEven(n) == (n + (IF n % 4 = 3 THEN 1 ELSE 0)) \div 2

\* The fare of one key: group, its candidates; E, the accepted ones of them;
\* B, the cheapest of each source; S, the ones its price is the median of.
Role(ok, E, B, S, x) ==
  IF Source(x) \notin ok THEN "REJECTED_UNAPPROVED"
  ELSE IF x \notin E THEN "DUPLICATE"
  ELSE IF x \notin B THEN "SOURCE_CANDIDATE"
  ELSE IF x \notin S THEN "CONSIDERED_NOT_SELECTED"
  ELSE IF DirectFirst /\ IsDirect(x) THEN "USED_DIRECT" ELSE "USED_MEDIAN"

Fare(O, ok, group, E) ==
  LET B       == Cheapest(O, E)
      S       == Selected(B)
      offered == {O[x].total : x \in B}
  IN  [key |-> Key(O, CHOOSE x \in E : TRUE),
       price |-> HalfEven(TwiceMedian(Totals(O, S))),
       lowest |-> Min(offered), highest |-> Max(offered),
       sources |-> Cardinality(B), count |-> Cardinality(E),
       conflict |-> Cardinality(offered) > 1,
       role |-> [x \in group |-> Role(ok, E, B, S, x)]]

Fares(O, ok) ==
  LET all  == Candidates(O)
      good == Accepted(O, ok)
  IN  {LET group == {x \in all : Key(O, x) = key} IN Fare(O, ok, group, group \cap good) :
         key \in {Key(O, x) : x \in good}}

Disputed(F) == UNION {{x \in DOMAIN f.role : f.conflict} : f \in F}

\* The observations once the fares F are made of them.
Resolved(O, ok, F) ==
  LET unapproved == Unapproved(O, ok)
      repeated   == Repeated(O, ok)
      disputed   == Disputed(F)
  IN  [x \in DOMAIN O |->
         CASE x \in unapproved -> Exclude(O[x], "UNAPPROVED_SOURCE", 0)
           [] x \in repeated   -> Exclude(O[x], "DUPLICATE", 20)
           [] x \in disputed \ (unapproved \cup repeated) -> Soften(O[x], "SOURCE_CONFLICT", 10)
           [] OTHER            -> O[x]]

-----------------------------------------------------------------------------
(* The index of the date.                                                  *)

\* Twice the median of the cell's canonical fares, or None.
CellPrice(s) ==
  LET F == {f \in fares : f.key[1] = s}
  IN  IF F = {} THEN None ELSE TwiceMedian([f \in F |-> f.price])

BasketComplete == \A s \in Searches : base[s] # None
Available      == {s \in Searches : price[s] # None /\ price[s] > 0 /\ base[s] # None}

WeightOf(S) == SumFunctionOnSet(Weight, S)

\* The price relative, times Scale: 100 * price / base.
Relative(s) == 100 * price[s] * (Scale \div (2 * base[s]))

Covered(weight) == 100 * weight >= 80 * WeightOf(Searches)

\* (A slip: the weights of the missing cells stay in the divisor.)
NewIndexUnscaled ==
  [value |-> IF Available = {} \/ ~BasketComplete THEN None
             ELSE SumFunction([s \in Available |-> Weight[s] * Relative(s)]),
   weight |-> WeightOf(Searches), relatives |-> [s \in Available |-> Relative(s)],
   status |-> "PUBLISHED"]

\* The value is value / (weight * Scale).
NewIndex ==
  LET weight == WeightOf(Available)
      value  == SumFunction([s \in Available |-> Weight[s] * Relative(s)])
  IN  [value     |-> IF Available = {} \/ ~BasketComplete THEN None ELSE value,
       weight    |-> weight,
       relatives |-> [s \in Available |-> Relative(s)],
       status    |-> IF ~BasketComplete THEN "PROVISIONAL_BASE"
                     ELSE IF Covered(weight) THEN "PUBLISHED" ELSE "INSUFFICIENT_COVERAGE"]

-----------------------------------------------------------------------------
(* The reports: index_coverage_response and quality_summary.               *)

UsedIn(f)     == {x \in DOMAIN f.role : f.role[x] \in {"USED_DIRECT", "USED_MEDIAN"}}
Used          == UNION {UsedIn(f) : f \in fares}
UsedFrom(s)   == {x \in Used : Source(x) = s}
UsedOn(S)     == {x \in Used : Cell(x) \in S}
UsedSources(X) == {Source(x) : x \in X}
RouteCells(r) == {s \in Searches : s[1] = r}

Confidence(weight, total, sources, valued) ==
  IF ~valued \/ 100 * weight < 80 * total THEN "INSUFFICIENT"
  ELSE IF sources < 2 THEN "LOW"
  ELSE IF 100 * weight >= 95 * total THEN "HIGH" ELSE "MEDIUM"

RouteCoverage(r) ==
  LET cells     == RouteCells(r)
      available == {s \in cells : s \in DOMAIN index.relatives}
      sources   == Cardinality(UsedSources(UsedOn(cells)))
  IN  [weight |-> WeightOf(available), missing |-> cells \ available,
       sources |-> sources, observations |-> Cardinality(UsedOn(cells)),
       confidence |-> Confidence(WeightOf(available), WeightOf(cells), sources,
                                 available # {})]

IndexConfidence ==
  Confidence(index.weight, WeightOf(Searches), Cardinality(UsedSources(Used)),
             index.value # None)

QualitySummary ==
  LET rows == DOMAIN obs
  IN  [total    |-> Cardinality(rows),
       included |-> Cardinality({x \in rows : obs[x].included}),
       flagged  |-> Cardinality({x \in rows : obs[x].flags # {}}),
       status   |-> [s \in Status |-> Cardinality({x \in rows : obs[x].status = s})]]

-----------------------------------------------------------------------------
(* The session and its environment.                                        *)

Open == Jobs \ DOMAIN done

\* The job the session runs next; the order of the ids means nothing.
Current == CHOOSE j \in Open : TRUE

Closed(j, succeeded) ==
  done' = [k \in DOMAIN done \cup {j} |-> IF k = j THEN succeeded ELSE done[k]]

\* The quotes of an answer up to the first one normalization raises on.
Read(a) ==
  {a[i] : i \in {n \in DOMAIN a : \A m \in 1..(n - 1) : a[m].readable}}

Store(j, a) ==
  obs' = [x \in DOMAIN obs \cup ({j} \X Read(a)) |->
            IF x \in DOMAIN obs THEN obs[x]
            ELSE IF x[2].readable THEN Normalized(x[2], j[1] \in seen) ELSE Rejected(x[2])]

\* run_sources asked again for an unfinished run.
Begin ==
  /\ pc = "idle" /\ run = None
  /\ pc' = "jobs" /\ seen' = approved
  /\ UNCHANGED <<base, done, obs, fares, run, price, index, approved, crashes, revoked>>

\* A job to its end: its last attempt, and what the answer leaves stored.
RunJob ==
  /\ pc = "jobs" /\ Open # {}
  /\ \E a \in Answers[Current] \ {Raises} :
        /\ Store(Current, a)
        /\ Closed(Current, \A q \in Read(a) : q.readable)
  /\ UNCHANGED <<base, fares, run, price, index, approved, pc, seen, crashes, revoked>>

\* The answer ends in an exception.  The rollback of an unexpected one expires the
\* loaded sources; a timeout and an error of the adapter roll nothing back.
FailJob ==
  /\ pc = "jobs" /\ Open # {}
  /\ Raises \in Answers[Current]
  /\ Closed(Current, FALSE)
  /\ seen' \in {seen, approved}
  /\ UNCHANGED <<base, obs, fares, run, price, index, approved, pc, crashes, revoked>>

\* flag_statistical_outliers and canonicalize_run, in one commit.
Canonicalize ==
  /\ pc = "jobs" /\ Open = {} /\ fares = {}
  /\ LET O == FlagOutliers(obs)
     IN  /\ fares' = Fares(O, seen)
         /\ obs' = Resolved(O, seen, fares')
  /\ pc' = "close"
  /\ UNCHANGED <<base, done, run, price, index, approved, seen, crashes, revoked>>

\* The fares are there already: what the outlier pass flags now is written
\* with the verdict.
Close ==
  /\ pc = "close" \/ (pc = "jobs" /\ Open = {} /\ fares # {})
  /\ obs' = IF pc = "jobs" THEN FlagOutliers(obs) ELSE obs
  /\ run' = Cardinality({x \in DOMAIN obs : obs[x].included})
  /\ pc' = "idle" /\ seen' = {}
  /\ UNCHANGED <<base, done, fares, price, index, approved, crashes, revoked>>

\* calculate_index_for_run, its daily prices and its index: two commits.
Price ==
  /\ run # None /\ price = None
  /\ \E j \in DOMAIN done : done[j]
  /\ price' = [s \in Searches |-> CellPrice(s)]
  /\ UNCHANGED <<base, done, obs, fares, run, index, approved, pc, seen, crashes, revoked>>

Index ==
  /\ price # None /\ index = None
  /\ index' = NewIndex
  /\ UNCHANGED <<base, done, obs, fares, run, price, approved, pc, seen, crashes, revoked>>

Crash ==
  /\ pc # "idle" /\ crashes < MaxCrashes
  /\ pc' = "idle" /\ seen' = {}
  /\ crashes' = crashes + 1
  /\ UNCHANGED <<base, done, obs, fares, run, price, index, approved, revoked>>

\* The review of a source changes (seed_configuration of another process).
Revoke ==
  /\ revoked < MaxRevocations
  /\ \E s \in approved : approved' = approved \ {s}
  /\ revoked' = revoked + 1
  /\ UNCHANGED <<base, done, obs, fares, run, price, index, pc, seen, crashes>>

Next == Begin \/ RunJob \/ FailJob \/ Canonicalize \/ Close \/ Price \/ Index \/ Crash \/ Revoke

Spec == Init /\ [][Next]_vars

-----------------------------------------------------------------------------
(* What must hold.                                                         *)

Rows == DOMAIN obs

Penalty == [f \in SoftFlag \cup {"DUPLICATE"} |->
              CASE f = "POSSIBLE_OUTLIER" -> 5 [] f = "SOURCE_CONFLICT" -> 10 [] OTHER -> 20]

\* Every row is of its type, and its score is one the CHECK constraint of
\* fare_observations takes.
TypeOK ==
  /\ \A x \in Rows :
       /\ x[1] \in Jobs
       /\ obs[x].flags \subseteq SoftFlag \cup HardFlag
       /\ obs[x].score \in 0..100 /\ obs[x].status \in Status
       /\ obs[x].included \in BOOLEAN
  /\ DOMAIN done \subseteq Jobs /\ seen \subseteq Sources /\ approved \subseteq Sources
  /\ pc \in {"idle", "jobs", "close"}
  /\ run \in Nat \cup {None}
  /\ price = None \/ price \in [Searches -> Nat \cup {None}]

\* After any passes, crashes and resumptions an observation counts exactly
\* when all it carries are the flags that never exclude, its status says the
\* same, and its score is 100 less what each of its flags costs: no flag is
\* paid for twice, and a score of 0 never climbs (outliers.py:66,
\* canonical.py:42 and 50).
VerdictExplained ==
  \A x \in Rows :
    LET o == obs[x]
        late == {f \in DOMAIN Penalty : f \in o.flags}
    IN  /\ o.included <=> o.flags \subseteq SoftFlag
        /\ o.status = IF o.flags = {} THEN "ELIGIBLE"
                      ELSE IF o.included THEN "ELIGIBLE_FLAGGED" ELSE "EXCLUDED"
        /\ o.included \/ late # {} =>
             o.score = 100 - SumFunctionOnSet(Penalty, late)

\* A pass singles out less than half of the fares of a cell that count, and none
\* of a cell with fewer than MinimumGroup; and an outlier is excluded only as a
\* duplicate or for its source (outliers.py: genuine surges stay).  A pass after
\* a crash may find others, once the duplicates that hid them are gone.
OutliersAreFew ==
  [][\A s \in Searches :
       LET counted == Group(obs, s)
           new     == {x \in Rows : /\ Cell(x) = s
                                    /\ "POSSIBLE_OUTLIER" \in obs'[x].flags \ obs[x].flags}
       IN  /\ new # {} => /\ 2 * Cardinality(new) < Cardinality(counted)
                          /\ Cardinality(counted) >= MinimumGroup
           /\ \A x \in counted :
                "POSSIBLE_OUTLIER" \in obs'[x].flags /\ ~obs'[x].included =>
                  obs'[x].flags \cap {"DUPLICATE", "UNAPPROVED_SOURCE"} # {}]_vars

\* Once the fares are written, each included observation has one role in one
\* fare, each role is of a candidate with the right fate, the price of a fare
\* lies between the cheapest and the dearest quote it was chosen from, at most
\* one quote per source is used, and a fare is in conflict exactly when every
\* counted observation of it says so.
FaresAccount ==
  fares # {} =>
    /\ \A x \in Rows : obs[x].included =>
         Cardinality({f \in fares : x \in DOMAIN f.role}) = 1
    /\ \A f \in fares :
         LET counted == {x \in DOMAIN f.role : obs[x].included}
             used    == UsedIn(f)
         IN  /\ counted = {x \in DOMAIN f.role :
                             f.role[x] \notin {"DUPLICATE", "REJECTED_UNAPPROVED"}}
             /\ Cardinality(counted) = f.count
             /\ Cardinality(used) = Cardinality({Source(x) : x \in used})
             /\ \E x \in used : obs[x].total <= f.price
             /\ \E x \in used : obs[x].total >= f.price
             /\ \A x \in used : f.lowest <= obs[x].total /\ obs[x].total <= f.highest
             /\ Cardinality({Source(x) : x \in counted}) = f.sources
             /\ \A x \in counted : f.conflict <=> "SOURCE_CONFLICT" \in obs[x].flags
             /\ f.conflict <=> f.lowest < f.highest
             /\ (DirectFirst /\ \E x \in counted : IsDirect(x)) =>
                  \A x \in used : IsDirect(x)

\* The index is a mean of the relatives it has: whatever cells are missing it
\* lies between the lowest and the highest; a published one covers 80 per cent
\* of the weight; and no observation outside the canonical fares moved it.
IndexIsMean ==
  index # None =>
    /\ index.value # None =>
         LET R == {index.relatives[s] : s \in DOMAIN index.relatives}
         IN  Min(R) * index.weight <= index.value /\ index.value <= Max(R) * index.weight
    /\ index.status = "PUBLISHED" =>
         index.value # None /\ 100 * index.weight >= 80 * WeightOf(Searches)
    /\ \A s \in DOMAIN index.relatives : UsedOn({s}) # {}

\* The reports agree with each other and with the rows: the routes add up to
\* the index's coverage, the sources and the routes to the same observations,
\* the observations of a run to the sum over its fares, and a route with a
\* priced cell has a source.
ReportsAgree ==
  /\ QualitySummary.included = QualitySummary.total - QualitySummary.status["EXCLUDED"]
  /\ QualitySummary.flagged = QualitySummary.total - QualitySummary.status["ELIGIBLE"]
  /\ run # None => run = SumFunction([f \in fares |-> f.count])
  /\ index # None =>
       LET routes == {s[1] : s \in Searches}
       IN  /\ SumFunction([r \in routes |-> RouteCoverage(r).weight]) = index.weight
           /\ SumFunction([r \in routes |-> RouteCoverage(r).observations])
                = SumFunction([s \in Sources |-> Cardinality(UsedFrom(s))])
           /\ \A r \in routes : RouteCoverage(r).missing # RouteCells(r) =>
                                  RouteCoverage(r).sources >= 1
           /\ \A r \in routes : IndexConfidence = "LOW" =>
                                  RouteCoverage(r).confidence \in {"LOW", "INSUFFICIENT"}

\* An observation once excluded never counts again, and no flag is lifted.
ExclusionIsFinal ==
  [][\A x \in Rows : /\ x \in DOMAIN obs'
                     /\ obs[x].flags \subseteq obs'[x].flags
                     /\ obs'[x].score <= obs[x].score
                     /\ obs'[x].included => obs[x].included]_vars

=============================================================================
