------------------------- MODULE HistoricalReference -------------------------
(***************************************************************************)
(* Reference datasets and the comparison with the index.                   *)
(*                                                                         *)
(*   services/historical.py   payload_from_csv, import_historical_dataset, *)
(*                            build_backtest                               *)
(*   services/exports.py      build_json_export                            *)
(*   api/v1/historical.py, scripts/import_historical.py   their callers    *)
(*                                                                         *)
(* Imports run at the same time, each in a session of its own, and may be  *)
(* killed.  A reader makes one JSON export with a backtest, or the         *)
(* backtest alone: several selects, each of what is then committed (READ   *)
(* COMMITTED), in one session whose identity map keeps what it loaded      *)
(* first.  Meanwhile the index refreshes its months (see IndexSeries).     *)
(***************************************************************************)
EXTENDS Integers, Sequences, FiniteSets

CONSTANTS
  Payloads,     \* what importers may send
  Months,       \* month numbers, in order
  Histories,    \* what the monthly rows of the index may be at first
  Importers,
  MaxImports, MaxKills, MaxRefreshes   \* bounds

None  == -1   \* NULL: a month of the index without a value
NoRow == -2   \* no row for the month
Codes == {p.code : p \in Payloads}

\* A line: a month, its scope (NATIONAL, or a route; BAD: it does not validate)
\* and its value.  The content hash covers the code too: it is the payload.
Scopes == {"NATIONAL", "ROUTE", "BAD"}
IsPayload(p) ==
  /\ DOMAIN p = {"code", "lines"}
  /\ \A k \in DOMAIN p.lines : p.lines[k] \in [month : Months, scope : Scopes, value : Nat]

ASSUME HistoricalAssumption ==
  /\ Months \subseteq Nat /\ IsFiniteSet(Months)
  /\ \A p \in Payloads : IsPayload(p)
  /\ Histories \subseteq [Months -> Nat \cup {None, NoRow}]
  /\ MaxImports \in Nat /\ MaxKills \in Nat /\ MaxRefreshes \in Nat

VARIABLES
  dataset,   \* the committed datasets
  row,       \* the committed observations: dataset code, line number, line
  period,    \* the monthly rows of the index
  importer,  \* per importer: where it stands, its payload, its last answer
  reader,    \* the export or backtest being made
  bounds

vars == <<dataset, row, period, importer, reader, bounds>>

NoPayload == [code |-> "none", lines |-> <<>>]
NoReader  == [at |-> "idle", kind |-> "none", code |-> "none", seen |-> [m \in Months |-> NoRow],
              listed |-> {}, found |-> NoPayload, refs |-> [m \in Months |-> None],
              points |-> <<>>, warnings |-> {}]

Init ==
  /\ dataset = {} /\ row = {}
  /\ period \in Histories
  /\ importer = [i \in Importers |-> [at |-> "idle", payload |-> NoPayload, answer |-> "none"]]
  /\ reader = NoReader
  /\ bounds = [imports |-> 0, kills |-> 0, refreshes |-> 0]

-----------------------------------------------------------------------------
(* Import.                                                                 *)

\* One line that does not validate refuses the file, as does a file without lines.
WellFormed(p) ==
  /\ p.lines # <<>>
  /\ \A k \in DOMAIN p.lines : p.lines[k].scope # "BAD"

RowsOf(p) == {[code |-> p.code, line |-> k, of |-> p.lines[k]] : k \in DOMAIN p.lines}

\* uq_historical_index_observation: the route columns of a national row are
\* NULL, and NULLs are distinct, so only route rows can clash.
Clashing(p) == \E k, l \in DOMAIN p.lines :
  /\ k # l
  /\ p.lines[k].scope = "ROUTE" /\ p.lines[l].scope = "ROUTE"
  /\ p.lines[k].month = p.lines[l].month

Move(i, place) == importer' = [importer EXCEPT ![i].at = place]
Answer(i, answer) == importer' = [importer EXCEPT ![i].at = "idle", ![i].answer = answer]

Ask(i, p) ==
  /\ importer[i].at = "idle" /\ bounds.imports < MaxImports
  /\ WellFormed(p)
  /\ importer' = [importer EXCEPT ![i] = [at |-> "code", payload |-> p, answer |-> "none"]]
  /\ bounds' = [bounds EXCEPT !.imports = @ + 1]
  /\ UNCHANGED <<dataset, row, period, reader>>

AskMalformed(i, p) ==
  /\ importer[i].at = "idle" /\ bounds.imports < MaxImports
  /\ ~WellFormed(p)
  /\ importer' = [importer EXCEPT ![i] = [at |-> "idle", payload |-> p, answer |-> "invalid"]]
  /\ bounds' = [bounds EXCEPT !.imports = @ + 1]
  /\ UNCHANGED <<dataset, row, period, reader>>

\* Slip: a code that is taken counts as the same import.
SameWhenTaken(d, p) == d.code = p.code

SameContent(d, p) == d = p

\* select by code: there with this content, there with another, or free.
FindCode(i) ==
  LET p == importer[i].payload
      existing == {d \in dataset : d.code = p.code}
  IN /\ importer[i].at = "code"
     /\ \/ existing = {} /\ Move(i, "hash")
        \/ \E d \in existing : /\ SameContent(d, p)
                               /\ Answer(i, "existing")
        \/ \E d \in existing : /\ ~SameContent(d, p)
                               /\ Answer(i, "refused")
     /\ UNCHANGED <<dataset, row, period, reader, bounds>>

\* select by hash, which can only find what was committed since the first select.
FindHash(i) ==
  /\ importer[i].at = "hash"
  /\ IF importer[i].payload \in dataset THEN Answer(i, "refused") ELSE Move(i, "insert")
  /\ UNCHANGED <<dataset, row, period, reader, bounds>>

\* flush of the dataset: it waits for another insert of the code to commit or
\* fail, and raises IntegrityError, which nobody handles, if it committed.
Insert(i) ==
  LET code == importer[i].payload.code
  IN /\ importer[i].at = "insert"
     /\ \A j \in Importers : importer[j].at = "staged" => importer[j].payload.code # code
     /\ IF \E d \in dataset : d.code = code THEN Answer(i, "error") ELSE Move(i, "staged")
     /\ UNCHANGED <<dataset, row, period, reader, bounds>>

\* The observations and the one commit; a clash rolls the dataset back as well.
Commit(i) ==
  LET p == importer[i].payload
  IN /\ importer[i].at = "staged"
     /\ ~Clashing(p)
     /\ dataset' = dataset \cup {p}
     /\ row' = row \cup RowsOf(p)
     /\ Answer(i, "created")
     /\ UNCHANGED <<period, reader, bounds>>

RollBack(i) ==
  /\ importer[i].at = "staged"
  /\ Clashing(importer[i].payload)
  /\ Answer(i, "error")
  /\ UNCHANGED <<dataset, row, period, reader, bounds>>

Kill(i) ==
  /\ importer[i].at # "idle" /\ bounds.kills < MaxKills
  /\ Answer(i, "lost")
  /\ bounds' = [bounds EXCEPT !.kills = @ + 1]
  /\ UNCHANGED <<dataset, row, period, reader>>

-----------------------------------------------------------------------------
(* Export and backtest.                                                    *)

\* The index computes a month again (refresh_period_index).
Refresh(m, value) ==
  /\ bounds.refreshes < MaxRefreshes
  /\ period[m] # value
  /\ period' = [period EXCEPT ![m] = value]
  /\ bounds' = [bounds EXCEPT !.refreshes = @ + 1]
  /\ UNCHANGED <<dataset, row, importer, reader>>

Request(kind, code) ==
  /\ reader.at = "idle"
  /\ reader' = [reader EXCEPT !.kind = kind, !.code = code,
                              !.at = IF kind = "export" THEN "periods" ELSE "dataset"]
  /\ UNCHANGED <<dataset, row, period, importer, bounds>>

Read(next) == reader' = next /\ UNCHANGED <<dataset, row, period, importer, bounds>>

ReadPeriods ==
  /\ reader.at = "periods"
  /\ Read([reader EXCEPT !.at = "datasets", !.seen = period])

ReadDatasets ==
  /\ reader.at = "datasets"
  /\ Read([reader EXCEPT !.at = "dataset", !.listed = dataset])

\* build_backtest: an unknown dataset is a 404, of the whole export too.
FindDataset ==
  LET named == {d \in dataset : d.code = reader.code}
  IN /\ reader.at = "dataset"
     /\ \/ \E d \in named : Read([reader EXCEPT !.at = "references", !.found = d])
        \/ named = {} /\ Read([reader EXCEPT !.at = "notfound"])

\* The national rows by month: with two for a month, the one read last.
National(code, m) == {r.of.value : r \in {s \in row : /\ s.code = code
                                                      /\ s.of.scope = "NATIONAL"
                                                      /\ s.of.month = m}}

ReadReferences ==
  /\ reader.at = "references"
  /\ \E refs \in [Months -> UNION {National(reader.code, m) : m \in Months} \cup {None}] :
       /\ \A m \in Months : IF National(reader.code, m) = {} THEN refs[m] = None
                            ELSE refs[m] \in National(reader.code, m)
       /\ Read([reader EXCEPT !.at = "monthly", !.refs = refs])

\* Slip: the monthly rows are read afresh.
Reloaded(m) == period[m]

\* A month already in the identity map keeps the value it was loaded with.
Loaded(m) == IF reader.seen[m] # NoRow THEN reader.seen[m] ELSE period[m]

\* The select filters in the database; the values come from the session.
Overlap == {m \in Months : period[m] \notin {None, NoRow} /\ reader.refs[m] # None}

\* Slip: the comparison is based on the last month.
Greatest(S) == CHOOSE m \in S : \A n \in S : m >= n

Least(S) == CHOOSE m \in S : \A n \in S : m <= n

InOrder(S) ==
  [k \in 1..Cardinality(S) |-> CHOOSE m \in S : Cardinality({n \in S : n < m}) = k - 1]

Valued(S) == {m \in S : Loaded(m) # None}
Bases == <<Loaded(Least(Overlap)), reader.refs[Least(Overlap)]>>
Rebasable == Bases[1] \notin {None, 0} /\ Bases[2] # 0

\* A point keeps the pair of values and of bases; 100 * value / base is left out.
Points ==
  LET months == InOrder(Valued(Overlap))
  IN [k \in DOMAIN months |->
       [month |-> months[k], internal |-> Loaded(months[k]), reference |-> reader.refs[months[k]],
        bases |-> Bases]]

\* deviation_percent divides by the rebased reference.
Divides == \A m \in Valued(Overlap) : reader.refs[m] # 0

\* _correlation, from sums over n points: n times each variance and covariance.
Total(f) == LET S[k \in 0..Len(f)] == IF k = 0 THEN 0 ELSE S[k - 1] + f[k] IN S[Len(f)]
Covariance(f, g) ==
  Len(f) * Total([k \in DOMAIN f |-> f[k] * g[k]]) - Total(f) * Total(g)

CorrelationOf(points) ==
  LET xs == [k \in DOMAIN points |-> points[k].internal]
      ys == [k \in DOMAIN points |-> points[k].reference]
  IN IF Len(points) < 3 THEN "CORRELATION_INSUFFICIENT_OVERLAP"
     ELSE IF Covariance(xs, xs) = 0 \/ Covariance(ys, ys) = 0 THEN "CORRELATION_CONSTANT_SERIES"
     ELSE "CALCULATED"

Report(points, warnings) ==
  Read([reader EXCEPT !.at = "rows", !.points = points,
                      !.warnings = (warnings \cup {CorrelationOf(points)}) \ {"CALCULATED"}])

Compare ==
  /\ reader.at = "monthly"
  /\ \/ Overlap = {} /\ Report(<<>>, {"NO_OVERLAPPING_MONTHS"})
     \/ Overlap # {} /\ ~Rebasable /\ Report(<<>>, {"INVALID_REBASE_VALUE"})
     \/ Overlap # {} /\ Rebasable /\ Divides /\ Report(Points, {})
     \/ /\ Overlap # {} /\ Rebasable /\ ~Divides   \* DivisionByZero: nobody handles it
        /\ Read([reader EXCEPT !.at = "failed"])

\* The rows of the datasets listed, and of the one compared, are read last.
ReadRows ==
  /\ reader.at = "rows"
  /\ Read([reader EXCEPT !.at = "done"])

Next == \/ \E i \in Importers :
             \/ \E p \in Payloads : Ask(i, p) \/ AskMalformed(i, p)
             \/ FindCode(i) \/ FindHash(i) \/ Insert(i) \/ Commit(i) \/ RollBack(i) \/ Kill(i)
        \/ \E m \in Months : \E v \in {h[m] : h \in Histories} \ {NoRow} : Refresh(m, v)
        \/ \E kind \in {"export", "backtest"}, c \in Codes : Request(kind, c)
        \/ ReadPeriods \/ ReadDatasets \/ FindDataset \/ ReadReferences \/ Compare \/ ReadRows

Spec == Init /\ [][Next]_vars

-----------------------------------------------------------------------------
(* Properties.                                                             *)

\* An import that was answered "created" or "existing" left the very content it
\* sent, and keeps it whatever is imported later; one refused found its code
\* taken; and a dataset is there with all of its rows or not at all, whoever
\* else imports and wherever a process is killed (import_historical_dataset,
\* the unique code, the one commit).
ImportAnswered ==
  /\ \A i \in Importers :
       LET p == importer[i].payload IN
       CASE importer[i].answer \in {"created", "existing"} -> p \in dataset /\ RowsOf(p) \subseteq row
         [] importer[i].answer = "refused" -> \E d \in dataset : d.code = p.code
         [] importer[i].answer = "error" -> Clashing(p) \/ \E d \in dataset : d.code = p.code
         [] OTHER -> TRUE
  /\ row = UNION {RowsOf(d) : d \in dataset}
  /\ \A d, e \in dataset : d.code = e.code => d = e

\* A backtest that was made compares, month after month, values of the dataset
\* as imported with the first month they share as base 100; it has no point only
\* for a reason it gives, and fails only on a dataset with a zero in it
\* (build_backtest).
BacktestExplained ==
  LET pts == reader.points
      zeros == {k \in DOMAIN reader.found.lines : reader.found.lines[k].value = 0}
  IN /\ reader.at = "done" =>
          /\ \A k \in DOMAIN pts :
               /\ \E l \in DOMAIN reader.found.lines :
                    reader.found.lines[l] = [month |-> pts[k].month, scope |-> "NATIONAL",
                                             value |-> pts[k].reference]
               /\ pts[k].bases = <<pts[1].internal, pts[1].reference>>
               /\ \A l \in 1..(k - 1) : pts[l].month < pts[k].month
          /\ pts = <<>> => reader.warnings \cap {"NO_OVERLAPPING_MONTHS", "INVALID_REBASE_VALUE"} # {}
          /\ reader.warnings = {} => Len(pts) >= 3
     /\ reader.at = "failed" => zeros # {}

\* An export says one thing of a month: the value in its backtest is the value in
\* its list of periods, though the index may have been computed again between the
\* two selects; and every dataset it lists has all its rows (the session's identity
\* map, build_json_export).
ExportAgrees ==
  reader.at = "done" /\ reader.kind = "export" =>
    /\ \A k \in DOMAIN reader.points :
         reader.seen[reader.points[k].month] \in {NoRow, reader.points[k].internal}
    /\ \A d \in reader.listed : RowsOf(d) \subseteq row

=============================================================================
