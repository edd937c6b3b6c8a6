---------------------- MODULE HistoricalReferenceProofs ----------------------
(***************************************************************************)
(* Proofs about HistoricalReference, for any payloads, months and number   *)
(* of imports: what an importer is told is true and stays true, an export  *)
(* says one thing of a month, and a backtest is what its dataset and its   *)
(* months make it.                                                         *)
(***************************************************************************)
EXTENDS HistoricalReference, DataLemmas

-----------------------------------------------------------------------------
(* The inductive invariant.                                                *)

Stages  == {"idle", "code", "hash", "insert", "staged"}
Answers == {"none", "invalid", "existing", "refused", "created", "error", "lost"}

ImporterType ==
  importer \in [Importers -> [at : Stages, payload : Payloads \cup {NoPayload},
                              answer : Answers]]

\* What an answer says of the datasets.
AnswerHolds(i) ==
  LET p == importer[i].payload IN
  /\ importer[i].answer \in {"created", "existing"} => p \in dataset
  /\ importer[i].answer = "refused" => \E d \in dataset : d.code = p.code
  /\ importer[i].answer = "error" => Clashing(p) \/ \E d \in dataset : d.code = p.code

RowsComplete == row = UNION {RowsOf(d) : d \in dataset}
CodesUnique  == \A d, e \in dataset : d.code = e.code => d = e

\* A flushed dataset holds its code until it is committed or rolled back.
StagedAlone ==
  \A i \in Importers : importer[i].at = "staged" =>
    /\ \A d \in dataset : d.code # importer[i].payload.code
    /\ \A j \in Importers : importer[j].at = "staged" /\ j # i =>
         importer[j].payload.code # importer[i].payload.code

ImportInv ==
  /\ ImporterType
  /\ \A i \in Importers : /\ AnswerHolds(i)
                          /\ importer[i].at # "idle" => importer[i].answer = "none"
  /\ RowsComplete /\ CodesUnique /\ StagedAlone

\* The points were made of the months the session has in its identity map.
ReaderInv ==
  /\ reader.at \in {"idle", "periods"} => DOMAIN reader.points = {}
  /\ \A k \in DOMAIN reader.points :
       reader.seen[reader.points[k].month] \in {NoRow, reader.points[k].internal}
  /\ reader.listed \subseteq dataset

-----------------------------------------------------------------------------
(* Imports.                                                                *)

\* An importer moves on within its session.
LEMMA MoveKeeps ==
  ASSUME ImportInv, NEW i \in Importers, importer[i].at # "idle",
         NEW place \in Stages, Move(i, place), UNCHANGED <<dataset, row>>,
         place = "staged" =>
           /\ \A d \in dataset : d.code # importer[i].payload.code
           /\ \A j \in Importers : importer[j].at = "staged" =>
                importer[j].payload.code # importer[i].payload.code
  PROVE  ImportInv'
<1>1. /\ importer'[i].at = place
      /\ UNCHANGED <<importer[i].payload, importer[i].answer>>
  BY DEF ImportInv, ImporterType, Move
<1>2. \A j \in Importers : j # i => importer'[j] = importer[j]
  BY DEF ImportInv, ImporterType, Move
<1>3. ImporterType'
  BY DEF ImportInv, ImporterType, Move
<1>4. ASSUME NEW j \in Importers
      PROVE  /\ AnswerHolds(j)'
             /\ importer'[j].at # "idle" => importer'[j].answer = "none"
  <2>1. AnswerHolds(j) /\ (importer[j].at # "idle" => importer[j].answer = "none")
    BY DEF ImportInv
  <2>2. UNCHANGED <<dataset, importer[j].payload, importer[j].answer>>
    BY <1>1, <1>2
  <2>3. AnswerHolds(j)'
    BY <2>1, <2>2 DEF AnswerHolds
  <2> QED BY <1>1, <1>2, <2>1, <2>3
<1>5. (RowsComplete /\ CodesUnique)'
  BY DEF ImportInv, RowsComplete, CodesUnique
<1>6. StagedAlone'
  <2> SUFFICES ASSUME NEW j \in Importers, importer'[j].at = "staged"
               PROVE  /\ \A d \in dataset : d.code # importer'[j].payload.code
                      /\ \A k \in Importers : importer'[k].at = "staged" /\ k # j =>
                           importer'[k].payload.code # importer'[j].payload.code
    BY DEF StagedAlone
  <2>1. CASE j = i
    BY <1>1, <1>2, <2>1
  <2>2. CASE j # i
    <3>1. importer'[j] = importer[j] /\ importer[j].at = "staged"
      BY <1>2, <2>2
    <3>2. /\ \A d \in dataset : d.code # importer[j].payload.code
          /\ \A k \in Importers : importer[k].at = "staged" /\ k # j =>
               importer[k].payload.code # importer[j].payload.code
      BY <3>1 DEF ImportInv, StagedAlone
    <3>3. place = "staged" => importer[j].payload.code # importer[i].payload.code
      BY <3>1
    <3> QED BY <1>1, <1>2, <3>1, <3>2, <3>3
  <2> QED BY <2>1, <2>2
<1> QED BY <1>3, <1>4, <1>5, <1>6 DEF ImportInv

\* An importer is answered, having committed its dataset or not.
LEMMA AnswerKeeps ==
  ASSUME ImportInv, NEW i \in Importers, NEW a \in Answers, Answer(i, a),
         dataset \subseteq dataset', RowsComplete', CodesUnique',
         a \in {"created", "existing"} => importer[i].payload \in dataset',
         a = "refused" => \E d \in dataset' : d.code = importer[i].payload.code,
         a = "error" => \/ Clashing(importer[i].payload)
                        \/ \E d \in dataset' : d.code = importer[i].payload.code,
         \A j \in Importers : importer[j].at = "staged" /\ j # i =>
           \A d \in dataset' : d.code # importer[j].payload.code
  PROVE  ImportInv'
<1>1. importer'[i].at = "idle" /\ importer'[i].answer = a
      /\ importer'[i].payload = importer[i].payload
  BY DEF ImportInv, ImporterType, Answer
<1>2. \A j \in Importers : j # i => importer'[j] = importer[j]
  BY DEF ImportInv, ImporterType, Answer
<1>3. ImporterType'
  BY DEF ImportInv, ImporterType, Answer, Stages
<1>4. ASSUME NEW j \in Importers
      PROVE  /\ AnswerHolds(j)'
             /\ importer'[j].at # "idle" => importer'[j].answer = "none"
  <2>1. CASE j = i
    <3>1. AnswerHolds(i)'
      BY <1>1 DEF AnswerHolds
    <3> QED BY <1>1, <2>1, <3>1
  <2>2. CASE j # i
    <3>1. AnswerHolds(j) /\ (importer[j].at # "idle" => importer[j].answer = "none")
      BY DEF ImportInv
    <3>2. AnswerHolds(j)'
      BY <1>2, <2>2, <3>1 DEF AnswerHolds
    <3> QED BY <1>2, <2>2, <3>1, <3>2
  <2> QED BY <2>1, <2>2
<1>5. StagedAlone'
  BY <1>1, <1>2 DEF ImportInv, StagedAlone
<1> QED BY <1>3, <1>4, <1>5 DEF ImportInv

\* An importer that is idle starts with a payload of its own.
LEMMA AskKeeps ==
  ASSUME ImportInv, NEW i \in Importers, NEW p \in Payloads, Ask(i, p) \/ AskMalformed(i, p)
  PROVE  ImportInv'
<1>1. PICK at \in {"code", "idle"}, answer \in {"none", "invalid"} :
        /\ importer' = [importer EXCEPT ![i] = [at |-> at, payload |-> p, answer |-> answer]]
        /\ at = "code" => answer = "none"
        /\ UNCHANGED <<dataset, row>>
  BY DEF Ask, AskMalformed
<1>2. ImporterType'
  BY <1>1 DEF ImportInv, ImporterType, Stages, Answers
<1>3. importer'[i] = [at |-> at, payload |-> p, answer |-> answer]
      /\ \A j \in Importers : j # i => importer'[j] = importer[j]
  BY <1>1 DEF ImportInv, ImporterType
<1>4. ASSUME NEW j \in Importers
      PROVE  /\ AnswerHolds(j)'
             /\ importer'[j].at # "idle" => importer'[j].answer = "none"
  <2>1. AnswerHolds(j) /\ (importer[j].at # "idle" => importer[j].answer = "none")
    BY DEF ImportInv
  <2>2. CASE j = i
    BY <1>1, <1>3, <2>2 DEF AnswerHolds
  <2>3. CASE j # i
    BY <1>1, <1>3, <2>1, <2>3 DEF AnswerHolds
  <2> QED BY <2>2, <2>3
<1>5. (RowsComplete /\ CodesUnique)'
  BY <1>1 DEF ImportInv, RowsComplete, CodesUnique
<1>6. importer'[i].at # "staged"
  BY <1>3
<1>7. StagedAlone'
  BY <1>1, <1>3, <1>6 DEF ImportInv, StagedAlone
<1> QED BY <1>2, <1>4, <1>5, <1>7 DEF ImportInv

\* The commit of a staged dataset.
LEMMA CommitKeeps == ASSUME ImportInv, NEW i \in Importers, Commit(i) PROVE ImportInv'
<1> DEFINE p == importer[i].payload
<1>1. /\ importer[i].at = "staged" /\ dataset' = dataset \cup {p}
      /\ row' = row \cup RowsOf(p) /\ Answer(i, "created")
  BY DEF Commit
<1>2. RowsComplete'
  BY <1>1 DEF ImportInv, RowsComplete
<1>3. \A d \in dataset : d.code # p.code
  BY <1>1 DEF ImportInv, StagedAlone
<1>4. CodesUnique'
  BY <1>1, <1>3 DEF ImportInv, CodesUnique
<1>5. \A j \in Importers : importer[j].at = "staged" /\ j # i =>
        \A d \in dataset' : d.code # importer[j].payload.code
  BY <1>1 DEF ImportInv, StagedAlone
<1> QED BY <1>1, <1>2, <1>4, <1>5, AnswerKeeps DEF Answers

\* An answer that leaves the datasets alone.
LEMMA RefusalKeeps ==
  ASSUME ImportInv, NEW i \in Importers, NEW a \in Answers \ {"created"}, Answer(i, a),
         UNCHANGED <<dataset, row>>,
         a = "existing" => importer[i].payload \in dataset,
         a = "refused" => \E d \in dataset : d.code = importer[i].payload.code,
         a = "error" => \/ Clashing(importer[i].payload)
                        \/ \E d \in dataset : d.code = importer[i].payload.code
  PROVE  ImportInv'
<1>1. RowsComplete' /\ CodesUnique'
  BY DEF ImportInv, RowsComplete, CodesUnique
<1>2. \A j \in Importers : importer[j].at = "staged" /\ j # i =>
        \A d \in dataset' : d.code # importer[j].payload.code
  BY DEF ImportInv, StagedAlone
<1> QED BY <1>1, <1>2, AnswerKeeps

LEMMA ImporterStep ==
  ASSUME ImportInv, NEW i \in Importers,
         FindCode(i) \/ FindHash(i) \/ Insert(i) \/ Commit(i) \/ RollBack(i) \/ Kill(i)
  PROVE  ImportInv'
<1> USE DEF Stages, Answers
<1>1. CASE FindCode(i)
  BY <1>1, MoveKeeps, RefusalKeeps DEF FindCode, SameContent
<1>2. CASE FindHash(i)
  BY <1>2, MoveKeeps, RefusalKeeps DEF FindHash
<1>3. CASE Insert(i)
  BY <1>3, MoveKeeps, RefusalKeeps DEF Insert
<1>4. CASE Commit(i)
  BY <1>4, CommitKeeps
<1>5. CASE RollBack(i)
  BY <1>5, RefusalKeeps DEF RollBack
<1>6. CASE Kill(i)
  BY <1>6, RefusalKeeps DEF Kill
<1> QED BY <1>1, <1>2, <1>3, <1>4, <1>5, <1>6

LEMMA ImportInit == Init => ImportInv
<1> SUFFICES ASSUME Init PROVE ImportInv
  OBVIOUS
<1>1. dataset = {} /\ row = {}
  BY DEF Init
<1>2. ImporterType /\ \A i \in Importers : importer[i].at = "idle" /\ importer[i].answer = "none"
  BY DEF Init, ImporterType, Stages, Answers
<1>3. RowsComplete /\ CodesUnique
  BY <1>1 DEF RowsComplete, CodesUnique
<1> QED BY <1>2, <1>3 DEF ImportInv, AnswerHolds, StagedAlone

\* Readers and the index leave datasets and importers alone.
LEMMA NobodyImports ==
  ASSUME ImportInv, UNCHANGED <<dataset, row, importer>>
  PROVE  ImportInv'
<1>1. \A i \in Importers : AnswerHolds(i)'
  BY DEF ImportInv, AnswerHolds
<1> QED BY <1>1 DEF ImportInv, ImporterType, RowsComplete, CodesUnique, StagedAlone

ReadStep ==
  ReadPeriods \/ ReadDatasets \/ FindDataset \/ ReadReferences \/ Compare \/ ReadRows

LEMMA ReadersOnlyRead ==
  (\E kind \in {"export", "backtest"}, c \in Codes : Request(kind, c)) \/ ReadStep
    => UNCHANGED <<dataset, row, importer>>
BY DEF Request, ReadStep, ReadPeriods, ReadDatasets, FindDataset, ReadReferences, Compare,
       ReadRows, Read, Report

LEMMA ImportStep == ASSUME ImportInv, [Next]_vars PROVE ImportInv'
<1>1. ASSUME NEW m, NEW v, Refresh(m, v) PROVE ImportInv'
  BY <1>1, NobodyImports DEF Refresh
<1>2. CASE UNCHANGED vars
  BY <1>2, NobodyImports DEF vars
<1>3. CASE (\E kind \in {"export", "backtest"}, c \in Codes : Request(kind, c)) \/ ReadStep
  BY <1>3, ReadersOnlyRead, NobodyImports
<1> QED BY <1>1, <1>2, <1>3, ImporterStep, AskKeeps DEF Next, ReadStep

THEOREM ImportInvariant == Spec => []ImportInv
<1>1. ImportInv /\ [Next]_vars => ImportInv'
  BY ImportStep
<1> QED BY <1>1, ImportInit, PTL DEF Spec

\* What an importer is told is true and stays true, and a dataset has all of its rows
\* or is not there, whoever else imports and wherever a process is killed
\* (import_historical_dataset, the unique code, the one commit).
THEOREM ImportsAreAnswered == Spec => []ImportAnswered
<1>1. ImportInv => ImportAnswered
  <2> SUFFICES ASSUME ImportInv PROVE ImportAnswered
    OBVIOUS
  <2>1. row = UNION {RowsOf(d) : d \in dataset}
    BY DEF ImportInv, RowsComplete
  <2>2. \A d, e \in dataset : d.code = e.code => d = e
    BY DEF ImportInv, CodesUnique
  <2>3. \A p \in dataset : RowsOf(p) \subseteq row
    BY <2>1
  <2>4. \A i \in Importers : AnswerHolds(i)
    BY DEF ImportInv
  <2> QED BY <2>1, <2>2, <2>3, <2>4 DEF ImportAnswered, AnswerHolds
<1> QED BY <1>1, ImportInvariant, PTL

-----------------------------------------------------------------------------
(* Exports.                                                                *)

LEMMA ReaderInit == Init => ReaderInv
BY DEF Init, ReaderInv, NoReader

LEMMA OthersStep ==
  ASSUME ReaderInv, UNCHANGED reader, dataset \subseteq dataset'
  PROVE  ReaderInv'
BY DEF ReaderInv

LEMMA ReadKeeps == ASSUME ReaderInv, ReadStep PROVE ReaderInv'
<1>1. CASE ReadPeriods
  BY <1>1 DEF ReadPeriods, Read, ReaderInv
<1>2. CASE ReadDatasets
  BY <1>2 DEF ReadDatasets, Read, ReaderInv
<1>3. CASE FindDataset
  <2>1. ASSUME NEW d, Read([reader EXCEPT !.at = "references", !.found = d])
        PROVE  ReaderInv'
    BY <2>1 DEF Read, ReaderInv
  <2>2. ASSUME Read([reader EXCEPT !.at = "notfound"])
        PROVE  ReaderInv'
    BY <2>2 DEF Read, ReaderInv
  <2>3. \/ \E d \in dataset : Read([reader EXCEPT !.at = "references", !.found = d])
        \/ Read([reader EXCEPT !.at = "notfound"])
    BY <1>3 DEF FindDataset
  <2> QED BY <2>1, <2>2, <2>3
<1>4. CASE ReadReferences
  BY <1>4 DEF ReadReferences, Read, ReaderInv
<1>5. CASE Compare
  <2>1. ASSUME NEW points, NEW warnings, Report(points, warnings),
               \A k \in DOMAIN points :
                 reader.seen[points[k].month] \in {NoRow, points[k].internal}
        PROVE  ReaderInv'
    <3>1. /\ reader'.at = "rows" /\ reader'.points = points
          /\ UNCHANGED <<dataset, reader.seen, reader.listed>>
      BY <2>1 DEF Report, Read
    <3> QED BY <2>1, <3>1 DEF ReaderInv
  <2>2. \A k \in DOMAIN Points : reader.seen[Points[k].month] \in {NoRow, Points[k].internal}
    BY DEF Points, Loaded
  <2>3. DOMAIN <<>> = {}
    OBVIOUS
  <2>4. ASSUME Read([reader EXCEPT !.at = "failed"]) PROVE ReaderInv'
    BY <2>4 DEF Read, ReaderInv
  <2>5. Compare => \/ \E warnings : Report(<<>>, warnings) \/ Report(Points, warnings)
                   \/ Read([reader EXCEPT !.at = "failed"])
    BY DEF Compare
  <2> QED BY <1>5, <2>1, <2>2, <2>3, <2>4, <2>5
<1>6. CASE ReadRows
  BY <1>6 DEF ReadRows, Read, ReaderInv
<1> QED BY <1>1, <1>2, <1>3, <1>4, <1>5, <1>6 DEF ReadStep

LEMMA ReaderStep == ASSUME ReaderInv, [Next]_vars PROVE ReaderInv'
<1>1. ASSUME NEW kind, NEW c, Request(kind, c) PROVE ReaderInv'
  BY <1>1 DEF Request, ReaderInv
<1>2. ASSUME NEW i \in Importers,
             (\E p \in Payloads : Ask(i, p) \/ AskMalformed(i, p)) \/ FindCode(i) \/ FindHash(i)
             \/ Insert(i) \/ Commit(i) \/ RollBack(i) \/ Kill(i)
      PROVE  ReaderInv'
  BY <1>2, OthersStep
     DEF Ask, AskMalformed, FindCode, FindHash, Insert, Commit, RollBack, Kill
<1>3. ASSUME NEW m, NEW v, Refresh(m, v) PROVE ReaderInv'
  BY <1>3, OthersStep DEF Refresh
<1>4. CASE UNCHANGED vars
  BY <1>4, OthersStep DEF vars
<1> QED BY <1>1, <1>2, <1>3, <1>4, ReadKeeps DEF Next, ReadStep

\* The periods of an export and its backtest agree, though the index may compute a
\* month again between the selects, and no dataset it lists lacks a row
\* (build_json_export, the session's identity map).
THEOREM ExportIsConsistent == Spec => []ExportAgrees
<1>1. ReaderInv /\ [Next]_vars => ReaderInv'
  BY ReaderStep
<1>2. Spec => []ReaderInv
  BY <1>1, ReaderInit, PTL DEF Spec
<1>3. ImportInv /\ ReaderInv => ExportAgrees
  <2> SUFFICES ASSUME ImportInv, ReaderInv PROVE ExportAgrees
    OBVIOUS
  <2>1. \A d \in reader.listed : RowsOf(d) \subseteq row
    BY DEF ImportInv, RowsComplete, ReaderInv
  <2> QED BY <2>1 DEF ReaderInv, ExportAgrees
<1> QED BY <1>2, <1>3, ImportInvariant, PTL

-----------------------------------------------------------------------------
(* Backtests.                                                              *)

\* A month's reference is a national line of the dataset.
ReferencesHold(refs, lines) ==
  \A m \in Months : refs[m] # None =>
    \E l \in DOMAIN lines :
      lines[l] = [month |-> m, scope |-> "NATIONAL", value |-> refs[m]]

\* The points of a dataset, in the order of their months, on the bases of the first.
PointsHold(pts, lines) ==
  \A k \in DOMAIN pts :
    /\ \E l \in DOMAIN lines :
         lines[l] = [month |-> pts[k].month, scope |-> "NATIONAL", value |-> pts[k].reference]
    /\ pts[k].bases = <<pts[1].internal, pts[1].reference>>
    /\ \A l \in 1..(k - 1) : pts[l].month < pts[k].month

WarningsHold(pts, warnings) ==
  /\ pts = <<>> => warnings \cap {"NO_OVERLAPPING_MONTHS", "INVALID_REBASE_VALUE"} # {}
  /\ warnings = {} => Len(pts) >= 3

HasZero(lines) == {k \in DOMAIN lines : lines[k].value = 0} # {}

Compared == {"rows", "done"}
Named    == {"references", "monthly", "failed"} \cup Compared

BacktestInv ==
  /\ dataset \subseteq Payloads \cup {NoPayload}
  /\ reader.at \in Named => reader.found \in dataset /\ reader.found.code = reader.code
  /\ reader.at = "monthly" => ReferencesHold(reader.refs, reader.found.lines)
  /\ reader.at \in Compared => /\ PointsHold(reader.points, reader.found.lines)
                               /\ WarningsHold(reader.points, reader.warnings)
  /\ reader.at = "failed" => HasZero(reader.found.lines)

\* The months in order: the k-th has k - 1 before it.
LEMMA InOrderIs ==
  ASSUME NEW S \in SUBSET Months
  PROVE  /\ Cardinality(S) \in Nat /\ DOMAIN InOrder(S) = 1..Cardinality(S)
         /\ \A k \in 1..Cardinality(S) : InOrder(S)[k] \in S
         /\ \A k \in 1..Cardinality(S) : \A l \in 1..(k - 1) : InOrder(S)[l] < InOrder(S)[k]
         /\ S # {} => 1 \in 1..Cardinality(S) /\ \A m \in S : InOrder(S)[1] <= m
<1> DEFINE before(m) == {n \in S : n < m}
<1>1. S \in SUBSET Nat /\ IsFiniteSet(S) /\ Cardinality(S) \in Nat
  BY HistoricalAssumption, FS_Subset, FS_CardinalityType
<1>2. DOMAIN InOrder(S) = 1..Cardinality(S)
  BY DEF InOrder
<1>3. ASSUME NEW k \in 1..Cardinality(S)
      PROVE  InOrder(S)[k] \in S /\ Cardinality(before(InOrder(S)[k])) = k - 1
  <2>1. \E m \in S : Cardinality({n \in S : n < m}) = k - 1
    BY <1>1, RankTaken
  <2>2. InOrder(S)[k] = CHOOSE m \in S : Cardinality({n \in S : n < m}) = k - 1
    BY DEF InOrder
  <2> QED BY <2>1, <2>2
<1>4. ASSUME NEW k \in 1..Cardinality(S), NEW l \in 1..(k - 1)
      PROVE  InOrder(S)[l] < InOrder(S)[k]
  <2> DEFINE a == InOrder(S)[l]  b == InOrder(S)[k]
  <2>1. l \in 1..Cardinality(S) /\ l < k
    BY <1>1
  <2>2. /\ a \in Nat /\ Cardinality(before(a)) = l - 1
        /\ b \in Nat /\ Cardinality(before(b)) = k - 1
    BY <1>1, <1>3, <2>1
  <2> HIDE DEF a, b
  <2>3. ASSUME b <= a PROVE FALSE
    <3>0. \A m \in S : m < b => m < a
      <4> SUFFICES ASSUME NEW m \in S, m < b PROVE m < a
        OBVIOUS
      <4> QED BY <1>1, <2>2, <2>3
    <3>1. before(b) \in SUBSET before(a) /\ IsFiniteSet(before(a))
      BY <1>1, <3>0, FS_Subset
    <3>2. Cardinality(before(b)) <= Cardinality(before(a))
      BY <3>1, FS_Subset
    <3> HIDE DEF before
    <3> QED BY <1>1, <2>1, <2>2, <3>2
  <2>4. a < b
    BY <2>2, <2>3
  <2> QED BY <2>4 DEF a, b
<1>5. ASSUME S # {} PROVE 1 \in 1..Cardinality(S) /\ \A m \in S : InOrder(S)[1] <= m
  <2>1. 1 \in 1..Cardinality(S)
    BY <1>1, <1>5, FS_EmptySet
  <2>2. IsFiniteSet(before(InOrder(S)[1])) /\ Cardinality(before(InOrder(S)[1])) = 0
    BY <1>1, <1>3, <2>1, FS_Subset
  <2>3. before(InOrder(S)[1]) = {}
    BY <2>2, FS_EmptySet
  <2> DEFINE a == InOrder(S)[1]
  <2>4. a \in Nat /\ a \in S
    BY <1>1, <1>3, <2>1
  <2>5. ASSUME NEW m \in S PROVE a <= m
    <3> HIDE DEF a
    <3>1. m \in Nat /\ ~(m < a)
      BY <1>1, <2>3 DEF a
    <3> QED BY <2>4, <3>1
  <2> QED BY <2>1, <2>5
<1> QED BY <1>1, <1>2, <1>3, <1>4, <1>5

\* The first month in which index and dataset overlap.
LEMMA LeastIs ==
  ASSUME NEW S \in SUBSET Months, S # {}
  PROVE  Least(S) \in S /\ \A n \in S : Least(S) <= n
<1>1. S \in SUBSET Nat
  BY HistoricalAssumption
<1>2. \E m \in S : \A n \in S : m <= n
  BY <1>1, LeastNatural
<1> QED BY <1>2 DEF Least

LEMMA LengthOf ==
  ASSUME NEW n \in Nat, NEW T, NEW p \in [1..n -> T]
  PROVE  Len(p) \in Nat
<1>1. p \in Seq(T)
  OBVIOUS
<1> QED BY <1>1

LEMMA PointsExplained ==
  ASSUME ReferencesHold(reader.refs, reader.found.lines), Overlap # {}, Rebasable
  PROVE  /\ PointsHold(Points, reader.found.lines)
         /\ WarningsHold(Points, {CorrelationOf(Points)} \ {"CALCULATED"})
<1> DEFINE S == Valued(Overlap)  first == Least(Overlap)  n == Cardinality(S)
           months == InOrder(S)
<1>1. S \in SUBSET Months /\ Overlap \in SUBSET Months
  BY DEF Valued, Overlap
<1>2. first \in Overlap /\ \A m \in Overlap : first <= m
  BY <1>1, LeastIs
<1>3. first \in S
  BY <1>2 DEF Rebasable, Bases, Valued
<1>4. /\ n \in Nat /\ DOMAIN months = 1..n
      /\ \A k \in 1..n : months[k] \in S
      /\ \A k \in 1..n : \A l \in 1..(k - 1) : months[l] < months[k]
      /\ 1 \in 1..n /\ \A m \in S : months[1] <= m
  BY <1>1, <1>3, InOrderIs
<1>5. months[1] = first
  <2>1. months[1] \in Overlap /\ months[1] <= first /\ first <= months[1]
    BY <1>2, <1>3, <1>4 DEF Valued
  <2>2. months[1] \in Nat /\ first \in Nat
    BY <1>1, <1>2, <2>1, HistoricalAssumption
  <2> HIDE DEF months, first
  <2> QED BY <2>1, <2>2
<1>6. /\ DOMAIN Points = 1..n
      /\ \A k \in 1..n : Points[k] = [month |-> months[k], internal |-> Loaded(months[k]),
                                      reference |-> reader.refs[months[k]], bases |-> Bases]
  BY <1>4 DEF Points
<1> HIDE DEF months
<1>7. Bases = <<Points[1].internal, Points[1].reference>>
  BY <1>4, <1>5, <1>6 DEF Bases
<1>8. PointsHold(Points, reader.found.lines)
  <2> SUFFICES ASSUME NEW k \in 1..n
               PROVE  /\ \E l \in DOMAIN reader.found.lines :
                           reader.found.lines[l] = [month |-> Points[k].month,
                                                    scope |-> "NATIONAL",
                                                    value |-> Points[k].reference]
                      /\ Points[k].bases = <<Points[1].internal, Points[1].reference>>
                      /\ \A l \in 1..(k - 1) : Points[l].month < Points[k].month
    BY <1>6 DEF PointsHold
  <2>1. months[k] \in Months /\ reader.refs[months[k]] # None
    BY <1>4 DEF Valued, Overlap
  <2>2. \E l \in DOMAIN reader.found.lines :
          reader.found.lines[l] = [month |-> months[k], scope |-> "NATIONAL",
                                   value |-> reader.refs[months[k]]]
    BY <2>1 DEF ReferencesHold
  <2>3. \A l \in 1..(k - 1) : l \in 1..n /\ months[l] < months[k]
    BY <1>4
  <2> QED BY <1>6, <1>7, <2>2, <2>3
<1>9. Points # <<>>
  <2>1. 1 \in DOMAIN Points /\ DOMAIN <<>> = {}
    BY <1>4, <1>6
  <2> QED BY <2>1
<1>10. Len(Points) \in Nat
  <2> DEFINE T == {Points[k] : k \in 1..n}
  <2>1. Points = [k \in 1..n |-> Points[k]]
    BY <1>4, <1>6 DEF Points
  <2>2. Points \in [1..n -> T]
    BY <2>1
  <2> QED BY ONLY <1>4, <2>2, LengthOf
<1>11. {CorrelationOf(Points)} \ {"CALCULATED"} = {} => Len(Points) >= 3
  <2>1. Len(Points) < 3 => CorrelationOf(Points) = "CORRELATION_INSUFFICIENT_OVERLAP"
    BY DEF CorrelationOf
  <2> QED BY <1>10, <2>1
<1> QED BY <1>8, <1>9, <1>11 DEF WarningsHold

\* What a select of the references finds in a complete dataset.
LEMMA ReferencesFound ==
  ASSUME ImportInv, NEW d \in dataset, NEW m \in Months, NEW v \in National(d.code, m)
  PROVE  \E l \in DOMAIN d.lines : /\ d.lines[l].month = m
                                  /\ d.lines[l].scope = "NATIONAL" /\ d.lines[l].value = v
<1>1. PICK r \in row : r.code = d.code /\ r.of.scope = "NATIONAL" /\ r.of.month = m
                       /\ v = r.of.value
  BY DEF National
<1>2. PICK e \in dataset : r \in RowsOf(e)
  BY DEF ImportInv, RowsComplete
<1>3. PICK l \in DOMAIN e.lines : r = [code |-> e.code, line |-> l, of |-> e.lines[l]]
  BY <1>2 DEF RowsOf
<1>4. e = d
  BY <1>1, <1>3 DEF ImportInv, CodesUnique
<1> QED BY <1>1, <1>3, <1>4

\* A line is its month, its scope and its value.
LEMMA LineIs ==
  ASSUME NEW p \in Payloads \cup {NoPayload}, NEW l \in DOMAIN p.lines
  PROVE  /\ p.lines[l].value \in Nat
         /\ p.lines[l] = [month |-> p.lines[l].month, scope |-> p.lines[l].scope,
                          value |-> p.lines[l].value]
<1>1. p \in Payloads
  BY DEF NoPayload
<1>2. p.lines[l] \in [month : Months, scope : Scopes, value : Nat]
  BY <1>1, HistoricalAssumption DEF IsPayload
<1> QED BY <1>2

LEMMA BacktestReads == ASSUME ImportInv, BacktestInv, ReadStep PROVE BacktestInv'
<1> USE DEF Named, Compared
<1>1. dataset' = dataset
  BY ReadersOnlyRead DEF ReadStep, ReadPeriods, ReadDatasets, FindDataset, ReadReferences,
     Compare, ReadRows, Read, Report
<1>2. CASE ReadPeriods
  BY <1>2 DEF ReadPeriods, Read, BacktestInv
<1>3. CASE ReadDatasets
  BY <1>3 DEF ReadDatasets, Read, BacktestInv
<1>4. CASE FindDataset
  <2>1. ASSUME NEW d \in dataset, d.code = reader.code,
               Read([reader EXCEPT !.at = "references", !.found = d])
        PROVE  BacktestInv'
    BY <2>1 DEF Read, BacktestInv
  <2>2. ASSUME Read([reader EXCEPT !.at = "notfound"])
        PROVE  BacktestInv'
    BY <2>2 DEF Read, BacktestInv
  <2>3. \/ \E d \in dataset : /\ d.code = reader.code
                              /\ Read([reader EXCEPT !.at = "references", !.found = d])
        \/ Read([reader EXCEPT !.at = "notfound"])
    BY <1>4 DEF FindDataset
  <2> QED BY <2>1, <2>2, <2>3
<1>5. CASE ReadReferences
  <2>1. PICK refs : /\ \A m \in Months : IF National(reader.code, m) = {} THEN refs[m] = None
                                          ELSE refs[m] \in National(reader.code, m)
                    /\ Read([reader EXCEPT !.at = "monthly", !.refs = refs])
    BY <1>5 DEF ReadReferences
  <2>2. reader.found \in dataset /\ reader.found.code = reader.code
        /\ reader.found \in Payloads \cup {NoPayload}
    BY <1>5 DEF ReadReferences, BacktestInv
  <2>3. ReferencesHold(refs, reader.found.lines)
    <3> SUFFICES ASSUME NEW m \in Months, refs[m] # None
                 PROVE  \E l \in DOMAIN reader.found.lines :
                          reader.found.lines[l] = [month |-> m, scope |-> "NATIONAL",
                                                   value |-> refs[m]]
      BY DEF ReferencesHold
    <3>1. refs[m] \in National(reader.found.code, m)
      BY <2>1, <2>2
    <3>2. PICK l \in DOMAIN reader.found.lines :
            /\ reader.found.lines[l].month = m
            /\ reader.found.lines[l].scope = "NATIONAL" /\ reader.found.lines[l].value = refs[m]
      <4>1. \A v \in National(reader.found.code, m) :
              \E l \in DOMAIN reader.found.lines :
                /\ reader.found.lines[l].month = m
                /\ reader.found.lines[l].scope = "NATIONAL" /\ reader.found.lines[l].value = v
        BY <2>2, ReferencesFound
      <4> QED BY <3>1, <4>1
    <3> QED BY <2>2, <3>2, LineIs
  <2>4. reader'.at = "monthly" /\ reader'.refs = refs
        /\ UNCHANGED <<reader.found, reader.code>>
    BY <2>1 DEF Read
  <2> QED BY <1>1, <2>2, <2>3, <2>4 DEF BacktestInv
<1>6. CASE Compare
  <2>1. reader.at = "monthly" /\ ReferencesHold(reader.refs, reader.found.lines)
        /\ reader.found \in dataset /\ reader.found.code = reader.code
        /\ reader.found \in Payloads \cup {NoPayload}
    BY <1>6 DEF Compare, BacktestInv
  <2>2. ASSUME NEW points, NEW warnings, Report(points, warnings),
               PointsHold(points, reader.found.lines),
               WarningsHold(points, (warnings \cup {CorrelationOf(points)}) \ {"CALCULATED"})
        PROVE  BacktestInv'
    <3>1. /\ reader'.at = "rows" /\ reader'.points = points
          /\ reader'.warnings = (warnings \cup {CorrelationOf(points)}) \ {"CALCULATED"}
          /\ UNCHANGED <<reader.found, reader.code>>
      BY <2>2 DEF Report, Read
    <3> QED BY <1>1, <2>1, <2>2, <3>1 DEF BacktestInv
  <2>3. ASSUME NEW w \in {"NO_OVERLAPPING_MONTHS", "INVALID_REBASE_VALUE"}, Report(<<>>, {w})
        PROVE  BacktestInv'
    <3>1. PointsHold(<<>>, reader.found.lines)
      BY DEF PointsHold
    <3>2. w \in ({w} \cup {CorrelationOf(<<>>)}) \ {"CALCULATED"}
      OBVIOUS
    <3>3. WarningsHold(<<>>, ({w} \cup {CorrelationOf(<<>>)}) \ {"CALCULATED"})
      BY <3>2 DEF WarningsHold
    <3> QED BY <2>2, <2>3, <3>1, <3>3
  <2>4. ASSUME Overlap # {}, Rebasable, Report(Points, {}) PROVE BacktestInv'
    <3>1. ({} \cup {CorrelationOf(Points)}) \ {"CALCULATED"} = {CorrelationOf(Points)} \ {"CALCULATED"}
      OBVIOUS
    <3> QED BY <2>1, <2>2, <2>4, <3>1, PointsExplained
  <2>5. ASSUME ~Divides, Read([reader EXCEPT !.at = "failed"]) PROVE BacktestInv'
    <3>1. PICK m \in Valued(Overlap) : reader.refs[m] = 0
      BY <2>5 DEF Divides
    <3>2. m \in Months /\ reader.refs[m] # None
      BY <3>1 DEF Valued, Overlap
    <3>3. PICK l \in DOMAIN reader.found.lines :
            reader.found.lines[l] = [month |-> m, scope |-> "NATIONAL", value |-> reader.refs[m]]
      BY <2>1, <3>2 DEF ReferencesHold
    <3>4. HasZero(reader.found.lines)
      BY <3>1, <3>3 DEF HasZero
    <3>5. reader'.at = "failed" /\ UNCHANGED <<reader.found, reader.code>>
      BY <2>5 DEF Read
    <3> QED BY <1>1, <2>1, <3>4, <3>5 DEF BacktestInv
  <2> QED BY <1>6, <2>3, <2>4, <2>5 DEF Compare
<1>7. CASE ReadRows
  BY <1>7 DEF ReadRows, Read, BacktestInv
<1> QED BY <1>2, <1>3, <1>4, <1>5, <1>6, <1>7 DEF ReadStep

\* Imports only add datasets, and those are payloads.
LEMMA BacktestOthers ==
  ASSUME BacktestInv, UNCHANGED reader, dataset \subseteq dataset',
         dataset' \subseteq Payloads \cup {NoPayload}
  PROVE  BacktestInv'
BY DEF BacktestInv

LEMMA BacktestStep == ASSUME ImportInv, BacktestInv, [Next]_vars PROVE BacktestInv'
<1>1. ASSUME NEW kind \in {"export", "backtest"}, NEW c, Request(kind, c) PROVE BacktestInv'
  BY <1>1 DEF Request, BacktestInv, Named, Compared
<1>2. ASSUME NEW i \in Importers,
             (\E p \in Payloads : Ask(i, p) \/ AskMalformed(i, p)) \/ FindCode(i) \/ FindHash(i)
             \/ Insert(i) \/ RollBack(i) \/ Kill(i)
      PROVE  BacktestInv'
  <2>1. UNCHANGED <<reader, dataset>>
    BY <1>2 DEF Ask, AskMalformed, FindCode, FindHash, Insert, RollBack, Kill
  <2> QED BY <2>1, BacktestOthers DEF BacktestInv
<1>3. ASSUME NEW i \in Importers, Commit(i) PROVE BacktestInv'
  <2>1. UNCHANGED reader /\ dataset' = dataset \cup {importer[i].payload}
    BY <1>3 DEF Commit
  <2>2. importer[i].payload \in Payloads \cup {NoPayload}
    BY DEF ImportInv, ImporterType
  <2> QED BY <2>1, <2>2, BacktestOthers DEF BacktestInv
<1>4. ASSUME NEW m, NEW v, Refresh(m, v) PROVE BacktestInv'
  BY <1>4, BacktestOthers DEF Refresh, BacktestInv
<1>5. CASE UNCHANGED vars
  BY <1>5, BacktestOthers DEF vars, BacktestInv
<1> QED BY <1>1, <1>2, <1>3, <1>4, <1>5, BacktestReads DEF Next, ReadStep

\* Whatever is imported and computed again meanwhile, a backtest compares lines of its
\* dataset, in order, on the bases of its first month, warns of what it lacks, and fails
\* only on a zero (build_backtest).
THEOREM BacktestsAreExplained == Spec => []BacktestExplained
<1>1. Init => BacktestInv
  BY DEF Init, NoReader, BacktestInv, Named, Compared
<1>2. ImportInv /\ BacktestInv /\ [Next]_vars => BacktestInv'
  BY BacktestStep
<1>3. Spec => []BacktestInv
  BY <1>1, <1>2, ImportInvariant, PTL DEF Spec
<1>4. BacktestInv => BacktestExplained
  BY DEF BacktestInv, BacktestExplained, PointsHold, WarningsHold, HasZero, Compared
<1> QED BY <1>3, <1>4, PTL
=============================================================================
