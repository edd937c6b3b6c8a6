------------------------- MODULE FarePipelineProofs -------------------------
(***************************************************************************)
(* Proofs about FarePipeline, for every set of sources, searches, answers, *)
(* weights and base prices: the verdict on each row is explained by its    *)
(* flags, the fares account for the rows, the index is a mean and the      *)
(* reports agree.                                                          *)
(*                                                                         *)
(* Sound rows and sound fares are described for a table O of rows, so that *)
(* the table an outlier pass leaves halfway through Canonicalize can be    *)
(* spoken of; the inductive invariant IInv says them of obs.               *)
(***************************************************************************)
EXTENDS FarePipeline, DataLemmas

Columns == {"total", "flight", "class", "flags", "score", "status", "included"}

\* The flags of a row that were raised after it was normalized.
Late(o) == {f \in DOMAIN Penalty : f \in o.flags}

SoundRow(o) ==
  /\ DOMAIN o = Columns
  /\ o.total \in Int \cup {None} /\ o.included \in BOOLEAN
  /\ o.included => o.total \in Nat \ {0} /\ o.flight # None /\ o.class # None
  /\ o.flags \subseteq SoftFlag \cup HardFlag
  /\ o.score \in 0..100 /\ o.status \in Status
  /\ o.included <=> o.flags \subseteq SoftFlag
  /\ o.status = IF o.flags = {} THEN "ELIGIBLE"
                ELSE IF o.included THEN "ELIGIBLE_FLAGGED" ELSE "EXCLUDED"
  /\ o.included \/ Late(o) # {} => o.score = 100 - SumFunctionOnSet(Penalty, Late(o))

Sound(O) ==
  /\ IsFiniteSet(DOMAIN O)
  /\ \A x \in DOMAIN O : /\ x[1] \in Jobs /\ x = <<x[1], x[2]>> /\ x[2].hash \in Nat
                         /\ SoundRow(O[x])
  /\ \A x, y \in DOMAIN O : x[1] = y[1] /\ x[2].hash = y[2].hash => x = y

-----------------------------------------------------------------------------
(* One row.                                                                 *)

LEMMA PenaltyIs ==
  /\ DOMAIN Penalty = {"POSSIBLE_OUTLIER", "SOURCE_CONFLICT", "DUPLICATE"}
  /\ Penalty["POSSIBLE_OUTLIER"] = 5 /\ Penalty["SOURCE_CONFLICT"] = 10
  /\ Penalty["DUPLICATE"] = 20
BY DEF Penalty, SoftFlag

\* What an observation has lost is at most what all the late flags cost.
LEMMA PenaltySum ==
  ASSUME NEW T \in SUBSET DOMAIN Penalty
  PROVE  /\ IsFiniteSet(T)
         /\ SumFunctionOnSet(Penalty, T) \in 0..35
         /\ \A f \in DOMAIN Penalty \ T :
              SumFunctionOnSet(Penalty, T \cup {f}) = Penalty[f] + SumFunctionOnSet(Penalty, T)
<1> DEFINE costs(f, U) == IF f \in U THEN Penalty[f] ELSE 0
           a == "POSSIBLE_OUTLIER"  b == "SOURCE_CONFLICT"  c == "DUPLICATE"
<1>1. IsFiniteSet(DOMAIN Penalty) /\ \A f \in DOMAIN Penalty : Penalty[f] \in Nat
  <2>1. \A x, y, z : IsFiniteSet({x} \cup ({y} \cup {z}))
    BY FS_Singleton, FS_Union
  <2>2. DOMAIN Penalty = {a} \cup ({b} \cup {c})
    BY PenaltyIs
  <2> QED BY <2>1, <2>2, PenaltyIs
<1>2. ASSUME NEW U \in SUBSET DOMAIN Penalty, NEW f \in DOMAIN Penalty
      PROVE  SumFunctionOnSet(Penalty, U) = costs(f, U) + SumFunctionOnSet(Penalty, U \ {f})
  <2>1. IsFiniteSet(U) /\ \A x \in U : Penalty[x] \in Int
    BY <1>1, FS_Subset
  <2>2. CASE f \in U
    BY <2>1, <2>2, SumRemove
  <2>3. CASE f \notin U
    <3>1. U \ {f} = U /\ costs(f, U) = 0
      BY <2>3
    <3>2. SumFunctionOnSet(Penalty, U) \in Int
      BY <2>1, SumInt
    <3>3. SumFunctionOnSet(Penalty, U \ {f}) = SumFunctionOnSet(Penalty, U)
      BY <3>1
    <3> HIDE DEF costs
    <3> QED BY <3>1, <3>2, <3>3
  <2> QED BY <2>2, <2>3
<1>3. SumFunctionOnSet(Penalty, T) = costs(a, T) + (costs(b, T) + (costs(c, T) + 0))
  <2> DEFINE T1 == T \ {a}  T2 == T1 \ {b}  T3 == T2 \ {c}
  <2>1. SumFunctionOnSet(Penalty, T) = costs(a, T) + SumFunctionOnSet(Penalty, T1)
    BY <1>2, PenaltyIs
  <2>2. SumFunctionOnSet(Penalty, T1) = costs(b, T) + SumFunctionOnSet(Penalty, T2)
    <3>1. T1 \in SUBSET DOMAIN Penalty /\ b \in DOMAIN Penalty /\ costs(b, T1) = costs(b, T)
      BY PenaltyIs
    <3> HIDE DEF T1, costs
    <3> QED BY <1>2, <3>1
  <2>3. SumFunctionOnSet(Penalty, T2) = costs(c, T) + SumFunctionOnSet(Penalty, T3)
    <3>1. T2 \in SUBSET DOMAIN Penalty /\ c \in DOMAIN Penalty /\ costs(c, T2) = costs(c, T)
      BY PenaltyIs
    <3> HIDE DEF T2, costs
    <3> QED BY <1>2, <3>1
  <2>4. T3 = {}
    BY PenaltyIs
  <2>5. SumFunctionOnSet(Penalty, T3) = 0
    BY <2>4, SumEmpty
  <2> HIDE DEF T1, T2, T3, costs
  <2> QED BY <2>1, <2>2, <2>3, <2>5
<1>4. SumFunctionOnSet(Penalty, T) \in 0..35
  BY <1>3, PenaltyIs
<1>5. ASSUME NEW f \in DOMAIN Penalty \ T
      PROVE  SumFunctionOnSet(Penalty, T \cup {f}) = Penalty[f] + SumFunctionOnSet(Penalty, T)
  <2>1. IsFiniteSet(T) /\ \A x \in T \cup {f} : Penalty[x] \in Int
    BY <1>1, FS_Subset
  <2> QED BY <1>5, <2>1, SumAdd
<1>6. IsFiniteSet(T)
  BY <1>1, FS_Subset
<1> QED BY <1>4, <1>5, <1>6

LEMMA SoftenFields ==
  ASSUME NEW o, DOMAIN o = Columns, NEW flag, NEW points,
         NEW p, p = Soften(o, flag, points)
  PROVE  /\ DOMAIN p = Columns
         /\ p.total = o.total /\ p.flight = o.flight /\ p.class = o.class
         /\ p.included = o.included
         /\ p.flags = o.flags \cup {flag} /\ p.score = Lowered(o.score, points)
         /\ p.status = IF o.status = "ELIGIBLE" THEN "ELIGIBLE_FLAGGED" ELSE o.status
BY DEF Soften, Columns

\* A row that counts has a score that never reaches the 0 that counts as 100.
LEMMA CountedScore ==
  ASSUME NEW o, SoundRow(o), o.included = TRUE
  PROVE  /\ Late(o) = o.flags /\ Late(o) \in SUBSET DOMAIN Penalty
         /\ "DUPLICATE" \notin o.flags /\ "UNAPPROVED_SOURCE" \notin o.flags
         /\ o.score \in 65..100 /\ o.score = 100 - SumFunctionOnSet(Penalty, Late(o))
         /\ \A f \in DOMAIN Penalty \ o.flags :
              /\ Lowered(o.score, Penalty[f]) =
                   100 - SumFunctionOnSet(Penalty, o.flags \cup {f})
              /\ Lowered(o.score, Penalty[f]) \in 0..o.score
<1>1. o.flags \subseteq SoftFlag
  BY DEF SoundRow
<1>2. Late(o) = o.flags /\ o.flags \in SUBSET DOMAIN Penalty
  BY <1>1, PenaltyIs DEF Late, SoftFlag
<1>3. o.score = 100 - SumFunctionOnSet(Penalty, o.flags)
  BY <1>2 DEF SoundRow
<1>4. SumFunctionOnSet(Penalty, o.flags) \in 0..35
  BY <1>2, PenaltySum
<1>5. ASSUME NEW f \in DOMAIN Penalty \ o.flags
      PROVE  /\ Lowered(o.score, Penalty[f]) =
                  100 - SumFunctionOnSet(Penalty, o.flags \cup {f})
             /\ Lowered(o.score, Penalty[f]) \in 0..o.score
  <2>1. SumFunctionOnSet(Penalty, o.flags \cup {f}) = Penalty[f] + SumFunctionOnSet(Penalty, o.flags)
    BY <1>2, PenaltySum
  <2>2. SumFunctionOnSet(Penalty, o.flags \cup {f}) \in 0..35
    <3>1. o.flags \cup {f} \in SUBSET DOMAIN Penalty
      BY <1>2
    <3> QED BY <3>1, PenaltySum
  <2>3. Penalty[f] \in Nat
    BY PenaltyIs
  <2> QED BY <1>3, <1>4, <2>1, <2>2, <2>3 DEF Lowered, NonNegative
<1> QED BY <1>1, <1>2, <1>3, <1>4, <1>5 DEF SoftFlag

\* A soft flag a counted row does not have yet leaves it sound.
LEMMA SoftenSound ==
  ASSUME NEW o, SoundRow(o), o.included = TRUE, NEW f \in SoftFlag, f \notin o.flags
  PROVE  LET p == Soften(o, f, Penalty[f])
         IN  SoundRow(p) /\ p.score <= o.score
<1> DEFINE p == Soften(o, f, Penalty[f])
<1>0. DOMAIN o = Columns
  BY DEF SoundRow
<1>1. /\ DOMAIN p = Columns
      /\ p.total = o.total /\ p.flight = o.flight /\ p.class = o.class
      /\ p.included = o.included
      /\ p.flags = o.flags \cup {f} /\ p.score = Lowered(o.score, Penalty[f])
      /\ p.status = IF o.status = "ELIGIBLE" THEN "ELIGIBLE_FLAGGED" ELSE o.status
  BY <1>0, SoftenFields
<1>2. f \in DOMAIN Penalty \ o.flags
  BY PenaltyIs DEF SoftFlag
<1> HIDE DEF p
<1>3. /\ p.score = 100 - SumFunctionOnSet(Penalty, o.flags \cup {f})
      /\ p.score \in 0..o.score /\ o.score \in 65..100
  <2>1. /\ Lowered(o.score, Penalty[f]) = 100 - SumFunctionOnSet(Penalty, o.flags \cup {f})
        /\ Lowered(o.score, Penalty[f]) \in 0..o.score
    BY <1>2, CountedScore, ZenonT(30)
  <2>2. o.score \in 65..100
    BY CountedScore, ZenonT(30)
  <2> QED BY <1>1, <2>1, <2>2
<1>4. Late(p) = p.flags
  BY <1>1, <1>2, CountedScore DEF Late
<1>5. SoundRow(p)
  BY <1>1, <1>3, <1>4 DEF SoundRow, Status
<1> QED BY <1>3, <1>5 DEF p

\* So does an exclusion, as a duplicate or for the source.
LEMMA ExcludeSound ==
  ASSUME NEW o, SoundRow(o), o.included = TRUE
  PROVE  LET p == Exclude(o, "UNAPPROVED_SOURCE", 0)
             r == Exclude(o, "DUPLICATE", 20)
         IN  /\ SoundRow(p) /\ p.score <= o.score
             /\ SoundRow(r) /\ r.score <= o.score
<1> DEFINE p == Exclude(o, "UNAPPROVED_SOURCE", 0)
           r == Exclude(o, "DUPLICATE", 20)
<1>0. DOMAIN o = Columns
  BY DEF SoundRow
<1>1. /\ DOMAIN p = Columns
      /\ p.total = o.total /\ p.flight = o.flight /\ p.class = o.class
      /\ p.included = FALSE /\ p.status = "EXCLUDED"
      /\ p.flags = o.flags \cup {"UNAPPROVED_SOURCE"} /\ p.score = o.score
  BY <1>0 DEF Exclude, Columns
<1>2. /\ DOMAIN r = Columns
      /\ r.total = o.total /\ r.flight = o.flight /\ r.class = o.class
      /\ r.included = FALSE /\ r.status = "EXCLUDED"
      /\ r.flags = o.flags \cup {"DUPLICATE"} /\ r.score = Lowered(o.score, 20)
  BY <1>0 DEF Exclude, Columns
<1>3. Late(p) = Late(o) /\ Late(o) = o.flags
  BY <1>1, CountedScore, PenaltyIs DEF Late
<1>4. Late(r) = r.flags
  BY <1>2, CountedScore, PenaltyIs DEF Late
<1>5. /\ r.score = 100 - SumFunctionOnSet(Penalty, r.flags) /\ r.score \in 0..o.score
      /\ o.score \in 65..100 /\ o.score = 100 - SumFunctionOnSet(Penalty, Late(o))
  <2>1. "DUPLICATE" \in DOMAIN Penalty \ o.flags
    BY CountedScore, PenaltyIs
  <2>2. /\ Lowered(o.score, Penalty["DUPLICATE"]) =
             100 - SumFunctionOnSet(Penalty, o.flags \cup {"DUPLICATE"})
        /\ Lowered(o.score, Penalty["DUPLICATE"]) \in 0..o.score
    BY <2>1, CountedScore
  <2>3. o.score \in 65..100 /\ o.score = 100 - SumFunctionOnSet(Penalty, Late(o))
    BY CountedScore
  <2> HIDE DEF r
  <2> QED BY <1>2, <2>2, <2>3, PenaltyIs
<1> HIDE DEF p, r
<1>6. SoundRow(p)
  <2>1. p.flags \subseteq SoftFlag \cup HardFlag /\ ~(p.flags \subseteq SoftFlag) /\ p.flags # {}
    BY <1>1 DEF SoundRow, SoftFlag, HardFlag
  <2>2. p.total \in Int \cup {None} /\ p.score \in 0..100
    BY <1>1, <1>5 DEF SoundRow
  <2>3. p.score = 100 - SumFunctionOnSet(Penalty, Late(p))
    BY <1>1, <1>3, <1>5
  <2> QED BY <1>1, <2>1, <2>2, <2>3 DEF SoundRow, Status
<1>7. SoundRow(r)
  <2>1. r.flags \subseteq SoftFlag \cup HardFlag /\ ~(r.flags \subseteq SoftFlag) /\ r.flags # {}
    BY <1>2 DEF SoundRow, SoftFlag, HardFlag
  <2>2. r.total \in Int \cup {None} /\ r.score \in 0..100
    BY <1>2, <1>5 DEF SoundRow
  <2>3. r.score = 100 - SumFunctionOnSet(Penalty, Late(r))
    BY <1>4, <1>5
  <2> QED BY <1>2, <2>1, <2>2, <2>3 DEF SoundRow, Status
<1>8. p.score <= o.score /\ r.score <= o.score
  BY <1>1, <1>5
<1> QED BY <1>6, <1>7, <1>8 DEF p, r

LEMMA HardFlagFinite == IsFiniteSet(HardFlag)
<1>1. \A x, y, z : IsFiniteSet({x, y, z})
  <2> SUFFICES ASSUME NEW x, NEW y, NEW z PROVE IsFiniteSet({x, y, z})
    OBVIOUS
  <2>1. IsFiniteSet({x} \cup ({y} \cup {z}))
    BY FS_Singleton, FS_Union
  <2>2. {x} \cup ({y} \cup {z}) = {x, y, z}
    OBVIOUS
  <2> QED BY <2>1, <2>2
<1> DEFINE A == {"INVALID_TRAVEL_DATE", "UNKNOWN_AIRPORT", "ROUTE_MISMATCH"}
           B == {"MISSING_FARE", "UNSUPPORTED_CURRENCY", "UNSUPPORTED_CABIN"}
           C == {"CONNECTING_FLIGHT", "PARSER_ERROR", "UNAVAILABLE_FARE"}
           D == {"UNAPPROVED_SOURCE", "NEGATIVE_FARE", "FARE_COMPONENT_MISMATCH"}
           E == {"INCOMPLETE_FLIGHT_IDENTITY", "DUPLICATE", "DUPLICATE"}
<1>2. IsFiniteSet(A) /\ IsFiniteSet(B) /\ IsFiniteSet(C) /\ IsFiniteSet(D) /\ IsFiniteSet(E)
  BY <1>1
<1>3. HardFlag = A \cup (B \cup (C \cup (D \cup E)))
  BY DEF HardFlag
<1> HIDE DEF A, B, C, D, E
<1> QED BY <1>2, <1>3, FS_Union

\* What normalization raises on a quote, and what an eligible quote has.
LEMMA HardFlagsAre ==
  ASSUME NEW q, IsQuote(q), NEW ok
  PROVE  /\ HardFlags(q, ok) \in SUBSET (HardFlag \ {"DUPLICATE"})
         /\ HardFlags(q, ok) = {} => q.total \in Nat \ {0} /\ q.flight # None
<1>1. HardFlags(q, ok) \in SUBSET (HardFlag \ {"DUPLICATE"})
  BY DEF HardFlags, HardFlag
<1>2. ASSUME HardFlags(q, ok) = {} PROVE q.total # None /\ ~(q.total <= 0) /\ q.flight # None
  <2>1. "MISSING_FARE" \notin HardFlags(q, ok) /\ "INCOMPLETE_FLIGHT_IDENTITY" \notin HardFlags(q, ok)
    BY <1>2
  <2> QED BY <2>1 DEF HardFlags
<1>3. q.total \in Int \cup {None}
  BY DEF IsQuote
<1> QED BY <1>1, <1>2, <1>3

LEMMA NormalizedSound ==
  ASSUME NEW q, IsQuote(q), NEW ok
  PROVE  /\ SoundRow(Normalized(q, ok))
         /\ "SOURCE_CONFLICT" \notin Normalized(q, ok).flags
<1> DEFINE flags == HardFlags(q, ok)
           score == NonNegative(100 - 20 * Cardinality(flags))
           o == Observation(q, flags, score)
<1>1. /\ flags \in SUBSET (HardFlag \ {"DUPLICATE"})
      /\ flags = {} => q.total \in Nat \ {0} /\ q.flight # None
  BY HardFlagsAre
<1>2. Cardinality(flags) \in Nat /\ (flags = {} => Cardinality(flags) = 0)
  BY <1>1, HardFlagFinite, FS_Subset, FS_CardinalityType, FS_EmptySet
<1> HIDE DEF flags
<1>3. score \in 0..100 /\ (flags = {} => score = 100)
  BY <1>2 DEF NonNegative
<1> HIDE DEF score
<1>4. /\ DOMAIN o = Columns
      /\ o.total = (IF q.total # None /\ q.total < 0 THEN None ELSE q.total)
      /\ o.flight = q.flight /\ o.class = q.class /\ o.flags = flags /\ o.score = score
      /\ o.status = IF flags = {} THEN "ELIGIBLE" ELSE "EXCLUDED"
      /\ o.included \in BOOLEAN /\ (o.included <=> flags = {})
  BY DEF Observation, Columns
<1>5. q.total \in Int \cup {None} /\ q.class # None
  BY DEF IsQuote
<1>6. flags # {} => ~(flags \subseteq SoftFlag)
  BY <1>1 DEF HardFlag, SoftFlag
<1>7. Late(o) = {}
  BY <1>1, <1>4, PenaltyIs DEF Late, HardFlag
<1>8. "SOURCE_CONFLICT" \notin flags
  BY <1>1 DEF HardFlag
<1> HIDE DEF o
<1>9. SoundRow(o)
  <2>1. o.total \in Int \cup {None} /\ o.included \in BOOLEAN
    BY <1>4, <1>5
  <2>2. o.included => o.total \in Nat \ {0} /\ o.flight # None /\ o.class # None
    <3>1. flags = {} => q.total \in Nat \ {0} /\ ~(q.total < 0)
      BY <1>1
    <3> QED BY <1>1, <1>4, <1>5, <3>1
  <2>3. o.flags \subseteq SoftFlag \cup HardFlag /\ o.score \in 0..100 /\ o.status \in Status
    BY <1>1, <1>3, <1>4 DEF Status
  <2>4. /\ o.included <=> o.flags \subseteq SoftFlag
        /\ o.status = IF o.flags = {} THEN "ELIGIBLE"
                      ELSE IF o.included THEN "ELIGIBLE_FLAGGED" ELSE "EXCLUDED"
    BY <1>4, <1>6
  <2>5. o.included => o.score = 100 - SumFunctionOnSet(Penalty, Late(o))
    <3>1. SumFunctionOnSet(Penalty, Late(o)) = 0
      BY <1>7, SumEmpty
    <3> QED BY <1>3, <1>4, <3>1
  <2> QED BY <1>4, <1>7, <2>1, <2>2, <2>3, <2>4, <2>5 DEF SoundRow
<1> QED BY <1>4, <1>8, <1>9 DEF Normalized, o, flags, score

LEMMA RejectedSound ==
  ASSUME NEW q, IsQuote(q)
  PROVE  SoundRow(Rejected(q)) /\ "SOURCE_CONFLICT" \notin Rejected(q).flags
<1> DEFINE o == Rejected(q)
<1>1. /\ DOMAIN o = Columns /\ o.total = q.total /\ o.score = 0
      /\ o.flags = {"PARSER_ERROR"} /\ o.status = "EXCLUDED" /\ o.included = FALSE
  BY DEF Rejected, Observation, Columns
<1>2. Late(o) = {}
  BY <1>1, PenaltyIs DEF Late
<1> HIDE DEF o
<1>3. SoundRow(o)
  <2>1. o.total \in Int \cup {None}
    BY <1>1 DEF IsQuote
  <2>2. o.flags \subseteq SoftFlag \cup HardFlag /\ ~(o.flags \subseteq SoftFlag) /\ o.flags # {}
    BY <1>1 DEF SoftFlag, HardFlag
  <2>3. /\ DOMAIN o = Columns /\ ~o.included /\ o.included \in BOOLEAN
        /\ o.score \in 0..100 /\ o.status \in Status /\ o.status = "EXCLUDED"
    <3>1. o.score \in 0..100
      BY <1>1
    <3>2. ~o.included /\ o.included \in BOOLEAN
      BY <1>1, Zenon
    <3>3. o.status \in Status
      BY <1>1 DEF Status
    <3> QED BY <1>1, <3>1, <3>2, <3>3
  <2>4. ~(o.included \/ Late(o) # {})
    BY <1>2, <2>3
  <2> QED BY <2>1, <2>2, <2>3, <2>4 DEF SoundRow
<1> QED BY <1>1, <1>3 DEF o

-----------------------------------------------------------------------------
(* The table of rows: a job's answer, an outlier pass, the fares' verdict.  *)

Stored(O, j, a, ok) ==
  [x \in DOMAIN O \cup ({j} \X Read(a)) |->
     IF x \in DOMAIN O THEN O[x]
     ELSE IF x[2].readable THEN Normalized(x[2], ok) ELSE Rejected(x[2])]

LEMMA StoreSound ==
  ASSUME NEW O, Sound(O), NEW j \in Jobs, \A x \in DOMAIN O : x[1] # j,
         NEW a, IsAnswer(a), NEW ok, NEW P, P = Stored(O, j, a, ok)
  PROVE  /\ Sound(P)
         /\ \A x \in DOMAIN P : x \in DOMAIN O \/ x[1] = j
         /\ \A x \in DOMAIN O : x \in DOMAIN P /\ P[x] = O[x]
         /\ \A x \in DOMAIN P \ DOMAIN O : "SOURCE_CONFLICT" \notin P[x].flags
<1> USE DEF Stored
<1> DEFINE R == Read(a)
<1>1. \A q \in R : \E i \in DOMAIN a : q = a[i]
  BY DEF Read
<1>2. IsFiniteSet({j} \X R)
  <2> DEFINE g == [i \in DOMAIN a |-> a[i]]
             A == {a[i] : i \in DOMAIN a}
  <2>1. g \in Surjection(DOMAIN a, A)
    BY DEF Surjection
  <2>2. IsFiniteSet(A)
    BY <2>1, FS_Surjection DEF IsAnswer
  <2>3. R \in SUBSET A
    BY <1>1
  <2> HIDE DEF R, A
  <2> QED BY <2>2, <2>3, FS_Subset, FS_Singleton, FS_Product
<1>3. \A q \in R : IsQuote(q)
  BY <1>1 DEF IsAnswer
<1>4. \A q, r \in R : q.hash = r.hash => q = r
  BY <1>1 DEF IsAnswer
<1> HIDE DEF R
<1>5. DOMAIN P = DOMAIN O \cup ({j} \X R)
  BY DEF R
<1>6. IsFiniteSet(DOMAIN P)
  BY <1>2, <1>5, FS_Union DEF Sound
<1>7. \A x \in DOMAIN O : x \in DOMAIN P /\ P[x] = O[x]
  OBVIOUS
<1>8. ASSUME NEW x \in DOMAIN P, x \notin DOMAIN O
      PROVE  /\ x = <<j, x[2]>> /\ x[1] = j /\ x[2] \in R /\ x[2].hash \in Nat
             /\ SoundRow(P[x]) /\ "SOURCE_CONFLICT" \notin P[x].flags
  <2>1. x = <<j, x[2]>> /\ x[1] = j /\ x[2] \in R
    BY <1>5, <1>8
  <2>2. IsQuote(x[2]) /\ x[2].hash \in Nat
    BY <1>3, <2>1 DEF IsQuote
  <2>3. P[x] = IF x[2].readable THEN Normalized(x[2], ok) ELSE Rejected(x[2])
    BY <1>8
  <2> QED BY <2>1, <2>2, <2>3, NormalizedSound, RejectedSound
<1>9. ASSUME NEW x \in DOMAIN P, NEW y \in DOMAIN P, x[1] = y[1], x[2].hash = y[2].hash
      PROVE  x = y
  <2>1. CASE x \in DOMAIN O /\ y \in DOMAIN O
    BY <1>9, <2>1 DEF Sound
  <2>2. CASE x \notin DOMAIN O /\ y \notin DOMAIN O
    BY <1>4, <1>8, <1>9, <2>2
  <2>3. CASE x \in DOMAIN O /\ y \notin DOMAIN O
    BY <1>8, <1>9, <2>3
  <2>4. CASE x \notin DOMAIN O /\ y \in DOMAIN O
    BY <1>8, <1>9, <2>4
  <2> QED BY <2>1, <2>2, <2>3, <2>4
<1>10. ASSUME NEW x \in DOMAIN P
       PROVE  x[1] \in Jobs /\ x = <<x[1], x[2]>> /\ x[2].hash \in Nat /\ SoundRow(P[x])
  <2>1. CASE x \in DOMAIN O
    BY <1>7, <2>1 DEF Sound
  <2>2. CASE x \notin DOMAIN O
    BY <1>8, <2>2
  <2> QED BY <2>1, <2>2
<1>11. Sound(P)
  BY <1>6, <1>9, <1>10 DEF Sound
<1> QED BY <1>7, <1>8, <1>11

\* Two tables with the same quotes that count and the same conflicts.
Alike(O, P) ==
  /\ DOMAIN P = DOMAIN O
  /\ \A x \in DOMAIN O :
       /\ P[x].total = O[x].total /\ P[x].flight = O[x].flight /\ P[x].class = O[x].class
       /\ P[x].included <=> O[x].included
       /\ "SOURCE_CONFLICT" \in P[x].flags <=> "SOURCE_CONFLICT" \in O[x].flags

LEMMA OutliersOfAreFew ==
  ASSUME NEW O, Sound(O), NEW s, Group(O, s) # {}
  PROVE  2 * Cardinality(OutliersOf(O, Group(O, s))) < Cardinality(Group(O, s))
<1> DEFINE G == Group(O, s)
           deviation == Deviation(O, G)
           mad == TwiceMedian(deviation)
           H == {x \in G : deviation[x] > mad}
<1>1. IsFiniteSet(G) /\ \A x \in G : O[x].total \in Nat
  <2>1. G \in SUBSET DOMAIN O /\ \A x \in G : O[x].included /\ SoundRow(O[x])
    BY DEF Group, Sound
  <2> QED BY <2>1, FS_Subset DEF Sound, SoundRow
<1> HIDE DEF G
<1>2. TwiceMedian(Totals(O, G)) \in Nat
  <2>1. Totals(O, G) \in [G -> Nat]
    BY <1>1 DEF Totals
  <2> QED BY <1>1, <2>1, MedianWitness DEF G
<1>3. deviation \in [G -> Nat]
  BY <1>1, <1>2 DEF Deviation
<1> HIDE DEF deviation
<1>4. mad \in Nat
  BY <1>1, <1>3, MedianWitness DEF G
<1>5. 2 * Cardinality(H) < Cardinality(G)
  BY <1>1, <1>3, FewAboveMedian DEF G
<1>6. OutliersOf(O, G) \in SUBSET H
  <2>1. OutliersOf(O, G) = {x \in G : IF mad = 0 THEN deviation[x] > 0
                                      ELSE 6745 * 2 * deviation[x] > 35000 * mad}
    BY DEF OutliersOf, deviation
  <2>2. \A x \in G : deviation[x] \in Nat
    BY <1>3
  <2> HIDE DEF mad
  <2> QED BY <1>4, <2>1, <2>2
<1>7. IsFiniteSet(H)
  BY <1>1, FS_Subset
<1> HIDE DEF H
<1>8. Cardinality(OutliersOf(O, G)) <= Cardinality(H) /\ Cardinality(OutliersOf(O, G)) \in Nat
      /\ Cardinality(H) \in Nat /\ Cardinality(G) \in Nat
  BY <1>1, <1>6, <1>7, FS_Subset, FS_CardinalityType
<1> QED BY <1>5, <1>8 DEF G

LEMMA OutliersIn ==
  ASSUME NEW O, Sound(O)
  PROVE  /\ \A x \in Outliers(O) : x \in DOMAIN O /\ O[x].included
         /\ \A s, x : x \in Outliers(O) /\ Cell(x) = s =>
              /\ x \in OutliersOf(O, Group(O, s))
              /\ Cardinality(Group(O, s)) >= MinimumGroup /\ Group(O, s) # {}
<1> SUFFICES ASSUME NEW x \in Outliers(O)
             PROVE  /\ x \in DOMAIN O /\ O[x].included
                    /\ x \in OutliersOf(O, Group(O, Cell(x)))
                    /\ Cardinality(Group(O, Cell(x))) >= MinimumGroup
  <2>1. \A s : OutliersOf(O, Group(O, s)) \subseteq Group(O, s)
    BY DEF OutliersOf
  <2> QED BY <2>1
<1>1. PICK s \in Searches : x \in OutliersOf(O, Group(O, s)) /\ Cardinality(Group(O, s)) >= MinimumGroup
  BY DEF Outliers
<1>2. x \in Group(O, s)
  BY <1>1 DEF OutliersOf
<1> QED BY <1>1, <1>2 DEF Group

\* What an outlier pass leaves.
LEMMA PassSound ==
  ASSUME NEW O, Sound(O), NEW P, P = FlagOutliers(O)
  PROVE  /\ Sound(P) /\ Alike(O, P)
         /\ \A x \in DOMAIN O :
              /\ O[x].flags \subseteq P[x].flags /\ P[x].score <= O[x].score
              /\ P[x].flags \subseteq O[x].flags \cup {"POSSIBLE_OUTLIER"}
              /\ "POSSIBLE_OUTLIER" \in P[x].flags \ O[x].flags => x \in Outliers(O)
<1>1. DOMAIN P = DOMAIN O
  BY DEF FlagOutliers
<1>2. ASSUME NEW x \in DOMAIN O
      PROVE  /\ P[x].total = O[x].total /\ P[x].flight = O[x].flight /\ P[x].class = O[x].class
             /\ P[x].included <=> O[x].included
             /\ "SOURCE_CONFLICT" \in P[x].flags <=> "SOURCE_CONFLICT" \in O[x].flags
             /\ SoundRow(P[x])
             /\ O[x].flags \subseteq P[x].flags /\ P[x].score <= O[x].score
             /\ P[x].flags \subseteq O[x].flags \cup {"POSSIBLE_OUTLIER"}
             /\ "POSSIBLE_OUTLIER" \in P[x].flags \ O[x].flags => x \in Outliers(O)
  <2>0. SoundRow(O[x])
    BY DEF Sound
  <2>1. CASE x \in Outliers(O) /\ "POSSIBLE_OUTLIER" \notin O[x].flags
    <3>1. P[x] = Soften(O[x], "POSSIBLE_OUTLIER", Penalty["POSSIBLE_OUTLIER"])
      BY <2>1, PenaltyIs DEF FlagOutliers
    <3>2. O[x].included = TRUE
      BY <2>0, <2>1, OutliersIn DEF SoundRow
    <3>3. SoundRow(P[x]) /\ P[x].score <= O[x].score
      BY <2>0, <2>1, <3>1, <3>2, SoftenSound DEF SoftFlag
    <3>4. /\ P[x].total = O[x].total /\ P[x].flight = O[x].flight /\ P[x].class = O[x].class
          /\ P[x].included = O[x].included
          /\ P[x].flags = O[x].flags \cup {"POSSIBLE_OUTLIER"}
      BY <2>0, <3>1, SoftenFields DEF SoundRow
    <3> QED BY <2>1, <3>3, <3>4
  <2>2. CASE ~(x \in Outliers(O) /\ "POSSIBLE_OUTLIER" \notin O[x].flags)
    <3>1. P[x] = O[x]
      BY <2>2 DEF FlagOutliers
    <3>2. O[x].score \in Int
      BY <2>0 DEF SoundRow
    <3> QED BY <2>0, <3>1, <3>2
  <2> QED BY <2>1, <2>2
<1>3. Sound(P)
  BY <1>1, <1>2 DEF Sound
<1>4. Alike(O, P)
  BY <1>1, <1>2 DEF Alike
<1> QED BY <1>2, <1>3, <1>4

-----------------------------------------------------------------------------
(* The fare of one key.                                                     *)

\* Half to even stays between two whole prices.
LEMMA HalfEvenBetween ==
  ASSUME NEW n \in Nat, NEW a \in Nat, NEW b \in Nat, 2 * a <= n, n <= 2 * b
  PROVE  HalfEven(n) \in Nat /\ a <= HalfEven(n) /\ HalfEven(n) <= b
<1>1. n % 4 = 3 => n + 1 <= 2 * b
  OBVIOUS
<1>2. CASE n % 4 = 3
  BY <1>1, <1>2 DEF HalfEven
<1>3. CASE n % 4 # 3
  BY <1>3 DEF HalfEven
<1> QED BY <1>2, <1>3

LEMMA CandidateIs ==
  ASSUME NEW O, Sound(O), NEW x
  PROVE  /\ x \in Candidates(O) <=> x \in DOMAIN O /\ O[x].included
         /\ x \in Candidates(O) => /\ O[x].total \in Nat \ {0} /\ Source(x) \in Sources
                                   /\ Cell(x) \in Searches /\ x = <<<<Source(x), Cell(x)>>, x[2]>>
<1>1. x \in DOMAIN O => SoundRow(O[x]) /\ x[1] \in Jobs /\ x = <<x[1], x[2]>>
  BY DEF Sound
<1> QED BY <1>1 DEF Candidates, SoundRow, Jobs, Source, Cell

\* Two accepted quotes of one source for one key have different totals.
LEMMA AcceptedApart ==
  ASSUME NEW O, Sound(O), NEW ok, NEW x \in Accepted(O, ok), NEW y \in Accepted(O, ok),
         Source(x) = Source(y), Key(O, x) = Key(O, y), O[x].total = O[y].total
  PROVE  x = y
<1>1. x \in Candidates(O) /\ y \in Candidates(O)
  BY DEF Accepted
<1>2. Cell(x) = Cell(y)
  BY DEF Key
<1>3. x[1] = y[1]
  BY <1>1, <1>2, CandidateIs DEF Source, Cell
<1>4. x[2].hash \in Nat /\ y[2].hash \in Nat /\ x \in DOMAIN O /\ y \in DOMAIN O
  BY <1>1, CandidateIs DEF Sound
<1>5. ~(x[2].hash < y[2].hash) /\ ~(y[2].hash < x[2].hash)
  BY <1>3 DEF Accepted, Repeated
<1>6. x[2].hash = y[2].hash
  BY <1>4, <1>5
<1> QED BY <1>3, <1>4, <1>6 DEF Sound

\* The candidates of a key, and the accepted ones of them.
Offers(O, key)   == {x \in Candidates(O) : Key(O, x) = key}
Kept(O, ok, key) == Offers(O, key) \cap Accepted(O, ok)

\* What a fare f of the key says of the candidates, E being the accepted ones.
SaysOf(O, key, group, E, f) ==
  /\ DOMAIN f.role = group /\ f.key = key /\ key[1] \in Searches
  /\ \A x \in group : Cell(x) = key[1]
  /\ f.price \in Nat
  /\ UsedIn(f) \in SUBSET E
  /\ E = {x \in group : f.role[x] \notin {"DUPLICATE", "REJECTED_UNAPPROVED"}}
  /\ Cardinality(E) = f.count
  /\ Cardinality(UsedIn(f)) = Cardinality({Source(x) : x \in UsedIn(f)})
  /\ \E x \in UsedIn(f) : O[x].total <= f.price
  /\ \E x \in UsedIn(f) : O[x].total >= f.price
  /\ \A x \in UsedIn(f) : f.lowest <= O[x].total /\ O[x].total <= f.highest
  /\ Cardinality({Source(x) : x \in E}) = f.sources
  /\ f.conflict \in BOOLEAN
  /\ f.conflict <=> f.lowest < f.highest
  /\ (DirectFirst /\ \E x \in E : IsDirect(x)) => \A x \in UsedIn(f) : IsDirect(x)

LEMMA FareMade ==
  ASSUME NEW O, Sound(O), NEW ok, NEW key,
         NEW group, group = Offers(O, key), NEW E, E = Kept(O, ok, key), E # {},
         NEW f, f = Fare(O, ok, group, E)
  PROVE  SaysOf(O, key, group, E, f)
<1> DEFINE B == Cheapest(O, E)
           S == Selected(B)
           offered == {O[x].total : x \in B}
           med == TwiceMedian(Totals(O, S))
           top == CHOOSE x \in E : TRUE
<1> USE DEF Offers, Kept
<1>0. /\ f.key = Key(O, top) /\ f.price = HalfEven(med)
      /\ f.lowest = Min(offered) /\ f.highest = Max(offered)
      /\ f.sources = Cardinality(B) /\ f.count = Cardinality(E)
      /\ f.conflict = (Cardinality(offered) > 1)
      /\ f.role = [x \in group |-> Role(ok, E, B, S, x)]
  BY DEF Fare
<1>1. /\ E \in SUBSET group /\ B \in SUBSET E /\ S \in SUBSET B /\ IsFiniteSet(E)
      /\ group \in SUBSET Candidates(O)
  <2>1. E \in SUBSET DOMAIN O
    BY CandidateIs
  <2>2. IsFiniteSet(E)
    BY <2>1, FS_Subset DEF Sound
  <2> QED BY <2>2 DEF Cheapest, Selected
<1>2. \A x \in E : O[x].total \in Nat /\ x \in Accepted(O, ok) /\ Source(x) \in ok /\ Key(O, x) = key
  <2> SUFFICES ASSUME NEW x \in E
               PROVE  O[x].total \in Nat /\ x \in Accepted(O, ok) /\ Source(x) \in ok /\ Key(O, x) = key
    OBVIOUS
  <2>1. x \in Candidates(O) /\ x \in Accepted(O, ok) /\ Key(O, x) = key
    OBVIOUS
  <2> QED BY <2>1, CandidateIs DEF Accepted, Unapproved
<1>3. top \in E
  OBVIOUS
<1> HIDE DEF top
<1>4. f.key = key /\ key[1] \in Searches /\ \A x \in group : Cell(x) = key[1]
  <2>1. key = Key(O, top) /\ top \in Candidates(O)
    BY <1>1, <1>2, <1>3
  <2>2. \A x \in group : Key(O, x) = key
    OBVIOUS
  <2>3. \A x : Key(O, x)[1] = Cell(x)
    BY DEF Key
  <2>4. key[1] = Cell(top) /\ Cell(top) \in Searches
    BY <2>1, <2>3, CandidateIs
  <2>5. \A x \in group : Cell(x) = key[1]
    BY <2>2, <2>3
  <2> QED BY <1>0, <2>1, <2>4, <2>5
<1> HIDE DEF S, B, offered, med
<1>5. \A x, y \in B : Source(x) = Source(y) => x = y
  <2> SUFFICES ASSUME NEW x \in B, NEW y \in B, Source(x) = Source(y) PROVE x = y
    OBVIOUS
  <2>1. x \in E /\ y \in E /\ O[x].total <= O[y].total /\ O[y].total <= O[x].total
    BY <1>1 DEF B, Cheapest
  <2>2. O[x].total = O[y].total
    BY <1>2, <2>1
  <2> QED BY <1>2, <2>1, <2>2, AcceptedApart
<1>6. \A x \in E : \E y \in B : Source(y) = Source(x)
  <2> SUFFICES ASSUME NEW x \in E PROVE \E y \in B : Source(y) = Source(x)
    OBVIOUS
  <2> DEFINE own == {y \in E : Source(y) = Source(x)}
             p == [y \in E |-> O[y].total]
  <2>1. own # {} /\ \A y \in own : p[y] \in Nat
    BY <1>2
  <2> HIDE DEF own
  <2>2. PICK y \in own : \A z \in own : p[y] <= p[z]
    BY <2>1, LeastValue
  <2>3. y \in E /\ Source(y) = Source(x)
    BY <2>2 DEF own
  <2>4. \A z \in E : Source(z) = Source(y) => O[y].total <= O[z].total
    BY <2>2, <2>3 DEF own
  <2>5. y \in B
    BY <2>3, <2>4 DEF B, Cheapest
  <2> QED BY <2>3, <2>5
<1>7. B # {} /\ S # {}
  BY <1>3, <1>6 DEF S, Selected
<1>8. IsFiniteSet(B) /\ IsFiniteSet(S) /\ S \in SUBSET E
  BY <1>1, FS_Subset
<1>9. UsedIn(f) = S
  <2>1. DOMAIN f.role = group /\ \A x \in group : f.role[x] = Role(ok, E, B, S, x)
    BY <1>0
  <2>2. \A x \in group : x \in S <=> Role(ok, E, B, S, x) \in {"USED_DIRECT", "USED_MEDIAN"}
    BY <1>1, <1>2 DEF Role
  <2> QED BY <1>1, <2>1, <2>2 DEF UsedIn
<1>10. E = {x \in group : f.role[x] \notin {"DUPLICATE", "REJECTED_UNAPPROVED"}}
  <2>1. \A x \in group : f.role[x] = Role(ok, E, B, S, x)
    BY <1>0
  <2>2. \A x \in group : x \in E <=> Role(ok, E, B, S, x) \notin {"DUPLICATE", "REJECTED_UNAPPROVED"}
    BY <1>2 DEF Role
  <2> QED BY <1>1, <2>1, <2>2
<1>11. Cardinality(S) = Cardinality({Source(x) : x \in S})
  <2> DEFINE p == [x \in S |-> Source(x)]
             T == {p[x] : x \in S}
  <2>1. \A x, y \in S : p[x] = p[y] => x = y
    BY <1>1, <1>5
  <2> HIDE DEF p
  <2>2. Cardinality(T) = Cardinality(S)
    BY <1>8, <2>1, ImageNumber
  <2>3. T = {Source(x) : x \in S}
    BY DEF p
  <2> QED BY <2>2, <2>3
<1>12. Cardinality({Source(x) : x \in E}) = Cardinality(B)
  <2> DEFINE p == [x \in B |-> Source(x)]
             T == {p[x] : x \in B}
  <2>1. \A x, y \in B : p[x] = p[y] => x = y
    BY <1>5
  <2>2. T = {Source(x) : x \in E}
    BY <1>1, <1>6
  <2> HIDE DEF p
  <2>3. Cardinality(T) = Cardinality(B)
    BY <1>8, <2>1, ImageNumber
  <2> QED BY <2>2, <2>3
<1>13. /\ f.price \in Nat
       /\ \E x \in S : O[x].total <= f.price
       /\ \E x \in S : O[x].total >= f.price
  <2>1. Totals(O, S) \in [S -> Nat] /\ \A x \in S : Totals(O, S)[x] = O[x].total
    BY <1>2, <1>8 DEF Totals
  <2>2. PICK d \in S, e \in S : /\ med \in Nat /\ 2 * Totals(O, S)[d] <= med
                                /\ med <= 2 * Totals(O, S)[e]
    BY <1>7, <1>8, <2>1, MedianWitness DEF med
  <2>3. /\ O[d].total \in Nat /\ O[e].total \in Nat /\ med \in Nat
        /\ 2 * O[d].total <= med /\ med <= 2 * O[e].total
    BY <1>2, <1>8, <2>1, <2>2
  <2>4. f.price \in Nat /\ O[d].total <= f.price /\ f.price <= O[e].total
    BY <1>0, <2>3, HalfEvenBetween
  <2> QED BY <2>2, <2>3, <2>4
<1>14. /\ \A x \in S : f.lowest <= O[x].total /\ O[x].total <= f.highest
       /\ f.conflict \in BOOLEAN
       /\ f.conflict <=> f.lowest < f.highest
  <2>1. offered \in SUBSET Nat /\ offered # {}
    BY <1>1, <1>2, <1>7 DEF offered
  <2>2. IsFiniteSet(offered)
    <3> DEFINE p == [x \in B |-> O[x].total]
    <3>1. offered = {p[x] : x \in B}
      BY DEF offered
    <3> HIDE DEF p
    <3> QED BY <1>8, <3>1, ImageNumber
  <2>3. /\ \A n \in offered : Min(offered) <= n /\ n <= Max(offered)
        /\ Cardinality(offered) > 1 <=> Min(offered) < Max(offered)
    BY <2>1, <2>2, MinMaxOf
  <2>4. \A x \in S : O[x].total \in offered
    BY <1>1 DEF offered
  <2>5. \A x \in S : f.lowest <= O[x].total /\ O[x].total <= f.highest
    BY <1>0, <2>3, <2>4
  <2>6. f.conflict \in BOOLEAN /\ (f.conflict <=> Cardinality(offered) > 1)
    <3> DEFINE c == Cardinality(offered) > 1
    <3>1. f.conflict = c /\ c \in BOOLEAN
      BY <1>0
    <3> HIDE DEF c
    <3>2. f.conflict \in BOOLEAN /\ (f.conflict <=> c)
      BY <3>1
    <3> QED BY <3>2 DEF c
  <2>7. f.lowest < f.highest <=> Min(offered) < Max(offered)
    BY <1>0
  <2> QED BY <2>3, <2>5, <2>6, <2>7
<1>15. (DirectFirst /\ \E x \in E : IsDirect(x)) => \A x \in S : IsDirect(x)
  <2> SUFFICES ASSUME DirectFirst, NEW x \in E, IsDirect(x) PROVE \A z \in S : IsDirect(z)
    OBVIOUS
  <2>1. PICK y \in B : Source(y) = Source(x)
    BY <1>6
  <2>2. IsDirect(y)
    BY <2>1 DEF IsDirect
  <2> QED BY <2>2 DEF S, Selected
<1>16. DOMAIN f.role = group
  BY <1>0
<1>17. Cardinality(E) = f.count /\ f.sources = Cardinality(B)
  BY <1>0
<1> QED BY <1>4, <1>8, <1>9, <1>10, <1>11, <1>12, <1>13, <1>14, <1>15, <1>16, <1>17
    DEF SaysOf

-----------------------------------------------------------------------------
(* The fares of a run and the verdict on its rows.                          *)

Counted(O, f) == {x \in DOMAIN f.role : O[x].included}

SoundFare(O, f) ==
  /\ DOMAIN f.role \in SUBSET DOMAIN O
  /\ f.key[1] \in Searches /\ \A x \in DOMAIN f.role : Cell(x) = f.key[1]
  /\ f.price \in Nat
  /\ Counted(O, f) = {x \in DOMAIN f.role :
                        f.role[x] \notin {"DUPLICATE", "REJECTED_UNAPPROVED"}}
  /\ Cardinality(Counted(O, f)) = f.count
  /\ Cardinality(UsedIn(f)) = Cardinality({Source(x) : x \in UsedIn(f)})
  /\ \E x \in UsedIn(f) : O[x].total <= f.price
  /\ \E x \in UsedIn(f) : O[x].total >= f.price
  /\ \A x \in UsedIn(f) : f.lowest <= O[x].total /\ O[x].total <= f.highest
  /\ Cardinality({Source(x) : x \in Counted(O, f)}) = f.sources
  /\ f.conflict \in BOOLEAN
  /\ \A x \in Counted(O, f) : f.conflict <=> "SOURCE_CONFLICT" \in O[x].flags
  /\ f.conflict <=> f.lowest < f.highest
  /\ (DirectFirst /\ \E x \in Counted(O, f) : IsDirect(x)) => \A x \in UsedIn(f) : IsDirect(x)

SoundFares(O, F) ==
  /\ IsFiniteSet(F)
  /\ \A f \in F : SoundFare(O, f)
  /\ \A f, g \in F : \A x \in DOMAIN f.role : x \in DOMAIN g.role => f = g

\* A pass over the rows leaves the fares as right as they were.
LEMMA AlikeFares ==
  ASSUME NEW O, NEW P, Alike(O, P), NEW F, SoundFares(O, F)
  PROVE  SoundFares(P, F)
<1> SUFFICES ASSUME NEW f \in F PROVE SoundFare(P, f)
  BY DEF SoundFares
<1>1. SoundFare(O, f)
  BY DEF SoundFares
<1>2. DOMAIN f.role \in SUBSET DOMAIN O
  BY <1>1 DEF SoundFare
<1>3. Counted(P, f) = Counted(O, f)
  BY <1>2 DEF Counted, Alike
<1>4. UsedIn(f) \in SUBSET DOMAIN f.role
  BY DEF UsedIn
<1>5. \A x \in UsedIn(f) : P[x].total = O[x].total
  BY <1>2, <1>4 DEF Alike
<1>6. \A x \in Counted(P, f) : "SOURCE_CONFLICT" \in P[x].flags <=> "SOURCE_CONFLICT" \in O[x].flags
  BY <1>2 DEF Alike, Counted
<1>7. DOMAIN P = DOMAIN O
  BY DEF Alike
<1> QED BY <1>1, <1>3, <1>5, <1>6, <1>7 DEF SoundFare

LEMMA CanonicalSound ==
  ASSUME NEW O, Sound(O), \A x \in DOMAIN O : "SOURCE_CONFLICT" \notin O[x].flags,
         NEW ok, NEW F, F = Fares(O, ok), NEW P, P = Resolved(O, ok, F)
  PROVE  /\ Sound(P) /\ SoundFares(P, F) /\ DOMAIN P = DOMAIN O
         /\ \A x \in DOMAIN P : P[x].included => \E f \in F : x \in DOMAIN f.role
         /\ F = {} => \A x \in DOMAIN P : "SOURCE_CONFLICT" \notin P[x].flags
         /\ \A x \in DOMAIN O :
              /\ O[x].flags \subseteq P[x].flags /\ P[x].score <= O[x].score
              /\ P[x].flags \subseteq O[x].flags \cup
                                      {"UNAPPROVED_SOURCE", "DUPLICATE", "SOURCE_CONFLICT"}
              /\ P[x].included => O[x].included
              /\ O[x].included /\ ~P[x].included =>
                   P[x].flags \cap {"DUPLICATE", "UNAPPROVED_SOURCE"} # {}
<1> DEFINE made(key) == Fare(O, ok, Offers(O, key), Kept(O, ok, key))
           good == Accepted(O, ok)
           out == Unapproved(O, ok) \cup Repeated(O, ok)
<1>1. /\ Unapproved(O, ok) \in SUBSET Candidates(O) /\ Repeated(O, ok) \in SUBSET Candidates(O)
      /\ good = Candidates(O) \ out
  BY DEF Unapproved, Repeated, Accepted
<1> HIDE DEF good, out
<1>2. F = {made(Key(O, x)) : x \in good} /\ \A x \in good : x \in Kept(O, ok, Key(O, x))
  <2>1. F = {made(key) : key \in {Key(O, x) : x \in good}}
    BY DEF Fares, Offers, Kept, good
  <2>2. \A x \in good : x \in Kept(O, ok, Key(O, x))
    BY <1>1 DEF Offers, Kept, good
  <2> HIDE DEF made
  <2> QED BY <2>1, <2>2
<1>3. ASSUME NEW f \in F
      PROVE  /\ f = made(f.key) /\ DOMAIN f.role = Offers(O, f.key) /\ Kept(O, ok, f.key) # {}
             /\ DOMAIN f.role \in SUBSET Candidates(O)
             /\ \A x \in DOMAIN f.role : Key(O, x) = f.key
  <2>1. PICK key : Kept(O, ok, key) # {} /\ f = made(key)
    BY <1>2
  <2>2. SaysOf(O, key, Offers(O, key), Kept(O, ok, key), f)
    BY <2>1, FareMade
  <2>3. DOMAIN f.role = Offers(O, key) /\ f.key = key
    BY <2>2 DEF SaysOf
  <2> QED BY <2>1, <2>3 DEF Offers
<1>4. \A f, g \in F : \A x \in DOMAIN f.role : x \in DOMAIN g.role => f = g
  <2> SUFFICES ASSUME NEW f \in F, NEW g \in F, NEW x \in DOMAIN f.role, x \in DOMAIN g.role
               PROVE  f = g
    OBVIOUS
  <2>1. f.key = g.key
    BY <1>3
  <2>2. f = made(f.key)
    BY <1>3
  <2>3. g = made(g.key)
    BY <1>3
  <2> QED BY <2>1, <2>2, <2>3
<1>5. \A x \in good : \E f \in F : x \in DOMAIN f.role
  <2> SUFFICES ASSUME NEW x \in good PROVE \E f \in F : x \in DOMAIN f.role
    OBVIOUS
  <2> DEFINE f == made(Key(O, x))
  <2>1. f \in F
    BY <1>2
  <2>2. DOMAIN f.role = Offers(O, Key(O, x))
    BY DEF Fare
  <2> QED BY <1>1, <2>1, <2>2 DEF Offers
<1>6. IsFiniteSet(F)
  <2> DEFINE p == [x \in good |-> made(Key(O, x))]
  <2>1. F = {p[x] : x \in good}
    BY <1>2
  <2>2. IsFiniteSet(good)
    <3>1. good \in SUBSET DOMAIN O
      BY <1>1, CandidateIs
    <3> QED BY <3>1, FS_Subset DEF Sound
  <2> HIDE DEF p
  <2> QED BY <2>1, <2>2, ImageNumber
<1>7. Disputed(F) \in SUBSET Candidates(O)
  BY <1>3 DEF Disputed
<1>8. DOMAIN P = DOMAIN O
  BY DEF Resolved
<1>9. ASSUME NEW x \in DOMAIN O
      PROVE  /\ x \in Unapproved(O, ok) => P[x] = Exclude(O[x], "UNAPPROVED_SOURCE", 0)
             /\ x \in Repeated(O, ok) => P[x] = Exclude(O[x], "DUPLICATE", 20)
             /\ x \in Disputed(F) \ out => P[x] = Soften(O[x], "SOURCE_CONFLICT", 10)
             /\ x \notin Disputed(F) /\ x \notin out => P[x] = O[x]
  BY DEF Resolved, out, Unapproved, Repeated
<1>10. ASSUME NEW x \in DOMAIN O
       PROVE  /\ SoundRow(P[x]) /\ P[x].total = O[x].total
              /\ O[x].flags \subseteq P[x].flags /\ P[x].score <= O[x].score
              /\ P[x].flags \subseteq O[x].flags \cup
                                      {"UNAPPROVED_SOURCE", "DUPLICATE", "SOURCE_CONFLICT"}
              /\ P[x].included <=> O[x].included /\ x \notin out
              /\ x \in out => P[x].flags \cap {"DUPLICATE", "UNAPPROVED_SOURCE"} # {}
              /\ x \notin out => ("SOURCE_CONFLICT" \in P[x].flags <=> x \in Disputed(F))
              /\ "SOURCE_CONFLICT" \in P[x].flags => x \in Disputed(F)
  <2>0. SoundRow(O[x]) /\ "SOURCE_CONFLICT" \notin O[x].flags
    BY DEF Sound
  <2>1. CASE x \in Unapproved(O, ok)
    <3>1. O[x].included = TRUE /\ x \in out
      BY <1>1, <2>0, <2>1, CandidateIs DEF SoundRow, out
    <3>2. P[x] = Exclude(O[x], "UNAPPROVED_SOURCE", 0)
      BY <1>9, <2>1
    <3>3. SoundRow(P[x]) /\ P[x].score <= O[x].score
      BY <2>0, <3>1, <3>2, ExcludeSound
    <3>4. /\ P[x].total = O[x].total /\ P[x].included = FALSE
          /\ P[x].flags = O[x].flags \cup {"UNAPPROVED_SOURCE"}
      BY <2>0, <3>2 DEF Exclude, SoundRow, Columns
    <3> QED BY <2>0, <3>1, <3>3, <3>4
  <2>2. CASE x \in Repeated(O, ok)
    <3>1. O[x].included = TRUE /\ x \in out
      BY <1>1, <2>0, <2>2, CandidateIs DEF SoundRow, out
    <3>2. P[x] = Exclude(O[x], "DUPLICATE", 20)
      BY <1>9, <2>2
    <3>3. SoundRow(P[x]) /\ P[x].score <= O[x].score
      BY <2>0, <3>1, <3>2, ExcludeSound
    <3>4. /\ P[x].total = O[x].total /\ P[x].included = FALSE
          /\ P[x].flags = O[x].flags \cup {"DUPLICATE"}
      BY <2>0, <3>2 DEF Exclude, SoundRow, Columns
    <3> QED BY <2>0, <3>1, <3>3, <3>4
  <2>3. CASE x \in Disputed(F) \ out
    <3>1. O[x].included = TRUE
      BY <1>7, <2>0, <2>3, CandidateIs DEF SoundRow
    <3>2. P[x] = Soften(O[x], "SOURCE_CONFLICT", Penalty["SOURCE_CONFLICT"])
      BY <1>9, <2>3, PenaltyIs
    <3>3. SoundRow(P[x]) /\ P[x].score <= O[x].score
      BY <2>0, <3>1, <3>2, SoftenSound DEF SoftFlag
    <3>4. /\ P[x].total = O[x].total /\ P[x].included = O[x].included
          /\ P[x].flags = O[x].flags \cup {"SOURCE_CONFLICT"}
      BY <2>0, <3>2, SoftenFields DEF SoundRow
    <3> QED BY <2>3, <3>1, <3>3, <3>4
  <2>4. CASE x \notin Disputed(F) /\ x \notin out
    <3>1. P[x] = O[x] /\ O[x].score \in Int
      BY <1>9, <2>0, <2>4 DEF SoundRow
    <3> QED BY <2>0, <2>4, <3>1
  <2> QED BY <2>1, <2>2, <2>3, <2>4 DEF out
<1>11. Sound(P)
  BY <1>8, <1>10 DEF Sound
<1>12. ASSUME NEW f \in F PROVE SoundFare(P, f)
  <2> DEFINE E == Kept(O, ok, f.key)
             G == Offers(O, f.key)
  <2>1. E # {} /\ f = Fare(O, ok, G, E) /\ G \in SUBSET Candidates(O) /\ E = G \cap good
    BY <1>3 DEF Offers, Kept, good
  <2>2. \A x \in Candidates(O) : x \in DOMAIN O /\ P[x].total = O[x].total /\ (P[x].included <=> x \in good)
    <3> SUFFICES ASSUME NEW x \in Candidates(O)
                 PROVE  x \in DOMAIN O /\ P[x].total = O[x].total /\ (P[x].included <=> x \in good)
      OBVIOUS
    <3>1. x \in DOMAIN O /\ O[x].included
      BY CandidateIs
    <3> QED BY <1>1, <1>10, <3>1
  <2>3. E = {x \in G : P[x].included}
    BY <2>1, <2>2
  <2>3a. SaysOf(O, f.key, G, E, f)
    BY <2>1, FareMade
  <2> HIDE DEF E, G
  <2>4. /\ DOMAIN f.role = G /\ f.key[1] \in Searches
        /\ \A x \in G : Cell(x) = f.key[1]
        /\ f.price \in Nat
        /\ UsedIn(f) \in SUBSET E
        /\ E = {x \in G : f.role[x] \notin {"DUPLICATE", "REJECTED_UNAPPROVED"}}
        /\ Cardinality(E) = f.count
        /\ Cardinality(UsedIn(f)) = Cardinality({Source(x) : x \in UsedIn(f)})
        /\ \E x \in UsedIn(f) : O[x].total <= f.price
        /\ \E x \in UsedIn(f) : O[x].total >= f.price
        /\ \A x \in UsedIn(f) : f.lowest <= O[x].total /\ O[x].total <= f.highest
        /\ Cardinality({Source(x) : x \in E}) = f.sources
        /\ f.conflict \in BOOLEAN
        /\ f.conflict <=> f.lowest < f.highest
        /\ (DirectFirst /\ \E x \in E : IsDirect(x)) => \A x \in UsedIn(f) : IsDirect(x)
    BY <2>3a DEF SaysOf
  <2>5. Counted(P, f) = E
    BY <2>3, <2>4 DEF Counted
  <2>6. \A x \in UsedIn(f) : P[x].total = O[x].total
    BY <2>1, <2>2, <2>4
  <2>7. \A x \in E : f.conflict <=> "SOURCE_CONFLICT" \in P[x].flags
    <3> SUFFICES ASSUME NEW x \in E PROVE f.conflict <=> "SOURCE_CONFLICT" \in P[x].flags
      OBVIOUS
    <3>1. x \in DOMAIN f.role /\ x \in Candidates(O) /\ x \notin out /\ x \in DOMAIN O
      BY <1>1, <2>1, <2>2, <2>4
    <3>2. x \in Disputed(F) <=> f.conflict
      BY <1>4, <3>1 DEF Disputed
    <3> QED BY <1>10, <3>1, <3>2
  <2>8. DOMAIN f.role \in SUBSET DOMAIN P
    BY <1>8, <2>1, <2>2, <2>4
  <2> QED BY <2>4, <2>5, <2>6, <2>7, <2>8 DEF SoundFare
<1>13. SoundFares(P, F)
  BY <1>4, <1>6, <1>12 DEF SoundFares
<1>14. ASSUME NEW x \in DOMAIN P, P[x].included PROVE \E f \in F : x \in DOMAIN f.role
  <2>1. x \in DOMAIN O /\ O[x].included /\ x \notin out
    BY <1>8, <1>10, <1>14
  <2>2. x \in good
    BY <1>1, <2>1, CandidateIs
  <2> QED BY <1>5, <2>2
<1>15. F = {} => \A x \in DOMAIN P : "SOURCE_CONFLICT" \notin P[x].flags
  <2>1. F = {} => Disputed(F) = {}
    BY DEF Disputed
  <2> QED BY <1>8, <1>10, <2>1
<1>16. ASSUME NEW x \in DOMAIN O
       PROVE  /\ O[x].flags \subseteq P[x].flags /\ P[x].score <= O[x].score
              /\ P[x].flags \subseteq O[x].flags \cup
                                      {"UNAPPROVED_SOURCE", "DUPLICATE", "SOURCE_CONFLICT"}
              /\ P[x].included => O[x].included
              /\ O[x].included /\ ~P[x].included =>
                   P[x].flags \cap {"DUPLICATE", "UNAPPROVED_SOURCE"} # {}
  BY <1>10
<1> QED BY <1>8, <1>11, <1>13, <1>14, <1>15, <1>16

-----------------------------------------------------------------------------
(* The inductive invariant.  What the index says of its relatives is kept   *)
(* with it: nothing it was computed from is written again.                  *)

Included(O) == {x \in DOMAIN O : O[x].included}

Phases ==
  /\ base \in Bases
  /\ DOMAIN done \subseteq Jobs /\ seen \subseteq Sources /\ approved \subseteq Sources
  /\ pc \in {"idle", "jobs", "close"}
  /\ run # None => pc = "idle"
  /\ pc = "close" \/ fares # {} => Open = {}
  /\ price # None => run # None
  /\ index # None => price # None

\* The counts of the run are of the rows its fares account for.
Judged ==
  /\ fares = {} => \A x \in Rows : "SOURCE_CONFLICT" \notin obs[x].flags
  /\ fares # {} \/ pc = "close" \/ run # None =>
       \A x \in Rows : obs[x].included => \E f \in fares : x \in DOMAIN f.role
  /\ run # None => run = Cardinality(Included(obs))

SoundPrice ==
  price # None =>
    /\ price \in [Searches -> Nat \cup {None}]
    /\ \A s \in Searches : price[s] # None => \E f \in fares : f.key[1] = s

SoundIndex ==
  index # None =>
    /\ DOMAIN index.relatives \in SUBSET Searches
    /\ \A s \in DOMAIN index.relatives : \E f \in fares : f.key[1] = s
    /\ index.weight = WeightOf(DOMAIN index.relatives)
    /\ index.value # None =>
         LET R == {index.relatives[s] : s \in DOMAIN index.relatives}
         IN  Min(R) * index.weight <= index.value /\ index.value <= Max(R) * index.weight
    /\ index.status = "PUBLISHED" =>
         index.value # None /\ 100 * index.weight >= 80 * WeightOf(Searches)

IInv ==
  /\ Phases
  /\ Sound(obs) /\ \A x \in Rows : x[1] \in DOMAIN done
  /\ SoundFares(obs, fares)
  /\ Judged /\ SoundPrice /\ SoundIndex

LEMMA PipelineInit == Init => IInv
<1> SUFFICES ASSUME Init PROVE IInv
  OBVIOUS
<1>1. obs = <<>> /\ DOMAIN obs = {} /\ done = <<>> /\ DOMAIN done = {} /\ fares = {}
  BY DEF Init
<1>2. IsFiniteSet({})
  BY FS_EmptySet
<1>3. Phases
  BY <1>1 DEF Init, Phases
<1>4. Sound(obs) /\ (\A x \in Rows : x[1] \in DOMAIN done) /\ SoundFares(obs, fares)
  BY <1>1, <1>2 DEF Sound, SoundFares, Rows
<1>5. Judged /\ SoundPrice /\ SoundIndex
  BY <1>1 DEF Init, Judged, SoundPrice, SoundIndex, Rows
<1> QED BY <1>3, <1>4, <1>5 DEF IInv

\* A step that leaves the rows, the fares and what is computed from them alone.
LEMMA SessionSteps ==
  ASSUME IInv, Begin \/ FailJob \/ Crash \/ Revoke \/ UNCHANGED vars
  PROVE  IInv'
<1>1. UNCHANGED <<base, obs, fares, run, price, index>>
  BY DEF Begin, FailJob, Crash, Revoke, vars
<1>2. DOMAIN done \subseteq DOMAIN done'
  BY DEF Begin, FailJob, Crash, Revoke, vars, Closed
<1>3. pc' = "close" => pc = "close"
  BY DEF Begin, FailJob, Crash, Revoke, vars
<1>4. Phases'
  <2>1. CASE Begin
    BY <2>1 DEF IInv, Phases, Begin, Open
  <2>2. CASE FailJob
    <3>1. Current \in Open /\ DOMAIN done' = DOMAIN done \cup {Current}
      BY <2>2 DEF FailJob, Current, Closed
    <3>2. DOMAIN done' \subseteq Jobs
      BY <3>1 DEF IInv, Phases, Open
    <3> QED BY <2>2, <3>2 DEF IInv, Phases, FailJob, Open
  <2>3. CASE Crash
    BY <2>3 DEF IInv, Phases, Crash, Open
  <2>4. CASE Revoke
    BY <2>4 DEF IInv, Phases, Revoke, Open
  <2>5. CASE UNCHANGED vars
    BY <2>5 DEF IInv, Phases, vars, Open
  <2> QED BY <2>1, <2>2, <2>3, <2>4, <2>5
<1>5. Sound(obs)' /\ (\A x \in Rows : x[1] \in DOMAIN done)' /\ SoundFares(obs, fares)'
  BY <1>1, <1>2 DEF IInv, Rows
<1>6. Judged'
  BY <1>1, <1>3 DEF IInv, Judged, Rows
<1>7. SoundPrice' /\ SoundIndex'
  BY <1>1 DEF IInv, SoundPrice, SoundIndex
<1> QED BY <1>4, <1>5, <1>6, <1>7 DEF IInv

LEMMA RunJobStep ==
  ASSUME IInv, RunJob
  PROVE  /\ IInv'
         /\ \A x \in Rows : x \in DOMAIN obs' /\ obs'[x] = obs[x]
<1>1. PICK a \in Answers[Current] \ {Raises} : Store(Current, a) /\ DOMAIN done' = DOMAIN done \cup {Current}
  BY DEF RunJob, Closed
<1>2. Current \in Open /\ Current \in Jobs
  BY DEF RunJob, Current, Open
<1>3. fares = {} /\ run = None /\ price = None /\ index = None /\ pc = "jobs"
  BY DEF RunJob, IInv, Phases
<1>4. /\ Sound(obs')
      /\ \A x \in DOMAIN obs' : x \in DOMAIN obs \/ x[1] = Current
      /\ \A x \in DOMAIN obs : x \in DOMAIN obs' /\ obs'[x] = obs[x]
      /\ \A x \in DOMAIN obs' \ DOMAIN obs : "SOURCE_CONFLICT" \notin obs'[x].flags
  <2>1. IsAnswer(a)
    BY <1>1, <1>2, PipelineAssumption
  <2>2. \A x \in DOMAIN obs : x[1] # Current
    BY <1>2 DEF IInv, Rows, Open
  <2>3. obs' = Stored(obs, Current, a, Current[1] \in seen)
    BY <1>1 DEF Store, Stored
  <2>4. Sound(obs)
    BY DEF IInv
  <2> QED BY <1>2, <2>1, <2>2, <2>3, <2>4, StoreSound
<1>5. Phases'
  <2>1. DOMAIN done' \subseteq Jobs
    BY <1>1, <1>2 DEF IInv, Phases
  <2> QED BY <1>3, <2>1 DEF IInv, Phases, RunJob, Open
<1>6. (\A x \in Rows : x[1] \in DOMAIN done)'
  BY <1>1, <1>4 DEF IInv, Rows
<1>7. SoundFares(obs, fares)'
  BY <1>3, FS_EmptySet DEF SoundFares, RunJob
<1>8. Judged'
  <2>1. \A x \in DOMAIN obs' : "SOURCE_CONFLICT" \notin obs'[x].flags
    BY <1>3, <1>4 DEF IInv, Judged, Rows
  <2> QED BY <1>3, <2>1 DEF Judged, RunJob, Rows
<1>9. SoundPrice' /\ SoundIndex'
  BY <1>3 DEF RunJob, SoundPrice, SoundIndex
<1> QED BY <1>4, <1>5, <1>6, <1>7, <1>8, <1>9 DEF IInv, Rows

LEMMA CanonicalizeStep ==
  ASSUME IInv, Canonicalize
  PROVE  /\ IInv'
         /\ DOMAIN obs' = Rows
         /\ \A x \in Rows :
              /\ obs[x].flags \subseteq obs'[x].flags /\ obs'[x].score <= obs[x].score
              /\ obs'[x].included => obs[x].included
              /\ "POSSIBLE_OUTLIER" \in obs'[x].flags \ obs[x].flags => x \in Outliers(obs)
              /\ obs[x].included /\ ~obs'[x].included =>
                   obs'[x].flags \cap {"DUPLICATE", "UNAPPROVED_SOURCE"} # {}
<1> DEFINE O == FlagOutliers(obs)
<1>0. fares = {} /\ pc = "jobs" /\ Open = {} /\ run = None /\ price = None /\ index = None
  BY DEF Canonicalize, IInv, Phases
<1>1. /\ fares' = Fares(O, seen) /\ obs' = Resolved(O, seen, fares') /\ pc' = "close"
      /\ UNCHANGED <<base, done, run, price, index, approved, seen>>
  BY DEF Canonicalize
<1>2. /\ Sound(O) /\ Alike(obs, O)
      /\ \A x \in DOMAIN obs :
           /\ obs[x].flags \subseteq O[x].flags /\ O[x].score <= obs[x].score
           /\ "POSSIBLE_OUTLIER" \in O[x].flags \ obs[x].flags => x \in Outliers(obs)
  BY PassSound DEF IInv
<1> HIDE DEF O
<1>3. DOMAIN O = Rows /\ \A x \in DOMAIN O : "SOURCE_CONFLICT" \notin O[x].flags
  BY <1>0, <1>2 DEF IInv, Judged, Alike, Rows
<1>4. /\ Sound(obs') /\ SoundFares(obs', fares') /\ DOMAIN obs' = DOMAIN O
      /\ \A x \in DOMAIN obs' : obs'[x].included => \E f \in fares' : x \in DOMAIN f.role
      /\ fares' = {} => \A x \in DOMAIN obs' : "SOURCE_CONFLICT" \notin obs'[x].flags
      /\ \A x \in DOMAIN O :
           /\ O[x].flags \subseteq obs'[x].flags /\ obs'[x].score <= O[x].score
           /\ obs'[x].flags \subseteq O[x].flags \cup
                                      {"UNAPPROVED_SOURCE", "DUPLICATE", "SOURCE_CONFLICT"}
           /\ obs'[x].included => O[x].included
           /\ O[x].included /\ ~obs'[x].included =>
                obs'[x].flags \cap {"DUPLICATE", "UNAPPROVED_SOURCE"} # {}
  BY <1>1, <1>2, <1>3, CanonicalSound
<1>5. Phases'
  BY <1>0, <1>1 DEF IInv, Phases, Open
<1>6. (\A x \in Rows : x[1] \in DOMAIN done)'
  BY <1>1, <1>3, <1>4 DEF IInv, Rows
<1>7. Judged'
  BY <1>0, <1>1, <1>4 DEF Judged, Rows
<1>8. SoundPrice' /\ SoundIndex'
  BY <1>0, <1>1 DEF SoundPrice, SoundIndex
<1>9. IInv'
  BY <1>4, <1>5, <1>6, <1>7, <1>8 DEF IInv
<1>10. ASSUME NEW x \in Rows
       PROVE  /\ obs[x].flags \subseteq obs'[x].flags /\ obs'[x].score <= obs[x].score
              /\ obs'[x].included => obs[x].included
              /\ "POSSIBLE_OUTLIER" \in obs'[x].flags \ obs[x].flags => x \in Outliers(obs)
              /\ obs[x].included /\ ~obs'[x].included =>
                   obs'[x].flags \cap {"DUPLICATE", "UNAPPROVED_SOURCE"} # {}
  <2>1. x \in DOMAIN O /\ x \in DOMAIN obs /\ x \in DOMAIN obs'
    BY <1>3, <1>4 DEF Rows
  <2>2. obs[x].score \in Int /\ O[x].score \in Int /\ obs'[x].score \in Int
    <3>1. SoundRow(obs[x]) /\ SoundRow(O[x]) /\ SoundRow(obs'[x])
      BY <1>2, <1>4, <2>1 DEF IInv, Sound
    <3> QED BY <3>1 DEF SoundRow
  <2>3. O[x].included <=> obs[x].included
    BY <1>2, <2>1 DEF Alike
  <2> QED BY <1>2, <1>4, <2>1, <2>2, <2>3
<1> QED BY <1>3, <1>4, <1>9, <1>10

LEMMA CloseStep ==
  ASSUME IInv, Close
  PROVE  /\ IInv'
         /\ DOMAIN obs' = Rows
         /\ \A x \in Rows :
              /\ obs[x].flags \subseteq obs'[x].flags /\ obs'[x].score <= obs[x].score
              /\ obs'[x].included <=> obs[x].included
              /\ "POSSIBLE_OUTLIER" \in obs'[x].flags \ obs[x].flags => x \in Outliers(obs)
<1>0. /\ pc \in {"jobs", "close"} /\ run = None /\ price = None /\ index = None /\ Open = {}
      /\ pc = "jobs" => fares # {}
  BY DEF Close, IInv, Phases
<1>1. /\ run' = Cardinality(Included(obs)) /\ pc' = "idle" /\ seen' = {}
      /\ UNCHANGED <<base, done, fares, price, index, approved>>
  BY DEF Close, Included
<1>2. /\ Sound(obs') /\ Alike(obs, obs')
      /\ \A x \in DOMAIN obs :
           /\ obs[x].flags \subseteq obs'[x].flags /\ obs'[x].score <= obs[x].score
           /\ "POSSIBLE_OUTLIER" \in obs'[x].flags \ obs[x].flags => x \in Outliers(obs)
  <2>0. Sound(obs)
    BY DEF IInv
  <2>1. CASE pc = "jobs"
    <3>1. obs' = FlagOutliers(obs)
      BY <2>1 DEF Close
    <3> QED BY <2>0, <3>1, PassSound
  <2>2. CASE pc = "close"
    <3>1. obs' = obs
      BY <2>2 DEF Close
    <3>2. \A x \in DOMAIN obs : obs[x].score \in Int
      BY <2>0 DEF Sound, SoundRow
    <3> QED BY <2>0, <3>1, <3>2 DEF Alike
  <2> QED BY <1>0, <2>1, <2>2
<1>3. DOMAIN obs' = Rows /\ Included(obs') = Included(obs)
  BY <1>2 DEF Alike, Included, Rows
<1>4. Phases'
  BY <1>0, <1>1 DEF IInv, Phases, Open
<1>5. (\A x \in Rows : x[1] \in DOMAIN done)'
  BY <1>1, <1>3 DEF IInv, Rows
<1>6. SoundFares(obs, fares)'
  BY <1>1, <1>2, AlikeFares DEF IInv
<1>7. Judged'
  <2>1. fares' = {} => \A x \in DOMAIN obs' : "SOURCE_CONFLICT" \notin obs'[x].flags
    BY <1>1, <1>2 DEF IInv, Judged, Alike, Rows
  <2>2. \A x \in DOMAIN obs' : obs'[x].included => \E f \in fares' : x \in DOMAIN f.role
    BY <1>0, <1>1, <1>2 DEF IInv, Judged, Alike, Rows
  <2>3. run' = Cardinality(Included(obs'))
    BY <1>1, <1>3
  <2> QED BY <2>1, <2>2, <2>3 DEF Judged, Rows
<1>8. SoundPrice' /\ SoundIndex'
  BY <1>0, <1>1 DEF SoundPrice, SoundIndex
<1>9. IInv'
  BY <1>2, <1>4, <1>5, <1>6, <1>7, <1>8 DEF IInv
<1> QED BY <1>2, <1>3, <1>9 DEF Alike, Rows

-----------------------------------------------------------------------------
(* The prices and the index.                                                *)

LEMMA PriceStep == ASSUME IInv, Price PROVE IInv'
<1>1. /\ run # None /\ price = None /\ index = None
      /\ price' = [s \in Searches |-> CellPrice(s)]
      /\ UNCHANGED <<base, done, obs, fares, run, index, approved, pc, seen>>
  BY DEF Price, IInv, Phases
<1>2. ASSUME NEW s \in Searches
      PROVE  CellPrice(s) \in Nat \cup {None} /\ (CellPrice(s) # None => \E f \in fares : f.key[1] = s)
  <2> DEFINE F == {f \in fares : f.key[1] = s}
             p == [f \in F |-> f.price]
  <2>1. CASE F = {}
    BY <2>1 DEF CellPrice
  <2>2. CASE F # {}
    <3>1. IsFiniteSet(F) /\ \A f \in F : f.price \in Nat
      <4>1. F \in SUBSET fares
        OBVIOUS
      <4>2. IsFiniteSet(fares) /\ \A f \in fares : f.price \in Nat
        BY DEF IInv, SoundFares, SoundFare
      <4> HIDE DEF F
      <4> QED BY <4>1, <4>2, FS_Subset
    <3>2. p \in [F -> Nat]
      BY <3>1
    <3>3. CellPrice(s) = TwiceMedian(p)
      BY <2>2 DEF CellPrice
    <3> HIDE DEF p
    <3>4. TwiceMedian(p) \in Nat
      <4> HIDE DEF F
      <4> QED BY <2>2, <3>1, <3>2, MedianWitness
    <3> QED BY <2>2, <3>3, <3>4
  <2> QED BY <2>1, <2>2
<1>3. Phases'
  BY <1>1 DEF IInv, Phases, Open
<1>4. Sound(obs)' /\ (\A x \in Rows : x[1] \in DOMAIN done)' /\ SoundFares(obs, fares)'
  BY <1>1 DEF IInv, Rows
<1>5. Judged' /\ SoundIndex'
  BY <1>1 DEF IInv, Judged, Rows, SoundIndex
<1>6. SoundPrice'
  BY <1>1, <1>2 DEF SoundPrice
<1> QED BY <1>3, <1>4, <1>5, <1>6 DEF IInv

LEMMA WeightSums ==
  ASSUME NEW A \in SUBSET Searches
  PROVE  /\ IsFiniteSet(A) /\ WeightOf(A) \in Int
         /\ WeightOf({}) = 0 /\ WeightOf(Searches) \in Int /\ WeightOf(Searches) > 0
<1>1. IsFiniteSet(A) /\ IsFiniteSet(Searches) /\ Searches # {}
      /\ \A s \in Searches : Weight[s] \in Nat \ {0}
  BY FS_Subset, PipelineAssumption
<1>2. WeightOf(A) \in Int /\ WeightOf(Searches) \in Int
  BY <1>1, SumInt DEF WeightOf
<1>3. WeightOf(Searches) > 0
  <2> DEFINE ones == [s \in Searches |-> 1]
  <2>1. \A s \in Searches : ones[s] = 1 /\ ones[s] <= Weight[s]
    BY <1>1
  <2>3. Cardinality(Searches) \in Nat /\ Cardinality(Searches) # 0
    BY <1>1, FS_CardinalityType, FS_EmptySet
  <2> HIDE DEF ones
  <2>4. SumFunctionOnSet(ones, Searches) = Cardinality(Searches)
    BY <1>1, <2>1, SumOfOnes
  <2>5. SumFunctionOnSet(ones, Searches) <= SumFunctionOnSet(Weight, Searches)
    <3> QED BY <1>1, <2>1, SumAtMost
  <2> QED BY <1>2, <2>3, <2>4, <2>5 DEF WeightOf
<1>4. WeightOf({}) = 0
  BY SumEmpty DEF WeightOf
<1> QED BY <1>1, <1>2, <1>3, <1>4

LEMMA Products ==
  ASSUME NEW a \in Nat, NEW b \in Nat, NEW c \in Nat
  PROVE  /\ a * b \in Nat /\ (c # 0 => a \div c \in Nat)
         /\ a <= b => a * c <= c * b /\ c * a <= b * c
OBVIOUS

LEMMA IndexStep == ASSUME IInv, Index PROVE IInv'
<1> DEFINE A == Available
           v == [s \in A |-> Weight[s] * Relative(s)]
           r == [s \in A |-> Relative(s)]
           R == {r[s] : s \in DOMAIN r}
<1>1. /\ price # None /\ index = None /\ index' = NewIndex
      /\ UNCHANGED <<base, done, obs, fares, run, price, approved, pc, seen>>
  BY DEF Index
<1>2. /\ A \in SUBSET Searches
      /\ \A s \in A : /\ price[s] \in Nat /\ base[s] \in Nat \ {0} /\ Weight[s] \in Nat
                      /\ \E f \in fares : f.key[1] = s
  <2>1. price \in [Searches -> Nat \cup {None}] /\ base \in [Searches -> (Nat \ {0}) \cup {None}]
        /\ Weight \in [Searches -> Nat \ {0}]
    BY <1>1, PipelineAssumption DEF IInv, SoundPrice, Phases
  <2>2. A \in SUBSET Searches
    BY DEF Available
  <2>3. \A s \in A : price[s] # None /\ base[s] # None
    BY DEF Available
  <2>4. \A s \in A : \E f \in fares : f.key[1] = s
    BY <1>1, <2>2, <2>3 DEF IInv, SoundPrice
  <2> HIDE DEF A
  <2> QED BY <2>1, <2>2, <2>3, <2>4
<1>3. \A s \in A : Relative(s) \in Nat
  <2> SUFFICES ASSUME NEW s \in A PROVE Relative(s) \in Nat
    OBVIOUS
  <2> DEFINE b2 == 2 * base[s]  q == Scale \div b2  p == 100 * price[s]
  <2>1. b2 \in Nat /\ b2 # 0 /\ Scale \in Nat /\ p \in Nat
    BY <1>2, PipelineAssumption
  <2>2. Relative(s) = p * q
    BY DEF Relative
  <2> HIDE DEF b2, p
  <2>3. q \in Nat
    BY <2>1, Products
  <2> HIDE DEF q
  <2> QED BY <2>1, <2>2, <2>3, Products
<1>4. IsFiniteSet(A) /\ WeightOf(A) \in Int /\ WeightOf(Searches) \in Int /\ WeightOf(Searches) > 0
  BY <1>2, WeightSums
<1>5. \A s \in A : v[s] \in Int
  <2> SUFFICES ASSUME NEW s \in A PROVE Weight[s] * Relative(s) \in Int
    OBVIOUS
  <2>1. Weight[s] \in Nat /\ Relative(s) \in Nat
    BY <1>2, <1>3
  <2> QED BY <2>1, Products
<1>6. NewIndex.value = (IF A = {} \/ ~BasketComplete THEN None ELSE SumFunctionOnSet(v, A))
      /\ NewIndex.weight = WeightOf(A) /\ NewIndex.relatives = r
      /\ NewIndex.status = (IF ~BasketComplete THEN "PROVISIONAL_BASE"
                            ELSE IF Covered(WeightOf(A)) THEN "PUBLISHED"
                            ELSE "INSUFFICIENT_COVERAGE")
  BY DEF NewIndex, SumFunction
<1>7. ASSUME A # {}
      PROVE  /\ Min(R) * WeightOf(A) <= SumFunctionOnSet(v, A)
             /\ SumFunctionOnSet(v, A) <= Max(R) * WeightOf(A)
  <2>1. R \in SUBSET Nat /\ R # {} /\ \A s \in A : Relative(s) \in R
    BY <1>3, <1>7
  <2>2. IsFiniteSet(R)
    <3>1. R = {r[s] : s \in A}
      OBVIOUS
    <3> HIDE DEF R, r, A
    <3> QED BY <1>4, <3>1, ImageNumber
  <2> HIDE DEF R
  <2>3. Min(R) \in Nat /\ Max(R) \in Nat /\ \A n \in R : Min(R) <= n /\ n <= Max(R)
    BY <2>1, <2>2, MinMaxOf
  <2> DEFINE lo == Min(R)  hi == Max(R)
  <2> HIDE DEF lo, hi
  <2>4. ASSUME NEW s \in A
        PROVE  /\ Weight[s] \in Int /\ v[s] \in Int
               /\ lo * Weight[s] <= v[s] /\ v[s] <= hi * Weight[s]
    <3>1. /\ Weight[s] \in Nat /\ Relative(s) \in Nat /\ lo \in Nat /\ hi \in Nat
          /\ lo <= Relative(s) /\ Relative(s) <= hi /\ v[s] = Weight[s] * Relative(s)
      BY <1>2, <1>3, <2>1, <2>3, <2>4 DEF lo, hi
    <3>2. lo * Weight[s] <= Weight[s] * Relative(s) /\ Weight[s] * Relative(s) <= hi * Weight[s]
      BY <3>1, Products
    <3> HIDE DEF v
    <3> QED BY <3>1, <3>2, <1>5
  <2> HIDE DEF v, A
  <2>5. /\ lo * SumFunctionOnSet(Weight, A) <= SumFunctionOnSet(v, A)
        /\ SumFunctionOnSet(v, A) <= hi * SumFunctionOnSet(Weight, A)
    <3>1. lo \in Int /\ hi \in Int
      BY <2>3 DEF lo, hi
    <3> QED BY <1>4, <2>4, <3>1, SumBetween
  <2> QED BY <2>5 DEF WeightOf, lo, hi
<1>8. SumFunctionOnSet(v, A) \in Int
  <2> HIDE DEF v, A
  <2> QED BY <1>4, <1>5, SumInt
<1>9. Covered(WeightOf(A)) => A # {} /\ 100 * WeightOf(A) >= 80 * WeightOf(Searches)
  <2>1. A = {} => WeightOf(A) = 0
    BY WeightSums
  <2> HIDE DEF A
  <2> QED BY <1>4, <2>1 DEF Covered
<1>10. SoundIndex'
  <2>1. DOMAIN r = A
    OBVIOUS
  <2>2. /\ index'.relatives = r /\ index'.weight = WeightOf(A)
        /\ index'.value # None => A # {} /\ index'.value = SumFunctionOnSet(v, A)
        /\ index'.status = "PUBLISHED" =>
             Covered(WeightOf(A)) /\ (A # {} => index'.value = SumFunctionOnSet(v, A))
    BY <1>1, <1>6
  <2>3. {index'.relatives[s] : s \in DOMAIN index'.relatives} = R
    BY <2>2
  <2>4. None \notin Int
    BY PipelineAssumption
  <2> HIDE DEF r, A, v, R
  <2>5. index'.status = "PUBLISHED" =>
          index'.value # None /\ 100 * index'.weight >= 80 * WeightOf(Searches)
    BY <1>8, <1>9, <2>2, <2>4
  <2>6. index'.value # None =>
          Min(R) * index'.weight <= index'.value /\ index'.value <= Max(R) * index'.weight
    BY <1>7, <2>2
  <2>7. /\ DOMAIN index'.relatives \in SUBSET Searches
        /\ \A s \in DOMAIN index'.relatives : \E f \in fares' : f.key[1] = s
        /\ index'.weight = WeightOf(DOMAIN index'.relatives)
    BY <1>1, <1>2, <2>1, <2>2
  <2> QED BY <2>3, <2>5, <2>6, <2>7 DEF SoundIndex
<1>11. Phases'
  BY <1>1 DEF IInv, Phases, Open
<1>12. Sound(obs)' /\ (\A x \in Rows : x[1] \in DOMAIN done)' /\ SoundFares(obs, fares)'
  BY <1>1 DEF IInv, Rows
<1>13. Judged' /\ SoundPrice'
  BY <1>1 DEF IInv, Judged, Rows, SoundPrice
<1> QED BY <1>10, <1>11, <1>12, <1>13 DEF IInv

LEMMA PipelineStep == ASSUME IInv, [Next]_vars PROVE IInv'
<1>1. CASE Begin \/ FailJob \/ Crash \/ Revoke \/ UNCHANGED vars
  BY <1>1, SessionSteps
<1>2. CASE RunJob
  BY <1>2, RunJobStep
<1>3. CASE Canonicalize
  BY <1>3, CanonicalizeStep
<1>4. CASE Close
  BY <1>4, CloseStep
<1>5. CASE Price
  BY <1>5, PriceStep
<1>6. CASE Index
  BY <1>6, IndexStep
<1> QED BY <1>1, <1>2, <1>3, <1>4, <1>5, <1>6 DEF Next

\* The rows, the fares, the prices and the index are sound in every state.
THEOREM PipelineInvariant == Spec => []IInv
<1>1. IInv /\ [Next]_vars => IInv'
  BY PipelineStep
<1> QED BY <1>1, PipelineInit, PTL DEF Spec

\* Every row is of its type and no score leaves 0..100 (the CHECK constraints of
\* fare_observations).
THEOREM TypeCorrect == Spec => []TypeOK
<1>1. IInv => TypeOK
  <2> SUFFICES ASSUME IInv PROVE TypeOK
    OBVIOUS
  <2>1. ASSUME NEW x \in Rows
        PROVE  /\ x[1] \in Jobs
               /\ obs[x].flags \subseteq SoftFlag \cup HardFlag
               /\ obs[x].score \in 0..100 /\ obs[x].status \in Status
               /\ obs[x].included \in BOOLEAN
    <3>1. SoundRow(obs[x]) /\ x[1] \in Jobs
      BY DEF IInv, Sound, Rows
    <3> QED BY <3>1 DEF SoundRow
  <2>2. run \in Nat \cup {None}
    <3>1. IsFiniteSet(Included(obs))
      BY FS_Subset DEF IInv, Sound, Included
    <3> QED BY <3>1, FS_CardinalityType DEF IInv, Judged
  <2>3. price = None \/ price \in [Searches -> Nat \cup {None}]
    BY DEF IInv, SoundPrice
  <2> QED BY <2>1, <2>2, <2>3 DEF TypeOK, IInv, Phases
<1> QED BY <1>1, PipelineInvariant, PTL

\* Through any passes, crashes and resumptions a row counts exactly when its flags never
\* exclude, and no flag is paid for twice (outliers.py, canonical.py).
THEOREM VerdictsAreExplained == Spec => []VerdictExplained
<1>1. IInv => VerdictExplained
  <2> SUFFICES ASSUME IInv, NEW x \in Rows
               PROVE  LET o == obs[x]
                          late == {f \in DOMAIN Penalty : f \in o.flags}
                      IN  /\ o.included <=> o.flags \subseteq SoftFlag
                          /\ o.status = IF o.flags = {} THEN "ELIGIBLE"
                                        ELSE IF o.included THEN "ELIGIBLE_FLAGGED" ELSE "EXCLUDED"
                          /\ o.included \/ late # {} =>
                               o.score = 100 - SumFunctionOnSet(Penalty, late)
    BY DEF VerdictExplained
  <2>1. SoundRow(obs[x])
    BY DEF IInv, Sound, Rows
  <2> QED BY <2>1 DEF SoundRow, Late
<1> QED BY <1>1, PipelineInvariant, PTL

\* The fares account for the rows that count: one role each, a price between two of the
\* quotes it was chosen from, one quote per source, the conflicts marked (canonicalize_run).
THEOREM FaresAreAccounts == Spec => []FaresAccount
<1>1. IInv => FaresAccount
  <2> SUFFICES ASSUME IInv, fares # {} PROVE FaresAccount
    BY DEF FaresAccount
  <2>1. SoundFares(obs, fares)
    BY DEF IInv
  <2>2. ASSUME NEW x \in Rows, obs[x].included
        PROVE  Cardinality({f \in fares : x \in DOMAIN f.role}) = 1
    <3>1. PICK f \in fares : x \in DOMAIN f.role
      BY <2>2 DEF IInv, Judged
    <3>2. {g \in fares : x \in DOMAIN g.role} = {f}
      BY <2>1, <3>1 DEF SoundFares
    <3> QED BY <3>2, FS_Singleton
  <2>3. ASSUME NEW f \in fares
        PROVE  LET counted == {x \in DOMAIN f.role : obs[x].included}
                   used    == UsedIn(f)
               IN  /\ counted = {x \in DOMAIN f.role :
                                   f.role[x] \notin {"DUPLICATE", "REJECTED_UNAPPROVED"}}
                   /\ Cardinality(counted) = f.count
                   /\ Cardinality(used) = Cardinality({Source(x) : x \in used})
                   /\ \E x \in used : obs[x].total <= f.price
                   /\ \E x \in used : obs[x].total >= f.price
                   /\ \A x \in used : f.lowest <= obs[x].total /\ obs[x].total <= f.highest
                   /\ Cardinality({Source(x) : x \in counted}) = f.sources
                   /\ \A x \in counted : f.conflict <=> "SOURCE_CONFLICT" \in obs[x].flags
                   /\ f.conflict <=> f.lowest < f.highest
                   /\ (DirectFirst /\ \E x \in counted : IsDirect(x)) =>
                        \A x \in used : IsDirect(x)
    <3>1. SoundFare(obs, f)
      BY <2>1 DEF SoundFares
    <3> QED BY <3>1 DEF SoundFare, Counted
  <2> QED BY <2>2, <2>3 DEF FaresAccount
<1> QED BY <1>1, PipelineInvariant, PTL

\* Every relative of the index comes from a quote a fare was made of.
LEMMA UsedInCell ==
  ASSUME IInv, NEW f \in fares
  PROVE  \E x \in UsedOn({f.key[1]}) : TRUE
<1>1. SoundFare(obs, f)
  BY DEF IInv, SoundFares
<1>2. PICK x \in UsedIn(f) : obs[x].total <= f.price
  BY <1>1 DEF SoundFare
<1>3. Cell(x) = f.key[1]
  BY <1>1, <1>2 DEF SoundFare, UsedIn
<1> QED BY <1>2, <1>3 DEF UsedOn, Used

\* The index is a mean of its relatives, a published one covers 80 per cent of the
\* weight, and no cell has a relative without a fare (calculate_index).
THEOREM IndexIsAMean == Spec => []IndexIsMean
<1>1. IInv => IndexIsMean
  <2> SUFFICES ASSUME IInv, index # None PROVE IndexIsMean
    BY DEF IndexIsMean
  <2>1. \A s \in DOMAIN index.relatives : UsedOn({s}) # {}
    BY UsedInCell DEF IInv, SoundIndex
  <2> QED BY <2>1 DEF IInv, SoundIndex, IndexIsMean
<1> QED BY <1>1, PipelineInvariant, PTL

-----------------------------------------------------------------------------
(* The reports.                                                             *)

LEMMA RowsSplit ==
  ASSUME NEW S, IsFiniteSet(S), NEW T \in SUBSET S
  PROVE  /\ IsFiniteSet(T) /\ Cardinality(T) \in Nat
         /\ Cardinality(T) = Cardinality(S) - Cardinality(S \ T)
<1>1. IsFiniteSet(T) /\ Cardinality(T) \in Nat /\ Cardinality(S) \in Nat
  BY FS_Subset, FS_CardinalityType
<1>2. S \cap T = T
  OBVIOUS
<1>3. Cardinality(S \ T) = Cardinality(S) - Cardinality(T)
  BY <1>2, FS_Difference
<1> QED BY <1>1, <1>2, <1>3

LEMMA QualityAgrees ==
  ASSUME IInv
  PROVE  /\ QualitySummary.included = QualitySummary.total - QualitySummary.status["EXCLUDED"]
         /\ QualitySummary.flagged = QualitySummary.total - QualitySummary.status["ELIGIBLE"]
<1> DEFINE rows == DOMAIN obs
           A == {x \in rows : obs[x].included}
           B == {x \in rows : obs[x].flags # {}}
           C == {x \in rows : obs[x].status = "EXCLUDED"}
           D == {x \in rows : obs[x].status = "ELIGIBLE"}
<1>1. ASSUME NEW x \in rows
      PROVE  /\ obs[x].included <=> obs[x].status # "EXCLUDED"
             /\ obs[x].flags # {} <=> obs[x].status # "ELIGIBLE"
  <2>1. SoundRow(obs[x])
    BY DEF IInv, Sound
  <2>2. obs[x].flags = {} => obs[x].included
    BY <2>1 DEF SoundRow
  <2> QED BY <2>1, <2>2 DEF SoundRow
<1>2. C = rows \ A /\ D = rows \ B
  BY <1>1
<1>3. /\ QualitySummary.included = Cardinality(A) /\ QualitySummary.flagged = Cardinality(B)
      /\ QualitySummary.total = Cardinality(rows)
      /\ QualitySummary.status["EXCLUDED"] = Cardinality(C)
      /\ QualitySummary.status["ELIGIBLE"] = Cardinality(D)
  BY DEF QualitySummary, Status
<1>4. IsFiniteSet(rows) /\ A \in SUBSET rows /\ B \in SUBSET rows
  BY DEF IInv, Sound
<1> HIDE DEF rows, A, B, C, D
<1>5. /\ Cardinality(A) = Cardinality(rows) - Cardinality(rows \ A)
      /\ Cardinality(B) = Cardinality(rows) - Cardinality(rows \ B)
  BY <1>4, RowsSplit
<1> QED BY <1>2, <1>3, <1>5

\* The rows counted for the run are those of its fares.
LEMMA RunAgrees ==
  ASSUME IInv, run # None
  PROVE  run = SumFunction([f \in fares |-> f.count])
<1> DEFINE S == Included(obs)
           p == [x \in S |-> CHOOSE f \in fares : x \in DOMAIN f.role]
           counts == [f \in fares |-> f.count]
<1>1. SoundFares(obs, fares) /\ IsFiniteSet(fares) /\ IsFiniteSet(S)
  BY FS_Subset DEF IInv, SoundFares, Sound, Included
<1>2. \A x \in S : p[x] \in fares /\ x \in DOMAIN p[x].role
  BY DEF IInv, Judged, Included, Rows
<1>3. ASSUME NEW f \in fares PROVE Cardinality({x \in S : p[x] = f}) = f.count
  <2>1. SoundFare(obs, f)
    BY <1>1 DEF SoundFares
  <2>2. \A x \in DOMAIN f.role : x \in DOMAIN obs
    BY <2>1 DEF SoundFare
  <2>3. \A x \in S : x \in DOMAIN f.role => p[x] = f
    BY <1>1, <1>2 DEF SoundFares
  <2> HIDE DEF p
  <2>4. {x \in S : p[x] = f} = Counted(obs, f)
    BY <1>2, <2>2, <2>3 DEF Counted, Included
  <2> QED BY <2>1, <2>4 DEF SoundFare
<1>4. counts = [f \in fares |-> Cardinality({x \in S : p[x] = f})]
  BY <1>3
<1>5. SumFunction(counts) = SumFunctionOnSet(counts, fares)
  BY DEF SumFunction
<1>6. run = Cardinality(S)
  BY DEF IInv, Judged
<1> HIDE DEF counts, p, S
<1>7. SumFunctionOnSet(counts, fares) = Cardinality(S)
  BY <1>1, <1>2, <1>4, CountByPart
<1>8. run = SumFunction(counts)
  BY <1>5, <1>6, <1>7
<1> QED BY <1>8 DEF counts

LEMMA UsedRows ==
  ASSUME IInv
  PROVE  /\ IsFiniteSet(Used)
         /\ \A x \in Used : Cell(x) \in Searches /\ Source(x) \in Sources
<1>1. ASSUME NEW x \in Used PROVE x \in DOMAIN obs
  <2>1. PICK f \in fares : x \in UsedIn(f)
    BY <1>1 DEF Used
  <2>2. SoundFare(obs, f)
    BY DEF IInv, SoundFares
  <2> QED BY <2>1, <2>2 DEF UsedIn, SoundFare
<1>2. Used \in SUBSET DOMAIN obs
  BY <1>1
<1>3. IsFiniteSet(Used)
  BY <1>2, FS_Subset DEF IInv, Sound
<1>4. ASSUME NEW x \in Used PROVE Cell(x) \in Searches /\ Source(x) \in Sources
  <2>1. x[1] \in Jobs
    BY <1>1, <1>4 DEF IInv, Sound
  <2> QED BY <2>1 DEF Cell, Source, Jobs
<1> QED BY <1>3, <1>4

Routes == {s[1] : s \in Searches}

LEMMA RoutesFinite == IsFiniteSet(Routes)
<1> DEFINE p == [s \in Searches |-> s[1]]
<1>1. Routes = {p[s] : s \in Searches}
  BY DEF Routes
<1> HIDE DEF p
<1> QED BY <1>1, PipelineAssumption, ImageNumber

\* The routes' weights add up to the index's.
LEMMA WeightsAgree ==
  ASSUME IInv, index # None
  PROVE  SumFunction([r \in Routes |-> RouteCoverage(r).weight]) = index.weight
<1> DEFINE D == DOMAIN index.relatives
           p == [s \in D |-> s[1]]
           weights == [r \in Routes |-> RouteCoverage(r).weight]
           sums == [r \in Routes |-> SumFunctionOnSet(Weight, {s \in D : p[s] = r})]
<1>1. D \in SUBSET Searches /\ index.weight = WeightOf(D)
  BY DEF IInv, SoundIndex
<1>2. /\ IsFiniteSet(D) /\ IsFiniteSet(Routes)
      /\ \A s \in D : p[s] \in Routes /\ Weight[s] \in Int
  BY <1>1, WeightSums, RoutesFinite, PipelineAssumption DEF Routes
<1>3. ASSUME NEW r \in Routes PROVE RouteCoverage(r).weight = SumFunctionOnSet(Weight, {s \in D : p[s] = r})
  <2>1. RouteCoverage(r).weight = WeightOf({s \in RouteCells(r) : s \in D})
    BY DEF RouteCoverage
  <2>2. {s \in RouteCells(r) : s \in D} = {s \in D : p[s] = r}
    BY <1>1 DEF RouteCells
  <2> HIDE DEF p, D
  <2> QED BY <2>1, <2>2 DEF WeightOf
<1>4. weights = sums
  BY <1>3
<1>5. SumFunctionOnSet(sums, Routes) = SumFunctionOnSet(Weight, D)
  <2> HIDE DEF p, D
  <2> QED BY <1>2, SumByPart
<1>6. SumFunction(weights) = SumFunctionOnSet(weights, Routes)
  BY DEF SumFunction
<1> HIDE DEF weights, sums, D
<1>7. SumFunction(weights) = index.weight
  BY <1>1, <1>4, <1>5, <1>6 DEF WeightOf
<1> QED BY <1>7 DEF weights

\* By route and by source the same observations are counted.
LEMMA ObservationsAgree ==
  ASSUME IInv
  PROVE  /\ SumFunction([r \in Routes |-> RouteCoverage(r).observations]) = Cardinality(Used)
         /\ SumFunction([s \in Sources |-> Cardinality(UsedFrom(s))]) = Cardinality(Used)
<1> DEFINE p == [x \in Used |-> Cell(x)[1]]
           q == [x \in Used |-> Source(x)]
           byRoute == [r \in Routes |-> RouteCoverage(r).observations]
           bySource == [s \in Sources |-> Cardinality(UsedFrom(s))]
<1>1. /\ IsFiniteSet(Used) /\ IsFiniteSet(Routes) /\ IsFiniteSet(Sources)
      /\ \A x \in Used : p[x] \in Routes /\ q[x] \in Sources
  BY UsedRows, RoutesFinite, PipelineAssumption DEF Routes
<1>2. byRoute = [r \in Routes |-> Cardinality({x \in Used : p[x] = r})]
  <2>1. ASSUME NEW r \in Routes
        PROVE  RouteCoverage(r).observations = Cardinality({x \in Used : p[x] = r})
    <3>1. UsedOn(RouteCells(r)) = {x \in Used : p[x] = r}
      BY UsedRows DEF UsedOn, RouteCells
    <3>2. RouteCoverage(r).observations = Cardinality(UsedOn(RouteCells(r)))
      BY DEF RouteCoverage
    <3> HIDE DEF p
    <3> QED BY <3>1, <3>2
  <2> QED BY <2>1
<1>3. bySource = [s \in Sources |-> Cardinality({x \in Used : q[x] = s})]
  <2>1. ASSUME NEW s \in Sources PROVE UsedFrom(s) = {x \in Used : q[x] = s}
    BY DEF UsedFrom
  <2> HIDE DEF q
  <2> QED BY <2>1
<1>4. SumFunction(byRoute) = SumFunctionOnSet(byRoute, Routes)
  BY DEF SumFunction
<1>5. SumFunction(bySource) = SumFunctionOnSet(bySource, Sources)
  BY DEF SumFunction
<1> HIDE DEF p, q, byRoute, bySource
<1>6. SumFunctionOnSet(byRoute, Routes) = Cardinality(Used)
  BY <1>1, <1>2, CountByPart
<1>7. SumFunctionOnSet(bySource, Sources) = Cardinality(Used)
  BY <1>1, <1>3, CountByPart
<1>8. SumFunction(byRoute) = Cardinality(Used) /\ SumFunction(bySource) = Cardinality(Used)
  BY <1>4, <1>5, <1>6, <1>7
<1> QED BY <1>8 DEF byRoute, bySource

LEMMA SourcesOf ==
  ASSUME NEW X, IsFiniteSet(X), NEW Y \in SUBSET X
  PROVE  /\ Cardinality(UsedSources(X)) \in Nat /\ Cardinality(UsedSources(Y)) \in Nat
         /\ Cardinality(UsedSources(Y)) <= Cardinality(UsedSources(X))
         /\ Y # {} => Cardinality(UsedSources(Y)) >= 1
<1> DEFINE p == [x \in X |-> Source(x)]
<1>1. UsedSources(X) = {p[x] : x \in X} /\ UsedSources(Y) \in SUBSET UsedSources(X)
      /\ (Y # {} => UsedSources(Y) # {})
  BY DEF UsedSources
<1> HIDE DEF p
<1>2. IsFiniteSet(UsedSources(X)) /\ IsFiniteSet(UsedSources(Y))
  <2>1. IsFiniteSet(UsedSources(X))
    BY ONLY IsFiniteSet(X), <1>1, ImageNumber
  <2> QED BY <1>1, <2>1, FS_Subset
<1>3. Cardinality(UsedSources(X)) \in Nat /\ Cardinality(UsedSources(Y)) \in Nat
  BY <1>2, FS_CardinalityType
<1>4. Cardinality(UsedSources(Y)) <= Cardinality(UsedSources(X))
  BY <1>1, <1>2, FS_Subset
<1>5. Y # {} => Cardinality(UsedSources(Y)) # 0
  BY <1>1, <1>2, FS_EmptySet
<1> QED BY <1>3, <1>4, <1>5

\* A route is never more confident than the index for want of sources, and one with a
\* priced cell has a source.
LEMMA CoverageAgrees ==
  ASSUME IInv, index # None, NEW r \in Routes
  PROVE  /\ RouteCoverage(r).missing # RouteCells(r) => RouteCoverage(r).sources >= 1
         /\ IndexConfidence = "LOW" => RouteCoverage(r).confidence \in {"LOW", "INSUFFICIENT"}
<1> DEFINE cells == RouteCells(r)
           available == {s \in cells : s \in DOMAIN index.relatives}
           on == UsedOn(cells)
           sources == Cardinality(UsedSources(on))
<1>1. /\ RouteCoverage(r).missing = cells \ available /\ RouteCoverage(r).sources = sources
      /\ RouteCoverage(r).confidence =
           Confidence(WeightOf(available), WeightOf(cells), sources, available # {})
  BY DEF RouteCoverage
<1>2. IsFiniteSet(Used) /\ on \in SUBSET Used
  BY UsedRows DEF UsedOn
<1>3. /\ sources \in Nat /\ Cardinality(UsedSources(Used)) \in Nat
      /\ sources <= Cardinality(UsedSources(Used)) /\ (on # {} => sources >= 1)
  <2> HIDE DEF on
  <2> QED BY <1>2, SourcesOf
<1>4. ASSUME available # {} PROVE on # {}
  <2>1. PICK s \in available : TRUE
    BY <1>4
  <2>2. PICK f \in fares : f.key[1] = s
    BY <2>1 DEF IInv, SoundIndex
  <2>3. PICK x \in UsedOn({s}) : TRUE
    BY <2>2, UsedInCell
  <2>4. x \in on
    BY <2>1, <2>3 DEF UsedOn
  <2> QED BY <2>4
<1>5. RouteCoverage(r).missing # cells => RouteCoverage(r).sources >= 1
  <2>1. available = {} => cells \ available = cells
    OBVIOUS
  <2> HIDE DEF cells, available, on, sources
  <2> QED BY <1>1, <1>3, <1>4, <2>1
<1>6. IndexConfidence = "LOW" => Cardinality(UsedSources(Used)) < 2
  BY DEF IndexConfidence, Confidence
<1>7. sources < 2 => RouteCoverage(r).confidence \in {"LOW", "INSUFFICIENT"}
  <2> HIDE DEF cells, available, on, sources
  <2> QED BY <1>1 DEF Confidence
<1>8. IndexConfidence = "LOW" => sources < 2
  <2> HIDE DEF sources
  <2> QED BY <1>3, <1>6
<1> QED BY <1>5, <1>7, <1>8

\* The reports agree with each other, with the fares and with the rows
\* (quality_summary, index_coverage_response).
THEOREM ReportsAlwaysAgree == Spec => []ReportsAgree
<1>1. IInv => ReportsAgree
  <2> SUFFICES ASSUME IInv PROVE ReportsAgree
    OBVIOUS
  <2>1. ASSUME index # None
        PROVE  LET routes == {s[1] : s \in Searches}
               IN  /\ SumFunction([r \in routes |-> RouteCoverage(r).weight]) = index.weight
                   /\ SumFunction([r \in routes |-> RouteCoverage(r).observations])
                        = SumFunction([s \in Sources |-> Cardinality(UsedFrom(s))])
                   /\ \A r \in routes : RouteCoverage(r).missing # RouteCells(r) =>
                                          RouteCoverage(r).sources >= 1
                   /\ \A r \in routes : IndexConfidence = "LOW" =>
                                          RouteCoverage(r).confidence \in {"LOW", "INSUFFICIENT"}
    BY <2>1, WeightsAgree, ObservationsAgree, CoverageAgrees DEF Routes
  <2> QED BY <2>1, QualityAgrees, RunAgrees DEF ReportsAgree
<1> QED BY <1>1, PipelineInvariant, PTL

-----------------------------------------------------------------------------
(* What a step may do to a row.                                             *)

LEMMA StepsOfRows ==
  ASSUME IInv, Next, NEW x \in Rows
  PROVE  /\ x \in DOMAIN obs' /\ obs[x].flags \subseteq obs'[x].flags
         /\ obs'[x].score <= obs[x].score
         /\ obs'[x].included => obs[x].included
         /\ "POSSIBLE_OUTLIER" \in obs'[x].flags \ obs[x].flags => x \in Outliers(obs)
         /\ obs[x].included /\ ~obs'[x].included =>
              obs'[x].flags \cap {"DUPLICATE", "UNAPPROVED_SOURCE"} # {}
<1>0. obs[x].score \in Int
  <2>1. SoundRow(obs[x])
    BY DEF IInv, Sound, Rows
  <2> QED BY <2>1 DEF SoundRow
<1>1. CASE Begin \/ FailJob \/ Price \/ Index \/ Crash \/ Revoke
  <2>1. obs' = obs
    BY <1>1 DEF Begin, FailJob, Price, Index, Crash, Revoke
  <2> QED BY <1>0, <2>1 DEF Rows
<1>2. CASE RunJob
  <2>1. x \in DOMAIN obs' /\ obs'[x] = obs[x]
    BY <1>2, RunJobStep
  <2> QED BY <1>0, <2>1
<1>3. CASE Canonicalize
  BY <1>3, CanonicalizeStep
<1>4. CASE Close
  BY <1>4, CloseStep
<1> QED BY <1>1, <1>2, <1>3, <1>4 DEF Next

\* A row once excluded never counts again, and no flag is lifted.
THEOREM ExclusionsAreFinal == Spec => ExclusionIsFinal
<1>1. IInv /\ [Next]_vars =>
        [\A x \in Rows : /\ x \in DOMAIN obs'
                         /\ obs[x].flags \subseteq obs'[x].flags
                         /\ obs'[x].score <= obs[x].score
                         /\ obs'[x].included => obs[x].included]_vars
  BY StepsOfRows
<1> QED BY <1>1, PipelineInvariant, PTL DEF Spec, ExclusionIsFinal

\* A pass flags less than half of a cell's fares and none of a small cell's, and an
\* outlier is excluded only as a duplicate or for its source (flag_statistical_outliers).
THEOREM FewOutliers == Spec => OutliersAreFew
<1>1. ASSUME IInv, Next, NEW s \in Searches
      PROVE  LET counted == Group(obs, s)
                 new     == {x \in Rows : /\ Cell(x) = s
                                          /\ "POSSIBLE_OUTLIER" \in obs'[x].flags \ obs[x].flags}
             IN  /\ new # {} => /\ 2 * Cardinality(new) < Cardinality(counted)
                                /\ Cardinality(counted) >= MinimumGroup
                 /\ \A x \in counted :
                      "POSSIBLE_OUTLIER" \in obs'[x].flags /\ ~obs'[x].included =>
                        obs'[x].flags \cap {"DUPLICATE", "UNAPPROVED_SOURCE"} # {}
  <2> DEFINE counted == Group(obs, s)
             new == {x \in Rows : /\ Cell(x) = s
                                  /\ "POSSIBLE_OUTLIER" \in obs'[x].flags \ obs[x].flags}
             H == OutliersOf(obs, counted)
  <2>1. Sound(obs)
    BY <1>1 DEF IInv
  <2>2. new \in SUBSET H /\ (new # {} => Cardinality(counted) >= MinimumGroup /\ counted # {})
    BY <1>1, <2>1, StepsOfRows, OutliersIn
  <2>3. ASSUME new # {} PROVE 2 * Cardinality(new) < Cardinality(counted)
    <3>1. counted # {}
      BY <2>2, <2>3
    <3>2. 2 * Cardinality(H) < Cardinality(counted)
      BY <2>1, <3>1, OutliersOfAreFew
    <3>3. IsFiniteSet(counted) /\ IsFiniteSet(H)
      <4>1. counted \in SUBSET DOMAIN obs /\ H \in SUBSET counted
        BY DEF Group, OutliersOf
      <4> HIDE DEF counted, H
      <4> QED BY <2>1, <4>1, FS_Subset DEF Sound
    <3> HIDE DEF new, H, counted
    <3>4. /\ Cardinality(new) <= Cardinality(H) /\ Cardinality(new) \in Nat
          /\ Cardinality(H) \in Nat /\ Cardinality(counted) \in Nat
      BY <2>2, <3>3, FS_Subset, FS_CardinalityType
    <3> QED BY <3>2, <3>4
  <2>4. \A x \in counted : x \in Rows /\ obs[x].included
    BY DEF Group, Rows
  <2>5. \A x \in counted :
          "POSSIBLE_OUTLIER" \in obs'[x].flags /\ ~obs'[x].included =>
            obs'[x].flags \cap {"DUPLICATE", "UNAPPROVED_SOURCE"} # {}
    <3> HIDE DEF counted
    <3> QED BY <1>1, <2>4, StepsOfRows
  <2> QED BY <2>2, <2>3, <2>5
<1>2. IInv /\ [Next]_vars =>
        [\A s \in Searches :
           LET counted == Group(obs, s)
               new     == {x \in Rows : /\ Cell(x) = s
                                        /\ "POSSIBLE_OUTLIER" \in obs'[x].flags \ obs[x].flags}
           IN  /\ new # {} => /\ 2 * Cardinality(new) < Cardinality(counted)
                              /\ Cardinality(counted) >= MinimumGroup
               /\ \A x \in counted :
                    "POSSIBLE_OUTLIER" \in obs'[x].flags /\ ~obs'[x].included =>
                      obs'[x].flags \cap {"DUPLICATE", "UNAPPROVED_SOURCE"} # {}]_vars
  BY <1>1
<1> QED BY <1>2, PipelineInvariant, PTL DEF Spec, OutliersAreFew
=============================================================================
