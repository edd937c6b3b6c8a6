-------------------------- MODULE IndexSeriesProofs --------------------------
(***************************************************************************)
(* Proofs about IndexSeries, for every value of its constants: what holds  *)
(* however requests overlap, and what holds when they do not.              *)
(***************************************************************************)
EXTENDS IndexSeriesInvariant, DataLemmas

-----------------------------------------------------------------------------
(* Facts about the operators the actions are built from.                   *)

LEMMA DatesAreFinite ==
  ASSUME NEW D \in SUBSET Dates
  PROVE  IsFiniteSet(D) /\ Cardinality(D) \in Nat /\ D \in SUBSET Nat
BY SeriesAssumption, FS_Subset, FS_CardinalityType

LEMMA CountsType ==
  ASSUME NEW D \in SUBSET Dates
  PROVE  Counts(D) \in Count
<1>1. Published(D) \in SUBSET Dates
  BY DEF Published
<1> QED BY <1>1, DatesAreFinite DEF Counts, Count

LEMMA NoRowsType ==
  /\ NoBase \in BaseRow /\ NoBase.price = 0 /\ NoBase.days = {}
  /\ NoWindow \in Window
  /\ NoIndex \in IndexRow /\ NoIndex.run = NoRun /\ ~NoIndex.complete
  /\ NoCount \in Count
BY DEF NoBase, BaseRow, NoWindow, Window, NoIndex, IndexRow, NoCount, Count

\* A base that is frozen is positive, and the median of BaseDates daily prices.
LEMMA FrozenIsMedian ==
  ASSUME daily \in [Dates -> Runs \cup {NoRun}], NEW i \in Items,
         Cardinality(Candidates(i)) >= BaseDates
  PROVE  Frozen(i) \in BaseRow /\ Frozen(i).price > 0 /\ IsMedian(i, Frozen(i))
<1> DEFINE C == Candidates(i)
           D == Earliest(C, BaseDates)
           f == [d \in D |-> Price(d, i)]
<1>1. C \in SUBSET Dates /\ C \in SUBSET Nat /\ IsFiniteSet(C) /\ Cardinality(C) \in Nat
  <2>1. C \in SUBSET Dates
    BY DEF Candidates
  <2> QED BY <2>1, DatesAreFinite
<1>2. BaseDates \in 0..Cardinality(C) /\ BaseDates # 0
  BY <1>1, SeriesAssumption
<1>3. \A d \in C : Price(d, i) \in Nat /\ Price(d, i) > 0
  BY SeriesAssumption DEF Candidates, Price
<1> HIDE DEF C
<1>4. D \subseteq C /\ Cardinality(D) = BaseDates
  BY <1>1, <1>2, EarliestCorrect
<1>5. IsFiniteSet(D) /\ D # {}
  BY <1>1, <1>2, <1>4, FS_Subset, FS_EmptySet
<1> HIDE DEF D
<1>6. TwiceMedian(f) \in Nat /\ TwiceMedian(f) >= 2
  <2> DEFINE V == {Price(d, i) : d \in D}
  <2>1. V \in SUBSET Nat /\ V # {}
    BY <1>3, <1>4, <1>5
  <2>2. IsFiniteSet(V)
    <3>1. f \in Surjection(D, V)
      BY DEF Surjection
    <3> QED BY <3>1, <1>5, FS_Surjection
  <2>3. PICK hi \in V : \A v \in V : v <= hi
    <3> HIDE DEF V
    <3> QED BY <2>1, <2>2, GreatestNatural
  <2>4. f \in [D -> 1..hi]
    <3>1. \A d \in D : Price(d, i) \in V /\ Price(d, i) \in Nat /\ Price(d, i) > 0
      BY <1>3, <1>4
    <3>2. \A d \in D : Price(d, i) \in 1..hi
      BY <3>1, <2>1, <2>3
    <3> QED BY <3>2
  <2>5. hi \in Nat /\ 1 \in Nat
    BY <2>1
  <2> HIDE DEF f
  <2>6. TwiceMedian(f) \in (2 * 1)..(2 * hi)
    BY <1>5, <2>4, <2>5, MedianBetween
  <2> QED BY <2>5, <2>6
<1>7. MedianPrice(i, D) \in Nat /\ MedianPrice(i, D) > 0
  <2>1. MedianPrice(i, D) = (TwiceMedian(f) + 1) \div 2
    BY DEF MedianPrice
  <2> HIDE DEF f
  <2> QED BY <1>6, <2>1
<1>8. Frozen(i) = [price |-> MedianPrice(i, D), days |-> D]
  BY DEF Frozen, D, C
<1> QED BY <1>1, <1>4, <1>7, <1>8 DEF BaseRow, IsMedian, C

LEMMA SpanType ==
  ASSUME NEW loaded \in [Items -> BaseRow]
  PROVE  Span(loaded) \in Window
<1> DEFINE D == UNION {loaded[i].days : i \in Items}
<1>1. D \in SUBSET Dates
  BY DEF BaseRow
<1>2. D \in SUBSET Nat /\ IsFiniteSet(D)
  BY <1>1, DatesAreFinite
<1>3. Span(loaded) = IF D = {} THEN NoWindow ELSE <<Min(D), Max(D)>>
  BY DEF Span
<1> HIDE DEF D
<1>4. CASE D # {}
  <2>1. \E m \in D : \A n \in D : m <= n
    BY <1>2, <1>4, LeastNatural
  <2>2. \E m \in D : \A n \in D : m >= n
    BY <1>2, <1>4, GreatestNatural
  <2>3. Min(D) \in D
    BY <2>1 DEF Min
  <2>4. Max(D) \in D
    BY <2>2 DEF Max
  <2>5. Min(D) \in Nat /\ Max(D) \in Nat
    BY <1>2, <2>3, <2>4
  <2>6. Span(loaded) = <<Min(D), Max(D)>>
    BY <1>3, <1>4
  <2> HIDE DEF Min, Max
  <2> QED BY <2>5, <2>6 DEF Window
<1>5. CASE D = {}
  BY <1>3, <1>5, NoRowsType
<1> QED BY <1>4, <1>5

\* The k-th date of the backfill exists.
LEMMA BackfillType ==
  Backfill \in Seq(Periods) /\ (Indexed # {} => Backfill # <<>>)
<1> DEFINE n == Cardinality(Indexed)
<1>1. Indexed \in SUBSET Dates
  BY DEF Indexed
<1>2. IsFiniteSet(Indexed) /\ n \in Nat /\ Indexed \in SUBSET Nat
  BY <1>1, DatesAreFinite
<1>3. ASSUME NEW k \in 1..n
      PROVE  \E d \in Indexed : Cardinality({c \in Indexed : c < d}) = k - 1
  <2> DEFINE E == Earliest(Indexed, k)
             F == Earliest(Indexed, k - 1)
  <2>1. k \in 0..n /\ k - 1 \in 0..n
    BY <1>2
  <2>2. E \subseteq Indexed /\ Cardinality(E) = k
    BY <1>2, <2>1, EarliestCorrect
  <2>3. F \subseteq Indexed /\ Cardinality(F) = k - 1
    BY <1>2, <2>1, EarliestCorrect
  <2>4. PICK d \in E : d \notin F
    <3>1. IsFiniteSet(E) /\ IsFiniteSet(F)
      BY <1>2, <2>2, <2>3, FS_Subset
    <3>2. E \subseteq F => k <= k - 1
      BY <3>1, <2>2, <2>3, FS_Subset
    <3> QED BY <3>2
  <2>5. {c \in Indexed : c < d} \in SUBSET Dates
    BY <1>1
  <2>6. Cardinality({c \in Indexed : c < d}) \in Nat
    BY <2>5, DatesAreFinite
  <2>7. d \in Indexed /\ Cardinality({c \in Indexed : c < d}) < k
    BY <2>4 DEF Earliest
  <2>8. ~ (Cardinality({c \in Indexed : c < d}) < k - 1)
    BY <2>4, <2>7 DEF Earliest
  <2>9. Cardinality({c \in Indexed : c < d}) = k - 1
    <3> DEFINE before == Cardinality({c \in Indexed : c < d})
    <3> HIDE DEF before
    <3>1. before \in Nat /\ before < k /\ ~ (before < k - 1)
      BY <2>6, <2>7, <2>8 DEF before
    <3>2. before = k - 1
      BY <3>1, <1>2
    <3> QED BY <3>2 DEF before
  <2> QED BY <2>7, <2>9
<1>4. Len(ByDate) = n /\ ByDate \in [1..n -> Indexed]
  <2>1. ByDate \in [1..n -> Indexed]
    BY <1>3 DEF ByDate
  <2>2. ByDate \in Seq(Indexed)
    BY <2>1, <1>2
  <2> QED BY <2>1, <2>2, <1>2
<1>5. \A d \in Indexed : PeriodsOf[d][1] \in Periods /\ PeriodsOf[d][2] \in Periods
  BY <1>1, SeriesAssumption
<1>6. \A k \in 1..(2 * n) : (k + 1) \div 2 \in 1..n
  BY <1>2
<1>7. Backfill \in [1..(2 * n) -> Periods]
  BY <1>4, <1>5, <1>6 DEF Backfill
<1>8. Backfill \in Seq(Periods)
  BY <1>2, <1>7
<1>9. Indexed # {} => n # 0
  BY <1>2, FS_EmptySet
<1>10. n # 0 => 1 \in DOMAIN Backfill
  BY <1>2, <1>7
<1> QED BY <1>8, <1>9, <1>10

-----------------------------------------------------------------------------
(* Type correctness, overlap or not.                                       *)

USE DEF At, Goto, Refresh, Unowned

LEMMA PeriodsOfType ==
  ASSUME NEW d \in Dates
  PROVE  PeriodsOf[d] \in Seq(Periods) /\ PeriodsOf[d] # <<>> /\ Len(PeriodsOf[d]) = 2
<1>1. PeriodsOf[d] \in Periods \X Periods
  BY SeriesAssumption
<1>2. PICK p \in Periods, q \in Periods : PeriodsOf[d] = <<p, q>>
  BY <1>1
<1> QED BY <1>2

LEMMA TailOfQueue ==
  ASSUME NEW S, NEW q \in Seq(S), q # <<>>
  PROVE  /\ Tail(q) \in Seq(S)
         /\ Len(Tail(q)) = Len(q) - 1
         /\ \A k \in 1..(Len(q) - 1) : Tail(q)[k] = q[k + 1]
         /\ Head(q) = q[1] /\ Len(q) \in Nat \ {0}
         /\ Len(q) > 1 => Tail(q) # <<>>
<1>1. /\ Tail(q) \in Seq(S)
      /\ Len(Tail(q)) = Len(q) - 1
      /\ \A k \in 1..(Len(q) - 1) : Tail(q)[k] = q[k + 1]
      /\ Head(q) = q[1] /\ Len(q) \in Nat \ {0}
  OBVIOUS
<1>2. ASSUME Len(q) > 1 PROVE Tail(q) # <<>>
  <2> DEFINE t == Tail(q)
             n == Len(q)
  <2>1. Len(t) = n - 1 /\ n \in Nat /\ n > 1
    BY <1>1, <1>2
  <2> HIDE DEF t, n
  <2>2. t # <<>>
    BY <2>1
  <2> QED BY <2>2 DEF t
<1> QED BY <1>1, <1>2

LEMMA DayType ==
  ASSUME TypeInv, NEW e \in Sessions, pc[e] \in Asking \cup Owning
  PROVE  req[e] \in Runs /\ Day(e) \in Dates
BY SeriesAssumption DEF TypeInv, RequestReady, Day

LEMMA LeaveType ==
  ASSUME TypeOK, NEW e \in Sessions, Leave(e)
  PROVE  /\ pc' \in [Sessions -> Labels]
         /\ req' \in [Sessions -> Runs \cup {NoRun}]
         /\ basketSeen' \in [Sessions -> Window]
         /\ items' \in [Sessions -> [Items -> BaseRow]]
         /\ unseen' \in [Sessions -> SUBSET Items]
         /\ assigned' \in [Sessions -> SUBSET Items]
         /\ ready' \in [Sessions -> BOOLEAN]
         /\ queue' \in [Sessions -> Seq(Periods)]
         /\ days' \in [Sessions -> SUBSET Dates]
         /\ rows' \in [Sessions -> [Periods -> Count]]
BY NoRowsType DEF TypeOK, Leave, Labels

LEMMA LeaveReady ==
  ASSUME TypeInv, NEW e \in Sessions, Leave(e), UNCHANGED daily
  PROVE  \A f \in Sessions : RequestReady(f)'
BY DEF TypeInv, TypeOK, Leave, RequestReady, Day, Asking, Owning, Refreshing

LEMMA TypeInit == Init => TypeInv
<1> SUFFICES ASSUME Init PROVE TypeInv
  OBVIOUS
<1>1. TypeOK
  <2>1. queue \in [Sessions -> Seq(Periods)]
    BY DEF Init
  <2>2. pc \in [Sessions -> Labels] /\ crashes \in 0..MaxCrashes
    BY SeriesAssumption DEF Init, Labels
  <2>3. /\ base \in [Items -> BaseRow] /\ window \in Window
        /\ index \in [Dates -> IndexRow] /\ period \in [Periods -> Count]
        /\ items \in [Sessions -> [Items -> BaseRow]]
        /\ basketSeen \in [Sessions -> Window]
        /\ rows \in [Sessions -> [Periods -> Count]]
    BY NoRowsType DEF Init
  <2>4. /\ basket \in BOOLEAN
        /\ daily \in [Dates -> Runs \cup {NoRun}]
        /\ inputs \in [Periods -> SUBSET Dates]
        /\ req \in [Sessions -> Runs \cup {NoRun}]
        /\ unseen \in [Sessions -> SUBSET Items]
        /\ assigned \in [Sessions -> SUBSET Items]
        /\ ready \in [Sessions -> BOOLEAN]
        /\ days \in [Sessions -> SUBSET Dates]
    BY DEF Init
  <2> QED BY <2>1, <2>2, <2>3, <2>4 DEF TypeOK
<1>2. \A e \in Sessions : RequestReady(e)
  BY DEF Init, RequestReady, Asking, Owning, Refreshing
<1> QED BY <1>1, <1>2 DEF TypeInv

\* One lemma per action: what it does keeps the types and RequestReady.
LEMMA RecalculateType ==
  ASSUME TypeInv, NEW e \in Sessions, NEW r \in Runs, Recalculate(e, r)
  PROVE  TypeInv'
<1>1. TypeOK'
  BY DEF TypeInv, TypeOK, Recalculate, Labels, store
<1>2. \A f \in Sessions : RequestReady(f)'
  BY DEF TypeInv, TypeOK, Recalculate, RequestReady, Asking, Owning, Refreshing, Day, store
<1> QED BY <1>1, <1>2 DEF TypeInv

LEMMA CreateBasketType ==
  ASSUME TypeInv, NEW e \in Sessions, CreateBasket(e)
  PROVE  TypeInv'
<1>1. CASE ~basket /\ UNCHANGED local
  <2>1. basket' = TRUE /\ pc' = [pc EXCEPT ![e] = "aggregate"]
    BY <1>1 DEF CreateBasket
  <2>2. TypeOK'
    BY <1>1, <2>1 DEF TypeInv, TypeOK, CreateBasket, Labels, local
  <2>3. \A f \in Sessions : RequestReady(f)'
    BY <1>1, <2>1 DEF TypeInv, TypeOK, CreateBasket, RequestReady, Asking, Owning, Refreshing, Day, local
  <2> QED BY <2>2, <2>3 DEF TypeInv
<1>2. CASE basket /\ Leave(e)
  <2>1. TypeOK'
    BY <1>2, LeaveType DEF TypeInv, TypeOK, CreateBasket
  <2>2. UNCHANGED daily
    BY DEF CreateBasket
  <2> QED BY <1>2, <2>1, <2>2, LeaveReady DEF TypeInv
<1> QED BY <1>1, <1>2 DEF CreateBasket

LEMMA FindPricesType ==
  ASSUME TypeInv, NEW e \in Sessions, FindPrices(e)
  PROVE  TypeInv'
<1>1. CASE Leave(e)
  <2>1. TypeOK'
    BY <1>1, LeaveType DEF TypeInv, TypeOK, FindPrices, store
  <2>2. UNCHANGED daily
    BY DEF FindPrices, store
  <2> QED BY <1>1, <2>1, <2>2, LeaveReady DEF TypeInv
<1>2. pc[e] = "aggregate" /\ UNCHANGED <<store, crashes>>
  BY DEF FindPrices
<1>3. CASE UNCHANGED local /\ daily[Day(e)] = req[e] /\ pc' = [pc EXCEPT ![e] = "load"]
  <2>1. TypeOK'
    BY <1>2, <1>3 DEF TypeInv, TypeOK, Labels, local, store
  <2>2. \A f \in Sessions : RequestReady(f)'
    BY <1>2, <1>3 DEF TypeInv, TypeOK, RequestReady, Asking, Owning, Refreshing, Day, local, store
  <2> QED BY <2>1, <2>2 DEF TypeInv
<1>4. CASE UNCHANGED local /\ pc' = [pc EXCEPT ![e] = "insert"]
  <2>1. TypeOK'
    BY <1>2, <1>4 DEF TypeInv, TypeOK, Labels, local, store
  <2>2. \A f \in Sessions : RequestReady(f)'
    BY <1>2, <1>4 DEF TypeInv, TypeOK, RequestReady, Asking, Owning, Refreshing, Day, local, store
  <2> QED BY <2>1, <2>2 DEF TypeInv
<1> QED BY <1>1, <1>3, <1>4 DEF FindPrices

LEMMA InsertPricesType ==
  ASSUME TypeInv, NEW e \in Sessions, InsertPrices(e)
  PROVE  TypeInv'
<1>1. CASE Leave(e) /\ UNCHANGED daily
  <2>1. TypeOK'
    BY <1>1, LeaveType DEF TypeInv, TypeOK, InsertPrices
  <2> QED BY <1>1, <2>1, LeaveReady DEF TypeInv
<1>2. CASE /\ daily[Day(e)] = NoRun
           /\ daily' = [daily EXCEPT ![Day(e)] = req[e]]
           /\ pc' = [pc EXCEPT ![e] = "load"]
           /\ UNCHANGED local
  <2>1. req[e] \in Runs /\ Day(e) \in Dates
    BY DayType DEF InsertPrices, Asking
  <2>2. TypeOK'
    BY <1>2, <2>1 DEF TypeInv, TypeOK, InsertPrices, Labels, local
  <2>3. ASSUME NEW f \in Sessions PROVE RequestReady(f)'
    <3>1. CASE f = e
      BY <1>2, <2>1, <3>1
         DEF TypeInv, TypeOK, RequestReady, Asking, Owning, Refreshing, Day, local
    <3>2. CASE f # e
      <4>1. pc[f] \in Owning => DateOf[req[f]] # DateOf[req[e]]
        BY <1>2, <2>1, SeriesAssumption DEF TypeInv, RequestReady, Day
      <4> QED BY <1>2, <2>1, <3>2, <4>1
             DEF TypeInv, TypeOK, RequestReady, Asking, Owning, Refreshing, Day, local
    <3> QED BY <3>1, <3>2
  <2> QED BY <2>2, <2>3 DEF TypeInv
<1> QED BY <1>1, <1>2 DEF InsertPrices

LEMMA LoadItemsType ==
  ASSUME TypeInv, NEW e \in Sessions, LoadItems(e)
  PROVE  TypeInv'
<1>1. TypeOK'
  BY DEF TypeInv, TypeOK, LoadItems, Labels, store
<1>2. \A f \in Sessions : RequestReady(f)'
  BY DEF TypeInv, TypeOK, LoadItems, RequestReady, Asking, Owning, Refreshing, Day, store
<1> QED BY <1>1, <1>2 DEF TypeInv

\* What a session does with one item: a ripe one is assigned its median.
LEMMA ItemSeen ==
  ASSUME TypeInv, NEW e \in Sessions, NEW i \in Items, SelectBase(e, i)
  PROVE  \/ items' = items /\ assigned' = assigned
         \/ /\ items[e][i].price = 0
            /\ Frozen(i) \in BaseRow /\ Frozen(i).price > 0 /\ IsMedian(i, Frozen(i))
            /\ items' = [items EXCEPT ![e][i] = Frozen(i)]
            /\ assigned' = [assigned EXCEPT ![e] = assigned[e] \cup {i}]
<1>1. CASE ~Ripe(items[e][i], i)
  BY <1>1 DEF SelectBase
<1>2. CASE Ripe(items[e][i], i)
  <2>1. items[e][i].price = 0 /\ Cardinality(Candidates(i)) >= BaseDates
    BY <1>2 DEF Ripe
  <2>2. Frozen(i) \in BaseRow /\ Frozen(i).price > 0 /\ IsMedian(i, Frozen(i))
    BY <2>1, FrozenIsMedian DEF TypeInv, TypeOK
  <2>3. /\ items' = [items EXCEPT ![e][i] = Frozen(i)]
        /\ assigned' = [assigned EXCEPT ![e] = assigned[e] \cup {i}]
    BY <1>2 DEF SelectBase, TypeInv, TypeOK
  <2> QED BY <2>1, <2>2, <2>3
<1> QED BY <1>1, <1>2

LEMMA SelectBaseType ==
  ASSUME TypeInv, NEW e \in Sessions, NEW i \in Items, SelectBase(e, i)
  PROVE  TypeInv'
<1>1. items \in [Sessions -> [Items -> BaseRow]] /\ assigned \in [Sessions -> SUBSET Items]
  BY DEF TypeInv, TypeOK
<1>2. items' \in [Sessions -> [Items -> BaseRow]] /\ assigned' \in [Sessions -> SUBSET Items]
  <2>1. CASE items' = items /\ assigned' = assigned
    BY <1>1, <2>1
  <2>2. CASE /\ Frozen(i) \in BaseRow
             /\ items' = [items EXCEPT ![e][i] = Frozen(i)]
             /\ assigned' = [assigned EXCEPT ![e] = assigned[e] \cup {i}]
    <3> DEFINE row == Frozen(i)
    <3> HIDE DEF row
    <3>1. row \in BaseRow /\ items' = [items EXCEPT ![e][i] = row]
      BY <2>2 DEF row
    <3>2. items' \in [Sessions -> [Items -> BaseRow]]
      BY <1>1, <3>1
    <3>3. assigned' \in [Sessions -> SUBSET Items]
      BY <1>1, <2>2
    <3> QED BY <3>2, <3>3
  <2> QED BY <2>1, <2>2, ItemSeen
<1>3. unseen' \in [Sessions -> SUBSET Items]
  BY DEF SelectBase, TypeInv, TypeOK
<1>4. UNCHANGED <<store, pc, req, basketSeen, ready, queue, days, rows, crashes>>
  BY DEF SelectBase
<1>5. TypeOK'
  BY <1>2, <1>3, <1>4 DEF TypeInv, TypeOK, store
<1>6. \A f \in Sessions : RequestReady(f)'
  BY <1>4 DEF TypeInv, TypeOK, RequestReady, Day, store
<1> QED BY <1>5, <1>6 DEF TypeInv

LEMMA CommitBaseType ==
  ASSUME TypeInv, NEW e \in Sessions, CommitBase(e)
  PROVE  TypeInv'
<1>1. TypeOK'
  <2>1. Span(items[e]) \in Window
    BY SpanType DEF TypeInv, TypeOK
  <2>2. window' \in Window
    BY <2>1 DEF TypeInv, TypeOK, CommitBase
  <2>3. base' \in [Items -> BaseRow]
    BY DEF TypeInv, TypeOK, CommitBase
  <2>4. basketSeen' \in [Sessions -> Window]
    BY <2>2 DEF TypeInv, TypeOK, CommitBase
  <2>5. ready' \in [Sessions -> BOOLEAN]
    <3>1. Complete(e) \in BOOLEAN /\ ready' = [ready EXCEPT ![e] = Complete(e)]
      BY DEF Complete, CommitBase
    <3> QED BY <3>1 DEF TypeInv, TypeOK
  <2> HIDE DEF Complete
  <2> QED BY <2>2, <2>3, <2>4, <2>5 DEF TypeInv, TypeOK, CommitBase, Labels
<1>2. \A f \in Sessions : RequestReady(f)'
  BY DEF TypeInv, TypeOK, CommitBase, RequestReady, Asking, Owning, Refreshing, Day
<1> QED BY <1>1, <1>2 DEF TypeInv

LEMMA FindIndexType ==
  ASSUME TypeInv, NEW e \in Sessions, FindIndex(e)
  PROVE  TypeInv'
<1>1. req[e] \in Runs /\ Day(e) \in Dates
  BY DayType DEF FindIndex, Owning
<1>2. CASE Leave(e)
  <2>1. TypeOK'
    BY <1>2, LeaveType DEF TypeInv, TypeOK, FindIndex, store
  <2>2. UNCHANGED daily
    BY DEF FindIndex, store
  <2> QED BY <1>2, <2>1, <2>2, LeaveReady DEF TypeInv
<1>3. CASE /\ queue' = [queue EXCEPT ![e] = PeriodsOf[Day(e)]]
           /\ pc' = [pc EXCEPT ![e] = "days"]
           /\ UNCHANGED <<req, basketSeen, items, unseen, assigned, ready, days, rows>>
  <2>1. PeriodsOf[Day(e)] \in Seq(Periods) /\ PeriodsOf[Day(e)] # <<>>
    BY <1>1, PeriodsOfType
  <2>2. TypeOK'
    BY <1>3, <2>1 DEF TypeInv, TypeOK, FindIndex, Labels, store
  <2>3. \A f \in Sessions : RequestReady(f)'
    BY <1>3, <2>1 DEF TypeInv, TypeOK, FindIndex, RequestReady, Asking, Owning, Refreshing, Day, store
  <2> QED BY <2>2, <2>3 DEF TypeInv
<1>4. CASE /\ items' = [items EXCEPT ![e] = base]
           /\ pc' = [pc EXCEPT ![e] = "publish"]
           /\ UNCHANGED <<req, basketSeen, unseen, assigned, ready, queue, days, rows>>
  <2>1. TypeOK'
    BY <1>4 DEF TypeInv, TypeOK, FindIndex, Labels, store
  <2>2. \A f \in Sessions : RequestReady(f)'
    BY <1>4 DEF TypeInv, TypeOK, FindIndex, RequestReady, Asking, Owning, Refreshing, Day, store
  <2> QED BY <2>1, <2>2 DEF TypeInv
<1> QED BY <1>2, <1>3, <1>4 DEF FindIndex

LEMMA InsertIndexType ==
  ASSUME TypeInv, NEW e \in Sessions, InsertIndex(e)
  PROVE  TypeInv'
<1>1. req[e] \in Runs /\ Day(e) \in Dates
  BY DayType DEF InsertIndex, Owning
<1>2. CASE Leave(e) /\ UNCHANGED index
  <2>1. TypeOK'
    BY <1>2, LeaveType DEF TypeInv, TypeOK, InsertIndex
  <2>2. UNCHANGED daily
    BY DEF InsertIndex
  <2> QED BY <1>2, <2>1, <2>2, LeaveReady DEF TypeInv
<1>3. CASE /\ index' = [index EXCEPT ![Day(e)] = NewIndex(e)]
           /\ queue' = [queue EXCEPT ![e] = PeriodsOf[Day(e)]]
           /\ pc' = [pc EXCEPT ![e] = "days"]
           /\ UNCHANGED <<req, basketSeen, items, unseen, assigned, ready, days, rows>>
  <2>1. PeriodsOf[Day(e)] \in Seq(Periods) /\ PeriodsOf[Day(e)] # <<>>
    BY <1>1, PeriodsOfType
  <2>2. NewIndex(e) \in IndexRow
    BY <1>1 DEF NewIndex, IndexRow, TypeInv, TypeOK, BaseRow
  <2>3. TypeOK'
    BY <1>3, <2>1, <2>2 DEF TypeInv, TypeOK, InsertIndex, Labels
  <2>4. \A f \in Sessions : RequestReady(f)'
    BY <1>3, <2>1 DEF TypeInv, TypeOK, InsertIndex, RequestReady, Asking, Owning, Refreshing, Day
  <2> QED BY <2>3, <2>4 DEF TypeInv
<1> QED BY <1>2, <1>3 DEF InsertIndex

LEMMA RefreshAllType ==
  ASSUME TypeInv, NEW e \in Sessions, RefreshAll(e)
  PROVE  TypeInv'
<1>1. Backfill \in Seq(Periods) /\ Backfill # <<>>
  BY BackfillType DEF RefreshAll
<1>2. queue' = [queue EXCEPT ![e] = Backfill] /\ pc' = [pc EXCEPT ![e] = "days"]
      /\ UNCHANGED <<store, req, basketSeen, items, unseen, assigned, ready, days, rows, crashes>>
  BY DEF RefreshAll
<1>3. TypeOK'
  BY <1>1, <1>2 DEF TypeInv, TypeOK, Labels, store
<1>4. \A f \in Sessions : RequestReady(f)'
  BY <1>1, <1>2 DEF TypeInv, TypeOK, RequestReady, Asking, Owning, Refreshing, Day, store
<1> QED BY <1>3, <1>4 DEF TypeInv

LEMMA QueueHead ==
  ASSUME TypeInv, NEW e \in Sessions, pc[e] \in Refreshing
  PROVE  Head(queue[e]) \in Periods
BY DEF TypeInv, TypeOK, RequestReady

LEMMA DaysOfType == \A p : DaysOf(p) \in SUBSET Dates
BY DEF DaysOf, Indexed

LEMMA SelectDaysType ==
  ASSUME TypeInv, NEW e \in Sessions, SelectDays(e)
  PROVE  TypeInv'
<1>1. DaysOf(Head(queue[e])) \in SUBSET Dates
  BY DaysOfType
<1>2. TypeOK'
  BY <1>1 DEF TypeInv, TypeOK, SelectDays, Labels, store
<1>3. \A f \in Sessions : RequestReady(f)'
  BY DEF TypeInv, TypeOK, SelectDays, RequestReady, Asking, Owning, Refreshing, Day, store
<1> QED BY <1>2, <1>3 DEF TypeInv

LEMMA LoadPeriodType ==
  ASSUME TypeInv, NEW e \in Sessions, LoadPeriod(e)
  PROVE  TypeInv'
<1>1. Head(queue[e]) \in Periods
  BY QueueHead DEF LoadPeriod, Refreshing
<1>2. rows' \in [Sessions -> [Periods -> Count]]
  BY <1>1 DEF TypeInv, TypeOK, LoadPeriod
<1>3. TypeOK'
  BY <1>2 DEF TypeInv, TypeOK, LoadPeriod, Labels, store
<1>4. \A f \in Sessions : RequestReady(f)'
  BY DEF TypeInv, TypeOK, LoadPeriod, RequestReady, Asking, Owning, Refreshing, Day, store
<1> QED BY <1>3, <1>4 DEF TypeInv

LEMMA WritePeriodType ==
  ASSUME TypeInv, NEW e \in Sessions, WritePeriod(e)
  PROVE  TypeInv'
<1> DEFINE p == Head(queue[e])
           new == Counts(days[e])
<1>1. p \in Periods /\ queue[e] \in Seq(Periods) /\ queue[e] # <<>>
  BY QueueHead DEF WritePeriod, Refreshing, TypeInv, TypeOK, RequestReady
<1>2. new \in Count
  BY CountsType DEF TypeInv, TypeOK
<1> HIDE DEF new
<1>3. CASE Leave(e) /\ UNCHANGED <<period, inputs>>
  <2>1. TypeOK'
    BY <1>3, LeaveType DEF TypeInv, TypeOK, WritePeriod
  <2>2. UNCHANGED daily
    BY DEF WritePeriod
  <2> QED BY <1>3, <2>1, <2>2, LeaveReady DEF TypeInv
<1>4. CASE /\ period' = [period EXCEPT ![p] =
                [observed |-> Column(rows[e][p].observed, new.observed, @.observed),
                 valued   |-> Column(rows[e][p].valued, new.valued, @.valued)]]
           /\ inputs' = [inputs EXCEPT ![p] = days[e]]
           /\ IF Len(queue[e]) > 1
              THEN /\ rows' = [rows EXCEPT ![e][p] = period'[p]]
                   /\ queue' = [queue EXCEPT ![e] = Tail(queue[e])]
                   /\ pc' = [pc EXCEPT ![e] = "days"]
                   /\ UNCHANGED <<req, basketSeen, items, unseen, assigned, ready, days>>
              ELSE Leave(e)
  <2>1. period' \in [Periods -> Count]
    BY <1>1, <1>2, <1>4 DEF TypeInv, TypeOK, Column, Count
  <2>2. inputs' \in [Periods -> SUBSET Dates]
    BY <1>1, <1>4 DEF TypeInv, TypeOK
  <2>3. UNCHANGED <<basket, base, window, daily, index, crashes>>
    BY DEF WritePeriod
  <2>4. CASE Leave(e)
    <3>1. TypeOK'
      BY <2>1, <2>2, <2>3, <2>4, LeaveType DEF TypeInv, TypeOK
    <3> QED BY <2>3, <2>4, <3>1, LeaveReady DEF TypeInv
  <2>5. CASE Len(queue[e]) > 1
    <3>1. Tail(queue[e]) \in Seq(Periods) /\ Tail(queue[e]) # <<>>
      BY <1>1, <2>5, TailOfQueue
    <3>2. TypeOK'
      <4>1. rows' \in [Sessions -> [Periods -> Count]]
        <5>1. rows' = [rows EXCEPT ![e][p] = period'[p]] /\ period'[p] \in Count
          BY <1>1, <1>4, <2>1, <2>5
        <5> HIDE DEF p
        <5> QED BY <1>1, <5>1 DEF TypeInv, TypeOK
      <4>2. /\ queue' = [queue EXCEPT ![e] = Tail(queue[e])]
            /\ pc' = [pc EXCEPT ![e] = "days"]
            /\ UNCHANGED <<req, basketSeen, items, unseen, assigned, ready, days>>
        BY <1>4, <2>5
      <4> QED BY <2>1, <2>2, <2>3, <3>1, <4>1, <4>2 DEF TypeInv, TypeOK, Labels
    <3>3. \A f \in Sessions : RequestReady(f)'
      BY <1>4, <2>3, <2>5, <3>1
         DEF TypeInv, TypeOK, RequestReady, Asking, Owning, Refreshing, Day
    <3> QED BY <3>2, <3>3 DEF TypeInv
  <2> QED BY <1>4, <2>4, <2>5
<1> QED BY <1>3, <1>4 DEF WritePeriod, new

LEMMA CrashType ==
  ASSUME TypeInv, NEW e \in Sessions, Crash(e)
  PROVE  TypeInv'
<1>1. TypeOK'
  BY LeaveType, SeriesAssumption DEF TypeInv, TypeOK, Crash, store
<1>2. UNCHANGED daily
  BY DEF Crash, store
<1> QED BY <1>1, <1>2, LeaveReady DEF TypeInv, Crash

LEMMA TypeStep == TypeInv /\ [Next]_vars => TypeInv'
<1> SUFFICES ASSUME TypeInv, [Next]_vars PROVE TypeInv'
  OBVIOUS
<1>1. CASE UNCHANGED vars
  BY <1>1 DEF TypeInv, TypeOK, RequestReady, Day, vars, store, local
<1>2. CASE Next
  BY <1>2, RecalculateType, CreateBasketType, FindPricesType, InsertPricesType, LoadItemsType,
     SelectBaseType, CommitBaseType, FindIndexType, InsertIndexType, RefreshAllType,
     SelectDaysType, LoadPeriodType, WritePeriodType, CrashType DEF Next, Step
<1> QED BY <1>1, <1>2

\* Every row, and everything a session holds, keeps its type: prices, counts and dates
\* are always defined, the median and the backfill included.
THEOREM TypeCorrect == Spec => []TypeOK
<1>1. Spec => []TypeInv
  BY TypeInit, TypeStep, PTL DEF Spec
<1>2. TypeInv => TypeOK
  BY DEF TypeInv
<1> QED BY <1>1, <1>2, PTL

-----------------------------------------------------------------------------
(* The series, overlap or not.                                             *)

LEMMA SeriesWriters ==
  ASSUME [Next]_vars
  PROVE  \/ UNCHANGED <<daily, index>>
         \/ \E e \in Sessions : InsertPrices(e) \/ InsertIndex(e)
BY DEF Next, Step, vars, store, Recalculate, RefreshAll, CreateBasket, FindPrices, LoadItems,
     SelectBase, CommitBase, FindIndex, SelectDays, LoadPeriod, WritePeriod, Crash

\* A price row is inserted where there is none, for a run of its date.
LEMMA PricesWritten ==
  ASSUME TypeInv, NEW e \in Sessions, InsertPrices(e)
  PROVE  /\ index' = index
         /\ \/ daily' = daily
            \/ /\ daily[Day(e)] = NoRun /\ Day(e) \in Dates
               /\ daily' = [daily EXCEPT ![Day(e)] = req[e]]
               /\ req[e] \in Runs /\ DateOf[req[e]] = Day(e)
<1>1. req[e] \in Runs /\ Day(e) \in Dates
  BY DayType DEF InsertPrices, Asking
<1> QED BY <1>1 DEF InsertPrices, Day

\* An index is inserted where there is none, for the run that owns the date.
LEMMA IndexWritten ==
  ASSUME TypeInv, NEW e \in Sessions, InsertIndex(e)
  PROVE  /\ daily' = daily
         /\ \/ index' = index
            \/ /\ index[Day(e)] = NoIndex /\ Day(e) \in Dates
               /\ index' = [index EXCEPT ![Day(e)] = NewIndex(e)]
               /\ req[e] \in Runs /\ daily[Day(e)] = req[e]
<1>1. req[e] \in Runs /\ Day(e) \in Dates
  BY DayType DEF InsertIndex, Owning
<1>2. daily[Day(e)] = req[e]
  BY DEF InsertIndex, TypeInv, RequestReady, Owning
<1> QED BY <1>1, <1>2 DEF InsertIndex

LEMMA SeriesGrows ==
  ASSUME TypeInv, [Next]_vars, NEW d \in Dates
  PROVE  /\ daily[d] # NoRun => daily'[d] = daily[d]
         /\ index[d] # NoIndex => index'[d] = index[d]
<1>1. CASE UNCHANGED <<daily, index>>
  BY <1>1
<1>2. ASSUME NEW e \in Sessions, InsertPrices(e)
      PROVE  /\ daily[d] # NoRun => daily'[d] = daily[d]
             /\ index[d] # NoIndex => index'[d] = index[d]
  BY <1>2, PricesWritten DEF TypeInv, TypeOK
<1>3. ASSUME NEW e \in Sessions, InsertIndex(e)
      PROVE  /\ daily[d] # NoRun => daily'[d] = daily[d]
             /\ index[d] # NoIndex => index'[d] = index[d]
  BY <1>3, IndexWritten DEF TypeInv, TypeOK
<1> QED BY <1>1, <1>2, <1>3, SeriesWriters

LEMMA OwnedStep == TypeInv /\ DatesAreOwned /\ [Next]_vars => DatesAreOwned'
<1> SUFFICES ASSUME TypeInv, DatesAreOwned, [Next]_vars PROVE DatesAreOwned'
  OBVIOUS
<1>1. CASE UNCHANGED <<daily, index>>
  BY <1>1 DEF DatesAreOwned
<1>2. ASSUME NEW e \in Sessions, InsertPrices(e) PROVE DatesAreOwned'
  <2>1. index' = index
    BY <1>2, PricesWritten
  <2>2. CASE daily' = daily
    BY <2>1, <2>2 DEF DatesAreOwned
  <2>3. CASE /\ daily[Day(e)] = NoRun /\ Day(e) \in Dates
             /\ daily' = [daily EXCEPT ![Day(e)] = req[e]]
             /\ req[e] \in Runs /\ DateOf[req[e]] = Day(e)
    <3>1. \A d \in Dates : daily'[d] = IF d = Day(e) THEN req[e] ELSE daily[d]
      BY <2>3 DEF TypeInv, TypeOK
    <3> QED BY <2>1, <2>3, <3>1 DEF DatesAreOwned
  <2> QED BY <1>2, <2>2, <2>3, PricesWritten
<1>3. ASSUME NEW e \in Sessions, InsertIndex(e) PROVE DatesAreOwned'
  <2>1. daily' = daily
    BY <1>3, IndexWritten
  <2>2. CASE index' = index
    BY <2>1, <2>2 DEF DatesAreOwned
  <2>3. CASE /\ index[Day(e)] = NoIndex /\ Day(e) \in Dates
             /\ index' = [index EXCEPT ![Day(e)] = NewIndex(e)]
             /\ req[e] \in Runs /\ daily[Day(e)] = req[e]
    <3>1. \A d \in Dates : index'[d] = IF d = Day(e) THEN NewIndex(e) ELSE index[d]
      BY <2>3 DEF TypeInv, TypeOK
    <3>2. NewIndex(e).run = req[e]
      BY DEF NewIndex
    <3> QED BY <2>1, <2>3, <3>1, <3>2, SeriesAssumption DEF DatesAreOwned
  <2> QED BY <1>3, <2>2, <2>3, IndexWritten
<1> QED BY <1>1, <1>2, <1>3, SeriesWriters

\* The index of a date, and its prices, come from one run of the date, and neither is
\* ever replaced: whatever requests overlap, and wherever they die.
THEOREM IndexOwnsItsPrices == Spec => []IndexMatchesPrices
<1>1. Init => DatesAreOwned
  BY DEF Init, DatesAreOwned
<1>2. Spec => [](TypeInv /\ DatesAreOwned)
  BY <1>1, TypeInit, TypeStep, OwnedStep, PTL DEF Spec
<1>3. TypeInv /\ DatesAreOwned => IndexMatchesPrices
  BY DEF DatesAreOwned, IndexMatchesPrices
<1> QED BY <1>2, <1>3, PTL

THEOREM PublishedForGood == Spec => SeriesOnlyGrows
<1>1. TypeInv /\ [Next]_vars =>
        [\A d \in Dates : /\ daily[d] # NoRun => daily'[d] = daily[d]
                          /\ index[d] # NoIndex => index'[d] = index[d]]_vars
  BY SeriesGrows
<1> QED BY <1>1, TypeInit, TypeStep, PTL DEF Spec, SeriesOnlyGrows

-----------------------------------------------------------------------------
(* The base, overlap or not.                                               *)

\* IsMedian with the daily prices as a parameter.
MedianRow(prices, i, row) ==
  /\ Cardinality(row.days) = BaseDates
  /\ row.days \subseteq {d \in Dates : prices[d] \in Eligible /\ PriceOf[prices[d]][i] > 0}
  /\ row.price = (TwiceMedian([d \in row.days |-> PriceOf[prices[d]][i]]) + 1) \div 2

\* More daily prices leave a median what it is: its dates are still candidates.
LEMMA MedianKept ==
  ASSUME NEW older, NEW newer,
         \A d \in Dates : older[d] # NoRun => newer[d] = older[d],
         NEW i, NEW row, MedianRow(older, i, row)
  PROVE  MedianRow(newer, i, row)
<1>1. \A d \in row.days : d \in Dates /\ newer[d] = older[d]
  BY SeriesAssumption DEF MedianRow
<1>2. [d \in row.days |-> PriceOf[newer[d]][i]] = [d \in row.days |-> PriceOf[older[d]][i]]
  BY <1>1
<1>3. row.price = (TwiceMedian([d \in row.days |-> PriceOf[newer[d]][i]]) + 1) \div 2
  BY <1>2 DEF MedianRow
<1> QED BY <1>1, <1>3 DEF MedianRow

LEMMA IsMedianIs ==
  \A i, row : IsMedian(i, row) <=> MedianRow(daily, i, row)
BY DEF IsMedian, MedianRow, Candidates, MedianPrice, Price

\* What the base and the sessions hold, as a fact about daily, base, items.
MedianState ==
  /\ \A i \in Items : base[i].price > 0 => MedianRow(daily, i, base[i])
  /\ \A e \in Sessions : \A i \in assigned[e] :
       pc[e] = "select" /\ MedianRow(daily, i, items[e][i])

LEMMA MedianStateIs == MedianState <=> BaseIsMedian /\ AssignedAreMedians
<1>1. BaseIsMedian <=> \A i \in Items : base[i].price > 0 => IsMedian(i, base[i])
  BY DEF BaseIsMedian, IsMedian
<1> QED BY <1>1, IsMedianIs DEF MedianState, AssignedAreMedians

\* The actions that change neither the base nor what is assigned.
LEMMA MedianQuiet ==
  ASSUME TypeInv, MedianState, [Next]_vars, UNCHANGED base, NEW e \in Sessions,
         pc[e] # "select" \/ assigned'[e] = {},
         \A f \in Sessions \ {e} : /\ assigned'[f] = assigned[f]
                                   /\ items'[f] = items[f]
                                   /\ pc'[f] = pc[f],
         assigned'[e] \in {assigned[e], {}}
  PROVE  MedianState'
<1>1. \A d \in Dates : daily[d] # NoRun => daily'[d] = daily[d]
  BY SeriesGrows
<1>2. \A i \in Items : base'[i].price > 0 => MedianRow(daily', i, base'[i])
  BY <1>1, MedianKept DEF MedianState
<1>3. assigned'[e] = {}
  BY DEF MedianState
<1>4. ASSUME NEW f \in Sessions, NEW i \in assigned'[f]
      PROVE  pc'[f] = "select" /\ MedianRow(daily', i, items'[f][i])
  <2>1. f # e
    BY <1>3, <1>4
  <2>2. pc[f] = "select" /\ MedianRow(daily, i, items[f][i])
    BY <2>1, <1>4 DEF MedianState
  <2> QED BY <1>1, <2>1, <2>2, MedianKept
<1> QED BY <1>2, <1>4 DEF MedianState

\* What every action leaves alone: the other sessions.
LEMMA OtherSessions ==
  ASSUME TypeInv, NEW e \in Sessions, NEW f \in Sessions, f # e,
         Step(e) \/ RefreshAll(e) \/ Crash(e) \/ \E r \in Runs : Recalculate(e, r)
  PROVE  /\ pc'[f] = pc[f] /\ req'[f] = req[f] /\ basketSeen'[f] = basketSeen[f]
         /\ items'[f] = items[f] /\ assigned'[f] = assigned[f] /\ ready'[f] = ready[f]
         /\ queue'[f] = queue[f] /\ days'[f] = days[f] /\ rows'[f] = rows[f]
<1> DEFINE Same == /\ pc'[f] = pc[f] /\ req'[f] = req[f] /\ basketSeen'[f] = basketSeen[f]
                   /\ items'[f] = items[f] /\ assigned'[f] = assigned[f] /\ ready'[f] = ready[f]
                   /\ queue'[f] = queue[f] /\ days'[f] = days[f] /\ rows'[f] = rows[f]
<1>1. Leave(e) => Same
  BY DEF Leave, TypeInv, TypeOK
<1>2. ASSUME NEW r \in Runs, Recalculate(e, r) PROVE Same
  BY <1>2 DEF Recalculate, TypeInv, TypeOK
<1>3. CreateBasket(e) => Same
  BY <1>1 DEF CreateBasket, TypeInv, TypeOK, local
<1>4. FindPrices(e) => Same
  BY <1>1 DEF FindPrices, TypeInv, TypeOK, local
<1>5. InsertPrices(e) => Same
  BY <1>1 DEF InsertPrices, TypeInv, TypeOK, local
<1>6. LoadItems(e) \/ (\E i \in Items : SelectBase(e, i)) \/ CommitBase(e) => Same
  BY DEF LoadItems, SelectBase, CommitBase, TypeInv, TypeOK
<1>7. FindIndex(e) => Same
  BY <1>1 DEF FindIndex, TypeInv, TypeOK
<1>8. InsertIndex(e) => Same
  BY <1>1 DEF InsertIndex, TypeInv, TypeOK
<1>9. RefreshAll(e) \/ SelectDays(e) \/ LoadPeriod(e) => Same
  BY DEF RefreshAll, SelectDays, LoadPeriod, TypeInv, TypeOK
<1>10. WritePeriod(e) => Same
  <2> HIDE DEF Same
  <2>1. SUFFICES ASSUME WritePeriod(e), ~Leave(e) PROVE Same
    BY <1>1
  <2>2. /\ rows' = [rows EXCEPT ![e][Head(queue[e])] = period'[Head(queue[e])]]
        /\ queue' = [queue EXCEPT ![e] = Tail(queue[e])]
        /\ pc' = [pc EXCEPT ![e] = "days"]
        /\ UNCHANGED <<req, basketSeen, items, unseen, assigned, ready, days>>
    BY <2>1 DEF WritePeriod
  <2> QED BY <2>2 DEF Same, TypeInv, TypeOK
<1>11. Crash(e) => Same
  BY <1>1 DEF Crash
<1> QED BY <1>1, <1>2, <1>3, <1>4, <1>5, <1>6, <1>7, <1>8, <1>9, <1>10, <1>11 DEF Step

\* Bases are assigned by SelectBase and stored by CommitBase, by nothing else.
LEMMA BaseWriters ==
  ASSUME TypeInv, NEW e \in Sessions,
         Step(e) \/ RefreshAll(e) \/ Crash(e) \/ \E r \in Runs : Recalculate(e, r),
         \A i \in Items : ~SelectBase(e, i), ~CommitBase(e)
  PROVE  /\ base' = base
         /\ assigned'[e] \in {assigned[e], {}}
         /\ pc[e] # "select" \/ assigned'[e] = {}
<1> DEFINE Quiet == /\ base' = base
                    /\ assigned'[e] \in {assigned[e], {}}
                    /\ pc[e] # "select" \/ assigned'[e] = {}
<1>1. Leave(e) => assigned'[e] = {}
  BY DEF Leave, TypeInv, TypeOK
<1>2. ASSUME NEW r \in Runs, Recalculate(e, r) PROVE Quiet
  BY <1>2 DEF Recalculate, store
<1>3. CreateBasket(e) => Quiet
  BY <1>1 DEF CreateBasket, local
<1>4. FindPrices(e) => Quiet
  BY <1>1 DEF FindPrices, local, store
<1>5. InsertPrices(e) => Quiet
  BY <1>1 DEF InsertPrices, local
<1>6. LoadItems(e) => Quiet
  BY DEF LoadItems, store, TypeInv, TypeOK
<1>7. FindIndex(e) => Quiet
  BY <1>1 DEF FindIndex, store
<1>8. InsertIndex(e) => Quiet
  BY <1>1 DEF InsertIndex
<1>9. RefreshAll(e) \/ SelectDays(e) \/ LoadPeriod(e) => Quiet
  BY DEF RefreshAll, SelectDays, LoadPeriod, store
<1>10. WritePeriod(e) => Quiet
  BY <1>1 DEF WritePeriod
<1>11. Crash(e) => Quiet
  BY <1>1 DEF Crash, store
<1> QED BY <1>2, <1>3, <1>4, <1>5, <1>6, <1>7, <1>8, <1>9, <1>10, <1>11 DEF Step

LEMMA MedianStep == TypeInv /\ MedianState /\ [Next]_vars => MedianState'
<1> SUFFICES ASSUME TypeInv, MedianState, [Next]_vars PROVE MedianState'
  OBVIOUS
<1>1. CASE UNCHANGED vars
  BY <1>1 DEF MedianState, vars, store, local
<1>2. ASSUME NEW e \in Sessions, NEW j \in Items, SelectBase(e, j) PROVE MedianState'
  <2>1. UNCHANGED <<base, daily, pc>> /\ pc[e] = "select"
    BY <1>2 DEF SelectBase, store
  <2>2. ASSUME NEW f \in Sessions, NEW i \in assigned'[f]
        PROVE  pc[f] = "select" /\ MedianRow(daily, i, items'[f][i])
    <3>1. CASE i \in assigned[f] /\ items'[f][i] = items[f][i]
      BY <3>1 DEF MedianState
    <3>2. CASE f = e /\ i = j /\ items'[f][i] = Frozen(j) /\ IsMedian(j, Frozen(j))
      BY <2>1, <3>2, IsMedianIs
    <3>3. CASE items' = items /\ assigned' = assigned
      BY <2>2, <3>1, <3>3
    <3>4. CASE /\ IsMedian(j, Frozen(j))
               /\ items' = [items EXCEPT ![e][j] = Frozen(j)]
               /\ assigned' = [assigned EXCEPT ![e] = assigned[e] \cup {j}]
      <4>1. \A k \in Items : items'[f][k] = IF f = e /\ k = j THEN Frozen(j) ELSE items[f][k]
        BY <3>4 DEF TypeInv, TypeOK
      <4>2. i \in assigned[f] \/ (f = e /\ i = j)
        BY <2>2, <3>4 DEF TypeInv, TypeOK
      <4>3. i \in Items
        BY <4>2 DEF TypeInv, TypeOK
      <4> QED BY <3>1, <3>2, <3>4, <4>1, <4>2, <4>3
    <3> QED BY <1>2, <3>3, <3>4, ItemSeen
  <2> QED BY <2>1, <2>2 DEF MedianState
<1>3. ASSUME NEW e \in Sessions, CommitBase(e) PROVE MedianState'
  <2>1. /\ base' = [i \in Items |-> IF i \in assigned[e] THEN items[e][i] ELSE base[i]]
        /\ assigned' = [assigned EXCEPT ![e] = {}]
        /\ UNCHANGED <<daily, items>>
    BY <1>3 DEF CommitBase
  <2>2. \A i \in Items : base'[i].price > 0 => MedianRow(daily, i, base'[i])
    BY <2>1 DEF MedianState
  <2>3. ASSUME NEW f \in Sessions, NEW i \in assigned'[f]
        PROVE  pc'[f] = "select" /\ MedianRow(daily, i, items[f][i])
    <3>1. f # e
      BY <2>1, <2>3 DEF TypeInv, TypeOK
    <3>2. pc'[f] = pc[f] /\ assigned'[f] = assigned[f]
      BY <1>3, <3>1, OtherSessions DEF Step
    <3> QED BY <2>3, <3>2 DEF MedianState
  <2> QED BY <2>1, <2>2, <2>3 DEF MedianState
<1>4. ASSUME NEW e \in Sessions,
             Step(e) \/ RefreshAll(e) \/ Crash(e) \/ \E r \in Runs : Recalculate(e, r),
             \A i \in Items : ~SelectBase(e, i), ~CommitBase(e)
      PROVE  MedianState'
  <2>1. /\ base' = base
        /\ assigned'[e] \in {assigned[e], {}}
        /\ pc[e] # "select" \/ assigned'[e] = {}
    BY <1>4, BaseWriters
  <2>2. \A f \in Sessions \ {e} :
          pc'[f] = pc[f] /\ assigned'[f] = assigned[f] /\ items'[f] = items[f]
    BY <1>4, OtherSessions
  <2> QED BY <2>1, <2>2, MedianQuiet
<1> QED BY <1>1, <1>2, <1>3, <1>4 DEF Next

LEMMA SeriesInvInvariant == Spec => []SeriesInv
<1>1. Init => DatesAreOwned /\ MedianState
  BY NoRowsType DEF Init, DatesAreOwned, MedianState
<1>2. Spec => [](TypeInv /\ DatesAreOwned /\ MedianState)
  BY <1>1, TypeInit, TypeStep, OwnedStep, MedianStep, PTL DEF Spec
<1>3. TypeInv /\ DatesAreOwned /\ MedianState => SeriesInv
  BY MedianStateIs DEF SeriesInv
<1> QED BY <1>2, <1>3, PTL

\* However many requests freeze the base at the same time, and whichever commit wins, a
\* stored base price is the median of BaseDates stored prices of eligible runs.
THEOREM BaseIsAlwaysAMedian == Spec => []BaseIsMedian
<1>1. SeriesInv => BaseIsMedian
  BY DEF SeriesInv
<1> QED BY <1>1, SeriesInvInvariant, PTL

-----------------------------------------------------------------------------
(* When requests do not overlap: SerialInv is inductive, and what follows   *)
(* from it.  With overlap BaseFrozen is false.                             *)

USE DEF At, Goto, Refresh, Unowned

Acts(e) == Step(e) \/ RefreshAll(e) \/ Crash(e) \/ \E r \in Runs : Recalculate(e, r)

\* The session that acts is alone.
LEMMA AloneStep ==
  ASSUME Serial, TypeInv, AtMostOne, NEW e \in Sessions, Acts(e)
  PROVE  /\ \A f \in Sessions \ {e} : pc[f] = "idle" /\ pc'[f] = "idle"
         /\ AtMostOne'
<1>1. \A f \in Sessions \ {e} : pc[f] = "idle"
  <2>1. CASE Step(e) \/ Crash(e)
    <3>1. pc[e] # "idle"
      BY <2>1 DEF Step, Crash, CreateBasket, FindPrices, InsertPrices, LoadItems, SelectBase,
         CommitBase, FindIndex, InsertIndex, SelectDays, LoadPeriod, WritePeriod
    <3> QED BY <3>1 DEF AtMostOne
  <2>2. CASE RefreshAll(e) \/ \E r \in Runs : Recalculate(e, r)
    BY <2>2 DEF RefreshAll, Recalculate, Alone
  <2> QED BY <2>1, <2>2 DEF Acts
<1>2. \A f \in Sessions \ {e} : pc'[f] = pc[f]
  BY OtherSessions DEF Acts
<1> QED BY <1>1, <1>2 DEF AtMostOne

\* The sessions that do not act are idle, and hold nothing.
LEMMA IdleSessions ==
  ASSUME Serial, TypeInv, AtMostOne, NEW e \in Sessions, Acts(e),
         NEW f \in Sessions, f # e, SessionInv(f)
  PROVE  SessionInv(f)'
<1>1. pc[f] = "idle" /\ pc'[f] = "idle" /\ rows'[f] = rows[f]
  BY AloneStep, OtherSessions DEF Acts
<1>2. rows[f] = [p \in Periods |-> NoCount]
  BY <1>1 DEF SessionInv, RefreshFresh, Refreshing
<1> QED BY <1>1, <1>2
       DEF SessionInv, ItemsFresh, BasketFresh, RefreshFresh, Asking, Owning, Refreshing

-----------------------------------------------------------------------------
(* The session that acts.                                                  *)

LEMMA LeaveSession ==
  ASSUME TypeInv, NEW e \in Sessions, Leave(e)
  PROVE  SessionInv(e)'
<1>1. pc'[e] = "idle" /\ rows'[e] = [p \in Periods |-> NoCount]
  BY DEF Leave, TypeInv, TypeOK
<1> QED BY <1>1 DEF SessionInv, ItemsFresh, BasketFresh, RefreshFresh, Asking, Owning, Refreshing

LEMMA RecalculateSession ==
  ASSUME TypeInv, NEW e \in Sessions, SessionInv(e), NEW r \in Runs, Recalculate(e, r)
  PROVE  SessionInv(e)'
<1>1. pc[e] = "idle" /\ pc'[e] \in {"aggregate", "create"}
      /\ basketSeen'[e] = window /\ window' = window
  BY DEF Recalculate, TypeInv, TypeOK, store
<1>2. rows'[e] = [p \in Periods |-> NoCount]
  BY <1>1 DEF Recalculate, SessionInv, RefreshFresh, Refreshing
<1> QED BY <1>1, <1>2
       DEF SessionInv, ItemsFresh, BasketFresh, RefreshFresh, Asking, Owning, Refreshing

\* From one stage of a request to the next, holding what it held.
LEMMA RequestGoesOn ==
  ASSUME TypeInv, NEW e \in Sessions, SessionInv(e),
         pc[e] \in Asking, pc'[e] \in Asking \cup {"load"},
         basketSeen'[e] = basketSeen[e], rows'[e] = rows[e], window' = window
  PROVE  SessionInv(e)'
<1>1. rows'[e] = [p \in Periods |-> NoCount]
  BY DEF SessionInv, RefreshFresh, Refreshing, Asking
<1> QED BY <1>1 DEF SessionInv, ItemsFresh, BasketFresh, RefreshFresh, Asking, Owning, Refreshing

LEMMA CreateBasketSession ==
  ASSUME TypeInv, NEW e \in Sessions, SessionInv(e), CreateBasket(e)
  PROVE  SessionInv(e)'
<1>1. CASE UNCHANGED local /\ pc' = [pc EXCEPT ![e] = "aggregate"]
  BY <1>1, RequestGoesOn DEF CreateBasket, TypeInv, TypeOK, local, Asking
<1> QED BY <1>1, LeaveSession DEF CreateBasket

LEMMA FindPricesSession ==
  ASSUME TypeInv, NEW e \in Sessions, SessionInv(e), FindPrices(e)
  PROVE  SessionInv(e)'
<1>1. ASSUME NEW l \in {"load", "insert"}, UNCHANGED local, pc' = [pc EXCEPT ![e] = l]
      PROVE  SessionInv(e)'
  BY <1>1, RequestGoesOn DEF FindPrices, TypeInv, TypeOK, local, store, Asking
<1> QED BY <1>1, LeaveSession DEF FindPrices

LEMMA InsertPricesSession ==
  ASSUME TypeInv, NEW e \in Sessions, SessionInv(e), InsertPrices(e)
  PROVE  SessionInv(e)'
<1>1. CASE UNCHANGED local /\ pc' = [pc EXCEPT ![e] = "load"]
  BY <1>1, RequestGoesOn DEF InsertPrices, TypeInv, TypeOK, local, Asking
<1> QED BY <1>1, LeaveSession DEF InsertPrices

LEMMA LoadItemsSession ==
  ASSUME TypeInv, NEW e \in Sessions, SessionInv(e), LoadItems(e)
  PROVE  SessionInv(e)'
<1>1. /\ pc[e] = "load" /\ pc'[e] = "select" /\ items'[e] = base /\ base' = base
      /\ assigned'[e] = {}
      /\ basketSeen'[e] = basketSeen[e] /\ window' = window /\ rows'[e] = rows[e]
  BY DEF LoadItems, TypeInv, TypeOK, store
<1>2. rows'[e] = [p \in Periods |-> NoCount]
  BY <1>1 DEF SessionInv, RefreshFresh, Refreshing
<1> QED BY <1>1, <1>2
       DEF SessionInv, ItemsFresh, BasketFresh, RefreshFresh, Asking, Owning, Refreshing

LEMMA SelectBaseSession ==
  ASSUME TypeInv, NEW e \in Sessions, SessionInv(e), NEW j \in Items, SelectBase(e, j)
  PROVE  SessionInv(e)'
<1>1. /\ pc[e] = "select" /\ pc'[e] = "select" /\ base' = base
      /\ basketSeen'[e] = basketSeen[e] /\ window' = window /\ rows'[e] = rows[e]
  BY DEF SelectBase, store
<1>2. rows'[e] = [p \in Periods |-> NoCount]
  BY <1>1 DEF SessionInv, RefreshFresh, Refreshing
<1>3. \A i \in Items : IF i \in assigned[e] THEN base[i].price = 0 /\ items[e][i].price > 0
                                            ELSE items[e][i] = base[i]
  BY <1>1 DEF SessionInv, ItemsFresh
<1>4. CASE items' = items /\ assigned' = assigned
  <2>1. ItemsFresh(e)'
    BY <1>1, <1>3, <1>4 DEF ItemsFresh
  <2> QED BY <1>1, <1>2, <2>1
         DEF SessionInv, BasketFresh, RefreshFresh, Asking, Owning, Refreshing
<1>5. CASE /\ items[e][j].price = 0
           /\ Frozen(j).price > 0
           /\ items' = [items EXCEPT ![e][j] = Frozen(j)]
           /\ assigned' = [assigned EXCEPT ![e] = assigned[e] \cup {j}]
  <2>1. \A i \in Items : items'[e][i] = IF i = j THEN Frozen(j) ELSE items[e][i]
    BY <1>5 DEF TypeInv, TypeOK
  <2>2. assigned'[e] = assigned[e] \cup {j}
    BY <1>5 DEF TypeInv, TypeOK
  <2>3. base[j].price = 0
    <3>1. CASE j \in assigned[e]
      BY <1>3, <3>1
    <3>2. CASE j \notin assigned[e]
      BY <1>3, <1>5, <3>2
    <3> QED BY <3>1, <3>2
  <2>4. \A i \in Items : IF i \in assigned'[e]
                         THEN base[i].price = 0 /\ items'[e][i].price > 0
                         ELSE items'[e][i] = base[i]
    BY <1>3, <1>5, <2>1, <2>2, <2>3
  <2>5. ItemsFresh(e)'
    BY <1>1, <2>4 DEF ItemsFresh
  <2> QED BY <1>1, <1>2, <2>5
         DEF SessionInv, BasketFresh, RefreshFresh, Asking, Owning, Refreshing
<1> QED BY <1>4, <1>5, ItemSeen

\* The commit stores exactly the rows the session holds.
LEMMA CommitStoresItems ==
  ASSUME TypeInv, NEW e \in Sessions, SessionInv(e), CommitBase(e)
  PROVE  /\ base' = items[e] /\ items' = items
         /\ \A i \in Items : base[i].price > 0 => base'[i] = base[i]
         /\ ready'[e] = Based(base') /\ Complete(e) = Based(base')
<1>1. pc[e] = "select" /\ items' = items /\ ready' = [ready EXCEPT ![e] = Complete(e)]
      /\ base' = [i \in Items |-> IF i \in assigned[e] THEN items[e][i] ELSE base[i]]
  BY DEF CommitBase
<1>2. \A i \in Items : IF i \in assigned[e] THEN base[i].price = 0 /\ items[e][i].price > 0
                                            ELSE items[e][i] = base[i]
  BY <1>1 DEF SessionInv, ItemsFresh
<1>3. items[e] \in [Items -> BaseRow]
  BY DEF TypeInv, TypeOK
<1>4. base' = items[e]
  BY <1>1, <1>2, <1>3
<1>5. Complete(e) = Based(base')
  BY <1>4 DEF Complete, Based
<1>6. ready'[e] = Complete(e)
  BY <1>1 DEF TypeInv, TypeOK
<1>7. ASSUME NEW i \in Items, base[i].price > 0 PROVE base'[i] = base[i]
  BY <1>1, <1>2, <1>7
<1> QED BY <1>1, <1>4, <1>5, <1>6, <1>7

LEMMA CommitBaseSession ==
  ASSUME TypeInv, NEW e \in Sessions, SessionInv(e), CommitBase(e)
  PROVE  SessionInv(e)'
<1>1. pc[e] = "select" /\ pc'[e] = "read" /\ rows'[e] = rows[e]
  BY DEF CommitBase, TypeInv, TypeOK
<1>2. rows'[e] = [p \in Periods |-> NoCount]
  BY <1>1 DEF SessionInv, RefreshFresh, Refreshing
<1>3. basketSeen[e] = window
  BY <1>1 DEF SessionInv, BasketFresh, Owning
<1>4. basketSeen'[e] = window'
  BY <1>3 DEF CommitBase, TypeInv, TypeOK
<1>5. ItemsFresh(e)'
  BY <1>1, CommitStoresItems DEF ItemsFresh, Based
<1> QED BY <1>1, <1>2, <1>4, <1>5
       DEF SessionInv, BasketFresh, RefreshFresh, Asking, Owning, Refreshing

LEMMA FindIndexSession ==
  ASSUME TypeInv, NEW e \in Sessions, SessionInv(e), FindIndex(e)
  PROVE  SessionInv(e)'
<1>1. pc[e] = "read" /\ UNCHANGED <<base, window, period, index>>
  BY DEF FindIndex, store
<1>2. rows[e] = [p \in Periods |-> NoCount] /\ basketSeen[e] = window
      /\ items[e] = base /\ ready[e] = Based(base)
  BY <1>1 DEF SessionInv, ItemsFresh, BasketFresh, RefreshFresh, Refreshing, Owning
<1>3. CASE pc' = [pc EXCEPT ![e] = "days"] /\ UNCHANGED rows
  <2>1. pc'[e] = "days" /\ rows'[e] = rows[e]
    BY <1>3 DEF TypeInv, TypeOK
  <2> QED BY <1>2, <2>1
         DEF SessionInv, ItemsFresh, BasketFresh, RefreshFresh, Asking, Owning, Refreshing
<1>4. CASE /\ items' = [items EXCEPT ![e] = base]
           /\ pc' = [pc EXCEPT ![e] = "publish"]
           /\ UNCHANGED <<basketSeen, ready, rows>>
  <2>1. pc'[e] = "publish" /\ items'[e] = base
    BY <1>4 DEF TypeInv, TypeOK
  <2>2. ready'[e] = Based(base)
    BY <1>2, <1>4, <2>1
  <2>3. ItemsFresh(e)'
    BY <1>1, <2>1, <2>2 DEF ItemsFresh, Based
  <2> QED BY <1>1, <1>2, <1>4, <2>1, <2>3
         DEF SessionInv, BasketFresh, RefreshFresh, Asking, Owning, Refreshing
<1> QED BY <1>3, <1>4, LeaveSession DEF FindIndex

LEMMA InsertIndexSession ==
  ASSUME TypeInv, NEW e \in Sessions, SessionInv(e), InsertIndex(e)
  PROVE  SessionInv(e)'
<1>1. pc[e] = "publish"
  BY DEF InsertIndex
<1>2. rows[e] = [p \in Periods |-> NoCount]
  BY <1>1 DEF SessionInv, RefreshFresh, Refreshing
<1>3. CASE pc' = [pc EXCEPT ![e] = "days"] /\ UNCHANGED rows
  <2>1. pc'[e] = "days" /\ rows'[e] = rows[e]
    BY <1>3 DEF TypeInv, TypeOK
  <2> QED BY <1>2, <2>1
         DEF SessionInv, ItemsFresh, BasketFresh, RefreshFresh, Asking, Owning, Refreshing
<1> QED BY <1>3, LeaveSession DEF InsertIndex

LEMMA RefreshAllSession ==
  ASSUME TypeInv, NEW e \in Sessions, SessionInv(e), RefreshAll(e)
  PROVE  SessionInv(e)'
<1>1. pc[e] = "idle" /\ pc'[e] = "days" /\ rows'[e] = rows[e]
  BY DEF RefreshAll, TypeInv, TypeOK
<1>2. rows[e] = [p \in Periods |-> NoCount]
  BY <1>1 DEF SessionInv, RefreshFresh, Refreshing
<1> QED BY <1>1, <1>2
       DEF SessionInv, ItemsFresh, BasketFresh, RefreshFresh, Asking, Owning, Refreshing

LEMMA SelectDaysSession ==
  ASSUME TypeInv, NEW e \in Sessions, SessionInv(e), SelectDays(e)
  PROVE  SessionInv(e)'
<1>1. /\ pc'[e] = "row" /\ rows' = rows /\ queue' = queue /\ period' = period
      /\ days'[e] = DaysOf(Head(queue[e]))
  BY DEF SelectDays, TypeInv, TypeOK, store
<1>2. DaysOf(Head(queue[e]))' = DaysOf(Head(queue[e]))
  BY DEF SelectDays, store, DaysOf, Indexed
<1>3. RefreshFresh(e)'
  BY <1>1, <1>2 DEF SessionInv, RefreshFresh, Refreshing
<1> QED BY <1>1, <1>3 DEF SessionInv, ItemsFresh, BasketFresh, Asking, Owning

LEMMA LoadPeriodSession ==
  ASSUME TypeInv, NEW e \in Sessions, SessionInv(e), LoadPeriod(e)
  PROVE  SessionInv(e)'
<1> DEFINE p == Head(queue[e])
<1>1. p \in Periods
  BY QueueHead DEF LoadPeriod, Refreshing
<1>2. /\ pc[e] = "row" /\ pc'[e] = "write" /\ queue' = queue /\ period' = period /\ days' = days
      /\ rows' = [rows EXCEPT ![e][p] = IF rows[e][p] = NoCount THEN period[p] ELSE rows[e][p]]
  BY DEF LoadPeriod, TypeInv, TypeOK, store
<1>3. DaysOf(Head(queue[e]))' = DaysOf(Head(queue[e]))
  BY DEF LoadPeriod, store, DaysOf, Indexed
<1>4. days'[e] = DaysOf(Head(queue[e]))
  BY <1>2 DEF SessionInv, RefreshFresh
<1>5. \A q \in Periods : rows[e][q] \in {NoCount, period[q]}
  BY DEF SessionInv, RefreshFresh
<1>6. \A q \in Periods : rows'[e][q] = IF q = p THEN period[p] ELSE rows[e][q]
  BY <1>1, <1>2, <1>5 DEF TypeInv, TypeOK
<1>7. RefreshFresh(e)'
  BY <1>1, <1>2, <1>3, <1>4, <1>5, <1>6 DEF RefreshFresh, Refreshing
<1> QED BY <1>2, <1>7 DEF SessionInv, ItemsFresh, BasketFresh, Asking, Owning

\* The row it has loaded is the stored one: the refresh writes what it computed.
LEMMA WriteIsCurrent ==
  ASSUME TypeInv, NEW e \in Sessions, SessionInv(e), WritePeriod(e)
  PROVE  /\ Head(queue[e]) \in Periods
         /\ days[e] = DaysOf(Head(queue[e]))
         /\ period' = [period EXCEPT ![Head(queue[e])] = Counts(days[e])]
         /\ inputs' = [inputs EXCEPT ![Head(queue[e])] = days[e]]
         /\ IF Len(queue[e]) > 1
            THEN /\ rows' = [rows EXCEPT ![e][Head(queue[e])] = period'[Head(queue[e])]]
                 /\ queue' = [queue EXCEPT ![e] = Tail(queue[e])]
                 /\ pc' = [pc EXCEPT ![e] = "days"]
            ELSE Leave(e)
<1> DEFINE p == Head(queue[e])
           new == Counts(days[e])
<1>1. p \in Periods
  BY QueueHead DEF WritePeriod, Refreshing
<1>2. pc[e] = "write" /\ days[e] = DaysOf(p) /\ rows[e][p] = period[p]
  BY DEF WritePeriod, SessionInv, RefreshFresh
<1>3. new \in Count /\ period[p] \in Count
  BY <1>1, CountsType DEF TypeInv, TypeOK
<1>4. /\ period' = [period EXCEPT ![p] =
           [observed |-> Column(rows[e][p].observed, new.observed, @.observed),
            valued   |-> Column(rows[e][p].valued, new.valued, @.valued)]]
      /\ inputs' = [inputs EXCEPT ![p] = days[e]]
      /\ IF Len(queue[e]) > 1
         THEN /\ rows' = [rows EXCEPT ![e][p] = period'[p]]
              /\ queue' = [queue EXCEPT ![e] = Tail(queue[e])]
              /\ pc' = [pc EXCEPT ![e] = "days"]
         ELSE Leave(e)
  BY <1>2 DEF WritePeriod
<1>5. [observed |-> Column(period[p].observed, new.observed, period[p].observed),
       valued   |-> Column(period[p].valued, new.valued, period[p].valued)] = new
  <2> HIDE DEF p, new
  <2> QED BY <1>3 DEF Column, Count
<1>6. period' = [period EXCEPT ![p] = new]
  <2> HIDE DEF p, new
  <2> QED BY <1>1, <1>2, <1>4, <1>5 DEF TypeInv, TypeOK
<1> QED BY <1>1, <1>2, <1>4, <1>6

LEMMA WritePeriodSession ==
  ASSUME TypeInv, NEW e \in Sessions, SessionInv(e), WritePeriod(e)
  PROVE  SessionInv(e)'
<1> DEFINE p == Head(queue[e])
<1>1. CASE Leave(e)
  BY <1>1, LeaveSession
<1>2. CASE /\ rows' = [rows EXCEPT ![e][p] = period'[p]]
           /\ pc' = [pc EXCEPT ![e] = "days"]
  <2>1. p \in Periods /\ period' = [period EXCEPT ![p] = Counts(days[e])]
    BY WriteIsCurrent
  <2>2. \A q \in Periods : rows[e][q] \in {NoCount, period[q]}
    BY DEF SessionInv, RefreshFresh
  <2>3. \A q \in Periods : rows'[e][q] = IF q = p THEN period'[p] ELSE rows[e][q]
    BY <1>2, <2>1 DEF TypeInv, TypeOK
  <2>4. \A q \in Periods : q # p => period'[q] = period[q]
    BY <2>1 DEF TypeInv, TypeOK
  <2>5. pc'[e] = "days"
    BY <1>2 DEF TypeInv, TypeOK
  <2>6. RefreshFresh(e)'
    BY <2>2, <2>3, <2>4, <2>5 DEF RefreshFresh, Refreshing
  <2> QED BY <2>5, <2>6 DEF SessionInv, ItemsFresh, BasketFresh, Asking, Owning
<1> QED BY <1>1, <1>2, WriteIsCurrent

LEMMA SessionStep ==
  ASSUME TypeInv, NEW e \in Sessions, SessionInv(e), Acts(e)
  PROVE  SessionInv(e)'
BY RecalculateSession, CreateBasketSession, FindPricesSession, InsertPricesSession,
   LoadItemsSession, SelectBaseSession, CommitBaseSession, FindIndexSession,
   InsertIndexSession, RefreshAllSession, SelectDaysSession, LoadPeriodSession,
   WritePeriodSession, LeaveSession DEF Acts, Step, Crash

-----------------------------------------------------------------------------
(* The base and the series.                                                *)

\* Who writes what the properties of the series speak of.
LEMMA StoreWriters ==
  ASSUME NEW e \in Sessions, Acts(e)
  PROVE  /\ ~CommitBase(e) => UNCHANGED <<base, window>>
         /\ ~InsertIndex(e) => UNCHANGED index
         /\ ~WritePeriod(e) => UNCHANGED <<period, inputs>>
         /\ ~Crash(e) => UNCHANGED crashes
BY DEF Acts, Step, store, Recalculate, RefreshAll, CreateBasket, FindPrices, InsertPrices,
     LoadItems, SelectBase, CommitBase, FindIndex, InsertIndex, SelectDays, LoadPeriod,
     WritePeriod, Crash

LEMMA FrozenStays ==
  ASSUME TypeInv, NEW e \in Sessions, SessionInv(e), Acts(e), NEW i \in Items,
         base[i].price > 0
  PROVE  base'[i] = base[i]
BY CommitStoresItems, StoreWriters

LEMMA BaseDatedStep ==
  ASSUME TypeInv, NEW e \in Sessions, SessionInv(e), Acts(e), BaseDated
  PROVE  BaseDated'
<1>1. CASE UNCHANGED <<base, window>>
  BY <1>1 DEF BaseDated, Span
<1>2. CASE CommitBase(e)
  <2>1. base' = items[e] /\ Complete(e) = Based(base')
        /\ \A i \in Items : base[i].price > 0 => base'[i] = base[i]
    BY <1>2, CommitStoresItems
  <2>2. pc[e] = "select" /\ basketSeen[e] = window
    BY <1>2 DEF CommitBase, SessionInv, BasketFresh, Owning
  <2>3. window' = IF Complete(e) /\ window = NoWindow THEN Span(items[e]) ELSE window
    BY <1>2, <2>2 DEF CommitBase, Dated
  <2>4. window = IF Based(base) THEN Span(base) ELSE NoWindow
    BY DEF BaseDated, Based
  <2>5. Based(base) => base' = base
    <3>1. base \in [Items -> BaseRow] /\ items[e] \in [Items -> BaseRow]
      BY DEF TypeInv, TypeOK
    <3> QED BY <2>1, <3>1 DEF Based
  <2>6. window' = IF Based(base') THEN Span(base') ELSE NoWindow
    <3>1. CASE Based(base)
      BY <2>1, <2>3, <2>4, <2>5, <3>1
    <3>2. CASE ~Based(base)
      BY <2>1, <2>3, <2>4, <3>2
    <3> QED BY <3>1, <3>2
  <2> QED BY <2>6 DEF BaseDated, Based, Span
<1> QED BY <1>1, <1>2, StoreWriters

LEMMA SharesBaseStep ==
  ASSUME TypeInv, NEW e \in Sessions, SessionInv(e), Acts(e), SeriesSharesBase
  PROVE  SeriesSharesBase'
<1>1. \A i \in Items : base[i].price > 0 => base'[i] = base[i]
  BY FrozenStays
<1>2. CASE index' = index
  BY <1>1, <1>2 DEF SeriesSharesBase
<1>3. CASE InsertIndex(e)
  <2>1. /\ base' = base
        /\ \/ index' = index
           \/ Day(e) \in Dates /\ index' = [index EXCEPT ![Day(e)] = NewIndex(e)]
    BY <1>3, IndexWritten DEF InsertIndex
  <2>2. pc[e] = "publish"
    BY <1>3 DEF InsertIndex
  <2>3. items[e] = base /\ ready[e] = Based(base)
    BY <2>2 DEF SessionInv, ItemsFresh
  <2>4. NewIndex(e).complete = Based(base)
        /\ \A i \in Items : NewIndex(e).base[i] = base[i].price
    BY <2>3 DEF NewIndex
  <2>5. CASE Day(e) \in Dates /\ index' = [index EXCEPT ![Day(e)] = NewIndex(e)]
    <3>1. \A d \in Dates : index'[d] = IF d = Day(e) THEN NewIndex(e) ELSE index[d]
      BY <2>5 DEF TypeInv, TypeOK
    <3> SUFFICES ASSUME NEW d \in Dates, index'[d].complete, NEW i \in Items
                 PROVE  index'[d].base[i] = base[i].price /\ base[i].price > 0
      BY <2>1 DEF SeriesSharesBase
    <3>2. CASE d = Day(e)
      <4>1. index'[d] = NewIndex(e)
        BY <3>1, <3>2
      <4>2. Based(base)
        BY <2>4, <4>1
      <4> QED BY <2>4, <4>1, <4>2 DEF Based
    <3>3. CASE d # Day(e)
      BY <3>1, <3>3 DEF SeriesSharesBase
    <3> QED BY <3>2, <3>3
  <2> QED BY <1>2, <2>1, <2>5
<1> QED BY <1>2, <1>3, StoreWriters

-----------------------------------------------------------------------------
(* The aggregates.                                                         *)

\* Counts and DaysOf with the indices as a parameter.
Tally(series, D) ==
  [observed |-> Cardinality(D),
   valued   |-> Cardinality({d \in D : Status(series[d]) = "PUBLISHED" /\ Available(series[d]) # {}})]
DaysIn(series, p) ==
  {d \in Dates : series[d] # NoIndex /\ InPeriod(d, p)}

LEMMA CountsIs == \A D, p : Counts(D) = Tally(index, D) /\ DaysOf(p) = DaysIn(index, p)
BY DEF Counts, Published, Tally, DaysOf, Indexed, DaysIn

LEMMA TallyKept ==
  ASSUME NEW older, NEW newer, NEW D, \A d \in D : newer[d] = older[d]
  PROVE  Tally(newer, D) = Tally(older, D)
<1>1. {d \in D : Status(newer[d]) = "PUBLISHED" /\ Available(newer[d]) # {}}
      = {d \in D : Status(older[d]) = "PUBLISHED" /\ Available(older[d]) # {}}
  OBVIOUS
<1> QED BY <1>1 DEF Tally

LineageState ==
  \A p \in Periods : period[p] = Tally(index, inputs[p]) /\ inputs[p] \subseteq DaysIn(index, p)

LEMMA LineageIs == LineageState <=> PeriodLineage
BY CountsIs DEF LineageState, PeriodLineage

LEMMA LineageStep ==
  ASSUME TypeInv, [Next]_vars, NEW e \in Sessions, SessionInv(e), Acts(e), LineageState
  PROVE  LineageState'
<1>1. ASSUME NEW D, NEW p, D \subseteq DaysIn(index, p)
      PROVE  Tally(index', D) = Tally(index, D) /\ D \subseteq DaysIn(index', p)
  <2>1. \A d \in D : d \in Dates /\ index[d] # NoIndex /\ InPeriod(d, p)
    BY <1>1 DEF DaysIn
  <2>2. \A d \in D : index'[d] = index[d]
    BY <2>1, SeriesGrows
  <2>3. D \subseteq DaysIn(index', p)
    BY <2>1, <2>2 DEF DaysIn
  <2> QED BY <2>2, <2>3, TallyKept
<1>2. CASE UNCHANGED <<period, inputs>>
  BY <1>1, <1>2 DEF LineageState
<1>3. CASE WritePeriod(e)
  <2> DEFINE p == Head(queue[e])
  <2>1. /\ p \in Periods
        /\ days[e] = DaysOf(p)
        /\ period' = [period EXCEPT ![p] = Counts(days[e])]
        /\ inputs' = [inputs EXCEPT ![p] = days[e]]
    BY <1>3, WriteIsCurrent
  <2>2. Counts(days[e]) = Tally(index, days[e]) /\ days[e] = DaysIn(index, p)
    BY <2>1, CountsIs
  <2>3. ASSUME NEW q \in Periods
        PROVE  period'[q] = Tally(index', inputs'[q]) /\ inputs'[q] \subseteq DaysIn(index', q)
    <3>1. CASE q = p
      <4>1. period'[q] = Tally(index, days[e]) /\ inputs'[q] = days[e]
        BY <2>1, <2>2, <3>1 DEF TypeInv, TypeOK
      <4> QED BY <1>1, <2>2, <3>1, <4>1
    <3>2. CASE q # p
      <4>1. period'[q] = period[q] /\ inputs'[q] = inputs[q]
        BY <2>1, <3>2 DEF TypeInv, TypeOK
      <4> QED BY <1>1, <4>1 DEF LineageState
    <3> QED BY <3>1, <3>2
  <2> QED BY <2>3 DEF LineageState
<1> QED BY <1>2, <1>3, StoreWriters

AwaitedState ==
  crashes = 0 =>
    \A p \in Periods :
      \/ inputs[p] = DaysIn(index, p)
      \/ \E e \in Sessions : pc[e] \in Refreshing /\ p \in Queued(e)

LEMMA AwaitedIs == AwaitedState <=> PeriodsAwaited
BY CountsIs DEF AwaitedState, PeriodsAwaited

LEMMA AwaitedStep ==
  ASSUME Serial, TypeInv, AtMostOne, NEW e \in Sessions, SessionInv(e), Acts(e), AwaitedState
  PROVE  AwaitedState'
<1> SUFFICES ASSUME crashes' = 0, NEW p \in Periods
             PROVE  \/ inputs'[p] = DaysIn(index', p)
                    \/ pc'[e] \in Refreshing /\ p \in Queued(e)'
  BY DEF AwaitedState
<1>1. ~Crash(e) /\ crashes = 0
  <2>1. ~Crash(e)
    BY DEF Crash, TypeInv, TypeOK
  <2> QED BY <2>1, StoreWriters
<1>2. inputs[p] = DaysIn(index, p) \/ (pc[e] \in Refreshing /\ p \in Queued(e))
  <2>1. \A f \in Sessions \ {e} : pc[f] = "idle"
    BY AloneStep
  <2> QED BY <1>1, <2>1 DEF AwaitedState, Refreshing
<1>3. CASE InsertIndex(e)
  <2>1. inputs[p] = DaysIn(index, p) /\ inputs' = inputs
    BY <1>2, <1>3, StoreWriters DEF InsertIndex, Refreshing
  <2>2. CASE index' = index
    BY <2>1, <2>2
  <2>3. CASE index' # index
    <3>1. /\ Day(e) \in Dates
          /\ index' = [index EXCEPT ![Day(e)] = NewIndex(e)]
          /\ pc'[e] = "days"
          /\ queue'[e] = PeriodsOf[Day(e)]
      BY <1>3, <2>3, IndexWritten DEF InsertIndex, TypeInv, TypeOK
    <3>2. CASE InPeriod(Day(e), p)
      <4>1. Len(PeriodsOf[Day(e)]) = 2
        BY <3>1, PeriodsOfType
      <4>2. p \in Queued(e)'
        BY <3>1, <3>2, <4>1 DEF Queued, InPeriod
      <4> QED BY <3>1, <4>2 DEF Refreshing
    <3>3. CASE ~InPeriod(Day(e), p)
      <4>1. \A d \in Dates : d # Day(e) => index'[d] = index[d]
        BY <3>1 DEF TypeInv, TypeOK
      <4>2. DaysIn(index', p) = DaysIn(index, p)
        BY <3>3, <4>1 DEF DaysIn
      <4> QED BY <2>1, <4>2
    <3> QED BY <3>2, <3>3
  <2> QED BY <2>2, <2>3
<1>4. CASE WritePeriod(e)
  <2> DEFINE h == Head(queue[e])
  <2>1. /\ h \in Periods
        /\ days[e] = DaysIn(index, h)
        /\ inputs' = [inputs EXCEPT ![h] = days[e]]
        /\ Len(queue[e]) > 1 => /\ queue' = [queue EXCEPT ![e] = Tail(queue[e])]
                                /\ pc' = [pc EXCEPT ![e] = "days"]
    BY <1>4, WriteIsCurrent, CountsIs
  <2>2. index' = index
    BY <1>4 DEF WritePeriod
  <2>3. CASE p = h
    BY <2>1, <2>2, <2>3 DEF TypeInv, TypeOK
  <2>4. CASE p # h
    <3>1. inputs'[p] = inputs[p]
      BY <2>1, <2>4 DEF TypeInv, TypeOK
    <3>2. CASE inputs[p] = DaysIn(index, p)
      BY <2>2, <3>1, <3>2
    <3>3. CASE p \in Queued(e)
      <4>1. queue[e] \in Seq(Periods) /\ queue[e] # <<>>
        BY <1>4 DEF WritePeriod, TypeInv, TypeOK, RequestReady, Refreshing
      <4>2. PICK k \in 1..Len(queue[e]) : p = queue[e][k]
        BY <3>3 DEF Queued
      <4>3. h = queue[e][1] /\ Len(queue[e]) \in Nat
        BY <4>1, TailOfQueue
      <4>4. k # 1 /\ k - 1 \in 1..(Len(queue[e]) - 1) /\ Len(queue[e]) > 1
        BY <2>4, <4>2, <4>3
      <4>5. Tail(queue[e])[k - 1] = p /\ Len(Tail(queue[e])) = Len(queue[e]) - 1
        <5>1. Tail(queue[e])[k - 1] = queue[e][(k - 1) + 1]
          BY <4>1, <4>4, TailOfQueue
        <5>2. (k - 1) + 1 = k
          BY <4>2, <4>3
        <5> QED BY <4>1, <4>2, <5>1, <5>2, TailOfQueue
      <4>6. queue'[e] = Tail(queue[e]) /\ pc'[e] = "days"
        BY <2>1, <4>4 DEF TypeInv, TypeOK
      <4>7. p \in Queued(e)'
        BY <4>4, <4>5, <4>6 DEF Queued
      <4> QED BY <4>6, <4>7 DEF Refreshing
    <3> QED BY <1>2, <3>2, <3>3
  <2> QED BY <2>3, <2>4
<1>5. CASE ~InsertIndex(e) /\ ~WritePeriod(e)
  <2>1. index' = index /\ inputs' = inputs
    BY <1>5, StoreWriters
  <2>2. CASE inputs[p] = DaysIn(index, p)
    BY <2>1, <2>2
  <2>3. CASE pc[e] \in Refreshing /\ p \in Queued(e)
    <3>1. SelectDays(e) \/ LoadPeriod(e)
      BY <1>1, <1>5, <2>3
         DEF Refreshing, Acts, Step, Recalculate, RefreshAll, CreateBasket, FindPrices,
             InsertPrices, LoadItems, SelectBase, CommitBase, FindIndex
    <3>2. pc'[e] \in Refreshing /\ queue' = queue
      BY <3>1 DEF SelectDays, LoadPeriod, Refreshing, TypeInv, TypeOK
    <3> QED BY <2>3, <3>2 DEF Queued
  <2> QED BY <1>2, <2>2, <2>3
<1> QED BY <1>3, <1>4, <1>5

-----------------------------------------------------------------------------
(* The theorems.                                                           *)

LEMMA SerialInit == Init => SerialInv
<1> SUFFICES ASSUME Init PROVE SerialInv
  OBVIOUS
<1>1. AtMostOne
  BY DEF Init, AtMostOne
<1>2. SeriesSharesBase
  BY NoRowsType DEF Init, SeriesSharesBase
<1>3. BaseDated
  <2>1. PICK i \in Items : TRUE
    BY SeriesAssumption
  <2>2. ~ (base[i].price > 0)
    BY NoRowsType DEF Init
  <2> QED BY <2>1, <2>2 DEF BaseDated, Init
<1>4. \A p \in Periods : inputs[p] = {} /\ DaysOf(p) = {} /\ period[p] = NoCount
  BY DEF Init, DaysOf, Indexed
<1>5. Counts({}) = NoCount
  BY FS_EmptySet DEF Counts, Published, NoCount
<1>6. PeriodLineage /\ PeriodsAwaited
  BY <1>4, <1>5 DEF PeriodLineage, PeriodsAwaited
<1>7. \A e \in Sessions : SessionInv(e)
  BY DEF Init, SessionInv, ItemsFresh, BasketFresh, RefreshFresh, Asking, Owning, Refreshing
<1> QED BY TypeInit, <1>1, <1>2, <1>3, <1>6, <1>7 DEF SerialInv

LEMMA SerialStep == Serial /\ SerialInv /\ [Next]_vars => SerialInv'
<1> SUFFICES ASSUME Serial, SerialInv, [Next]_vars PROVE SerialInv'
  OBVIOUS
<1>1. TypeInv /\ AtMostOne /\ SeriesSharesBase /\ BaseDated /\ LineageState /\ AwaitedState
      /\ \A e \in Sessions : SessionInv(e)
  BY LineageIs, AwaitedIs DEF SerialInv
<1>2. TypeInv'
  BY <1>1, TypeStep
<1>3. (LineageState <=> PeriodLineage)' /\ (AwaitedState <=> PeriodsAwaited)'
  BY LineageIs, AwaitedIs, PTL
<1>4. CASE UNCHANGED vars
  <2>1. AtMostOne' /\ SeriesSharesBase' /\ BaseDated'
    BY <1>1, <1>4 DEF AtMostOne, SeriesSharesBase, BaseDated, Span, vars, store
  <2>2. LineageState' /\ AwaitedState'
    BY <1>1, <1>4 DEF LineageState, AwaitedState, Queued, vars, store, local
  <2>3. \A e \in Sessions : SessionInv(e)'
    BY <1>1, <1>4 DEF SessionInv, ItemsFresh, BasketFresh, RefreshFresh, DaysOf, Indexed,
       vars, store, local
  <2> QED BY <1>2, <1>3, <2>1, <2>2, <2>3 DEF SerialInv
<1>5. ASSUME NEW e \in Sessions, Acts(e) PROVE SerialInv'
  <2>1. AtMostOne'
    BY <1>1, <1>5, AloneStep
  <2>2. SeriesSharesBase' /\ BaseDated'
    BY <1>1, <1>5, SharesBaseStep, BaseDatedStep
  <2>3. LineageState' /\ AwaitedState'
    BY <1>1, <1>5, LineageStep, AwaitedStep
  <2>4. ASSUME NEW f \in Sessions PROVE SessionInv(f)'
    <3>1. CASE f = e
      BY <1>1, <1>5, <3>1, SessionStep
    <3>2. CASE f # e
      BY <1>1, <1>5, <3>2, IdleSessions
    <3> QED BY <3>1, <3>2
  <2> QED BY <1>2, <1>3, <2>1, <2>2, <2>3, <2>4 DEF SerialInv
<1> QED BY <1>4, <1>5 DEF Next, Acts

\* What a session holds is what is stored, and what an aggregate lacks is on its queue.
THEOREM SerialInvInvariant ==
  ASSUME Serial
  PROVE  Spec => []SerialInv
<1>1. SerialInv /\ [Next]_vars => SerialInv'
  BY SerialStep
<1> QED BY <1>1, SerialInit, PTL DEF Spec

\* When requests do not overlap, a base price that is frozen stays what it is, through
\* any crashes and repeated requests.
THEOREM BaseStaysFrozen ==
  ASSUME Serial
  PROVE  Spec => BaseFrozen
<1>1. SerialInv /\ [Next]_vars =>
        [\A i \in Items : base[i].price > 0 => base'[i] = base[i]]_vars
  <2> SUFFICES ASSUME SerialInv, Next, NEW i \in Items, base[i].price > 0
               PROVE  base'[i] = base[i]
    OBVIOUS
  <2>1. PICK e \in Sessions : Acts(e)
    BY DEF Next, Acts
  <2> QED BY <2>1, FrozenStays DEF SerialInv
<1> QED BY <1>1, SerialInvInvariant, PTL DEF Spec, BaseFrozen

\* ... and every index with a value refers to it: the series is comparable.
THEOREM SeriesIsComparable ==
  ASSUME Serial
  PROVE  Spec => []SeriesSharesBase
<1>1. SerialInv => SeriesSharesBase
  BY DEF SerialInv
<1> QED BY <1>1, SerialInvInvariant, PTL

\* The basket's base dates are the ends of its components' dates, from the moment the
\* base is complete.
THEOREM BaseIsDated ==
  ASSUME Serial
  PROVE  Spec => []BaseDated
<1>1. SerialInv => BaseDated
  BY DEF SerialInv
<1> QED BY <1>1, SerialInvInvariant, PTL

\* An aggregate's counts are those of the daily indices linked to it, and these are of
\* its period, whatever was interrupted (refresh_period).
THEOREM AggregatesAreCounts ==
  ASSUME Serial
  PROVE  Spec => []PeriodLineage
<1>1. SerialInv => PeriodLineage
  BY DEF SerialInv
<1> QED BY <1>1, SerialInvInvariant, PTL

\* Without a crash an aggregate includes every index of its period, once no request is
\* under way (refresh_periods_for_index, the backfill).
THEOREM AggregatesAreCurrent ==
  ASSUME Serial
  PROVE  Spec => []PeriodsCurrent
<1>1. SerialInv => PeriodsCurrent
  BY DEF SerialInv, PeriodsAwaited, PeriodsCurrent, Refreshing
<1> QED BY <1>1, SerialInvInvariant, PTL
-----------------------------------------------------------------------------
(* The contract.                                                           *)

LEMMA ContractTerms ==
  /\ Contract!Unindexed = NoIndex
  /\ Contract!Due = Due
  /\ \A i \in Items : Contract!BaseOver(i, Contract!Earliest(Contract!Priced(i), BaseDates))
                      = Frozen(i)
<1>1. ASSUME NEW i \in Items PROVE Contract!Priced(i) = Candidates(i)
  BY DEF Contract!Priced, Contract!Cost, Candidates, Price
<1>2. ASSUME NEW S PROVE Contract!Cardinality(S) = Cardinality(S)
  BY DEF Contract!Cardinality, Cardinality, Contract!IsFiniteSet, IsFiniteSet
<1>3. Contract!Due = Due
  BY <1>1, <1>2 DEF Contract!Due, Due, Ripe
<1>4. ASSUME NEW D PROVE Contract!Earliest(D, BaseDates) = Earliest(D, BaseDates)
  BY <1>2 DEF Contract!Earliest, Earliest
<1>5. ASSUME NEW f, NEW k PROVE Contract!AtRank(f, k) = AtRank(f, k)
  BY <1>2 DEF Contract!AtRank, AtRank, Contract!Values, Values,
     Contract!Below, Below, Contract!UpTo, UpTo
<1>6. ASSUME NEW f PROVE Contract!TwiceMedian(f) = TwiceMedian(f)
  BY <1>2, <1>5 DEF Contract!TwiceMedian, TwiceMedian
<1>7. ASSUME NEW i \in Items, NEW D
      PROVE  Contract!BaseOver(i, D) = [price |-> MedianPrice(i, D), days |-> D]
  BY <1>6 DEF Contract!BaseOver, Contract!Cost, MedianPrice, Price
<1>8. Contract!Unindexed = NoIndex
  BY DEF Contract!Unindexed, NoIndex
<1> QED BY <1>1, <1>3, <1>4, <1>7, <1>8 DEF Frozen

\* What is due depends on the base and the daily prices.
LEMMA DueKept == UNCHANGED <<base, daily>> => Due' = Due /\ \A i : Frozen(i)' = Frozen(i)
BY DEF Due, Ripe, Candidates, Price, Frozen, MedianPrice

\* What a session has looked at, as a fact of its own variables.
LEMMA LeftToFreeze ==
  ASSUME NEW e \in Sessions, FreezeAgrees(e), SessionInv(e), pc[e] = "select",
         NEW i \in Items, i \in unseen[e]
  PROVE  i \notin assigned[e] /\ items[e][i] = base[i] /\ (Ripe(items[e][i], i) <=> i \in Due)
BY DEF FreezeAgrees, SessionInv, ItemsFresh, Due

LEMMA LoadItemsFreeze ==
  ASSUME TypeInv, NEW e \in Sessions, LoadItems(e)
  PROVE  FreezeAgrees(e)'
<1>1. pc'[e] = "select" /\ unseen'[e] = Items /\ assigned'[e] = {}
  BY DEF LoadItems, TypeInv, TypeOK
<1> QED BY <1>1 DEF FreezeAgrees

LEMMA SelectBaseFreeze ==
  ASSUME TypeInv, NEW e \in Sessions, FreezeAgrees(e), SessionInv(e),
         NEW j \in Items, SelectBase(e, j)
  PROVE  FreezeAgrees(e)'
<1>1. /\ pc[e] = "select" /\ pc'[e] = "select" /\ j \in unseen[e]
      /\ UNCHANGED <<base, daily>>
      /\ unseen'[e] = unseen[e] \ {j}
  BY DEF SelectBase, store, TypeInv, TypeOK
<1>2. Due' = Due /\ \A i : Frozen(i)' = Frozen(i)
  BY <1>1, DueKept
<1>3. j \notin assigned[e] /\ (Ripe(items[e][j], j) <=> j \in Due)
  BY <1>1, LeftToFreeze
<1>4. \A i \in Items : IF i \in unseen[e] THEN i \notin assigned[e]
                       ELSE IF i \in Due THEN i \in assigned[e] /\ items[e][i] = Frozen(i)
                       ELSE i \notin assigned[e]
  BY <1>1 DEF FreezeAgrees
<1>5. CASE j \notin Due
  <2>1. items' = items /\ assigned' = assigned
    BY <1>3, <1>5 DEF SelectBase
  <2>2. \A i \in Items : IF i \in unseen'[e] THEN i \notin assigned'[e]
                         ELSE IF i \in Due THEN i \in assigned'[e] /\ items'[e][i] = Frozen(i)
                         ELSE i \notin assigned'[e]
    BY <1>1, <1>3, <1>4, <1>5, <2>1
  <2> QED BY <1>1, <1>2, <2>2 DEF FreezeAgrees
<1>6. CASE j \in Due
  <2>1. /\ items' = [items EXCEPT ![e][j] = Frozen(j)]
        /\ assigned' = [assigned EXCEPT ![e] = assigned[e] \cup {j}]
    BY <1>3, <1>6 DEF SelectBase, TypeInv, TypeOK
  <2>2. /\ \A i \in Items : items'[e][i] = IF i = j THEN Frozen(j) ELSE items[e][i]
        /\ assigned'[e] = assigned[e] \cup {j}
    BY <2>1 DEF TypeInv, TypeOK
  <2>3. \A i \in Items : IF i \in unseen'[e] THEN i \notin assigned'[e]
                         ELSE IF i \in Due THEN i \in assigned'[e] /\ items'[e][i] = Frozen(i)
                         ELSE i \notin assigned'[e]
    BY <1>1, <1>4, <1>6, <2>2
  <2> QED BY <1>1, <1>2, <2>3 DEF FreezeAgrees
<1> QED BY <1>5, <1>6

\* The commit freezes exactly what is due, and leaves nothing due.
LEMMA CommitFreezes ==
  ASSUME TypeInv, NEW e \in Sessions, FreezeAgrees(e), SessionInv(e), CommitBase(e)
  PROVE  /\ base' = [i \in Items |-> IF i \in Due THEN Frozen(i) ELSE base[i]]
         /\ UNCHANGED <<daily, index, inputs>>
         /\ Due' = {}
<1>1. /\ pc[e] = "select" /\ unseen[e] = {} /\ UNCHANGED <<daily, index, inputs>>
      /\ base' = [i \in Items |-> IF i \in assigned[e] THEN items[e][i] ELSE base[i]]
  BY DEF CommitBase
<1>2. \A i \in Items : IF i \in Due THEN i \in assigned[e] /\ items[e][i] = Frozen(i)
                                    ELSE i \notin assigned[e]
  BY <1>1 DEF FreezeAgrees
<1>3. base' = [i \in Items |-> IF i \in Due THEN Frozen(i) ELSE base[i]]
  BY <1>1, <1>2
<1>4. ASSUME NEW i \in Items PROVE i \notin Due'
  <2>1. Candidates(i)' = Candidates(i)
    BY <1>1 DEF Candidates, Price
  <2>2. CASE i \in Due
    <3>1. Cardinality(Candidates(i)) >= BaseDates
      BY <2>2 DEF Due, Ripe
    <3>2. Frozen(i).price > 0 /\ Frozen(i) \in BaseRow
      BY <3>1, FrozenIsMedian DEF TypeInv, TypeOK
    <3>3. base'[i] = Frozen(i)
      BY <1>3, <2>2
    <3>4. base'[i].price # 0
      BY <3>2, <3>3 DEF BaseRow
    <3> QED BY <3>4 DEF Due, Ripe
  <2>3. CASE i \notin Due
    <3>1. base'[i] = base[i]
      BY <1>3, <2>3
    <3> QED BY <2>1, <2>3, <3>1 DEF Due, Ripe
  <2> QED BY <2>2, <2>3
<1>5. Due' = {}
  BY <1>4 DEF Due
<1> QED BY <1>1, <1>3, <1>5

\* The steps of a session that is neither freezing nor on its way to its index.
LEMMA QuietFreeze ==
  ASSUME NEW e \in Sessions, pc'[e] \notin {"select", "read", "publish"}
  PROVE  FreezeAgrees(e)'
BY DEF FreezeAgrees

LEMMA FreezeStep ==
  ASSUME TypeInv, NEW e \in Sessions, FreezeAgrees(e), SessionInv(e), Acts(e)
  PROVE  FreezeAgrees(e)'
<1> DEFINE Past == pc'[e] \notin {"select", "read", "publish"}
<1>1. Leave(e) => Past
  BY DEF Leave, TypeInv, TypeOK
<1>2. ASSUME NEW r \in Runs, Recalculate(e, r) PROVE Past
  BY <1>2 DEF Recalculate, TypeInv, TypeOK
<1>3. CreateBasket(e) \/ FindPrices(e) \/ InsertPrices(e) => Past
  BY <1>1 DEF CreateBasket, FindPrices, InsertPrices, TypeInv, TypeOK
<1>4. RefreshAll(e) \/ SelectDays(e) \/ LoadPeriod(e) \/ InsertIndex(e) => Past
  BY <1>1 DEF RefreshAll, SelectDays, LoadPeriod, InsertIndex, TypeInv, TypeOK
<1>5. WritePeriod(e) => Past
  <2>1. ASSUME WritePeriod(e), ~Leave(e) PROVE pc' = [pc EXCEPT ![e] = "days"]
    BY <2>1 DEF WritePeriod
  <2> QED BY <1>1, <2>1 DEF TypeInv, TypeOK
<1>6. Crash(e) => Past
  BY <1>1 DEF Crash
<1>7. CASE CommitBase(e)
  <2>1. pc'[e] = "read"
    BY <1>7 DEF CommitBase, TypeInv, TypeOK
  <2> QED BY <1>7, <2>1, CommitFreezes DEF FreezeAgrees
<1>8. CASE FindIndex(e)
  <2>1. pc[e] = "read" /\ UNCHANGED <<base, daily>>
    BY <1>8 DEF FindIndex, store
  <2>2. Due' = {}
    BY <2>1, DueKept DEF FreezeAgrees
  <2>3. pc'[e] # "select"
    BY <1>1, <1>8 DEF FindIndex, TypeInv, TypeOK
  <2> QED BY <2>2, <2>3 DEF FreezeAgrees
<1> QED BY <1>2, <1>3, <1>4, <1>5, <1>6, <1>7, <1>8, LoadItemsFreeze, SelectBaseFreeze, QuietFreeze
    DEF Acts, Step

LEMMA ContractInvStep == Serial /\ ContractInv /\ [Next]_vars => ContractInv'
<1> SUFFICES ASSUME Serial, ContractInv, [Next]_vars PROVE ContractInv'
  OBVIOUS
<1>1. SerialInv' /\ TypeInv /\ AtMostOne
      /\ \A e \in Sessions : SessionInv(e) /\ FreezeAgrees(e)
  BY SerialStep DEF ContractInv, SerialInv
<1>2. CASE UNCHANGED vars
  <2>1. UNCHANGED <<base, daily, pc, unseen, assigned, items>>
    BY <1>2 DEF vars, store, local
  <2>2. \A e \in Sessions : FreezeAgrees(e)'
    BY <1>1, <2>1, DueKept DEF FreezeAgrees
  <2> QED BY <1>1, <2>2 DEF ContractInv
<1>3. ASSUME NEW e \in Sessions, Acts(e) PROVE ContractInv'
  <2>1. ASSUME NEW f \in Sessions PROVE FreezeAgrees(f)'
    <3>1. CASE f = e
      BY <1>1, <1>3, <3>1, FreezeStep
    <3>2. CASE f # e
      <4>1. pc'[f] = "idle"
        BY <1>1, <1>3, <3>2, AloneStep
      <4> QED BY <4>1, QuietFreeze
    <3> QED BY <3>1, <3>2
  <2> QED BY <1>1, <2>1 DEF ContractInv
<1> QED BY <1>2, <1>3 DEF Next, Acts

\* What a session has looked at is frozen or cannot be: at its commit nothing is left
\* to freeze (freeze_base_period_if_ready).
THEOREM ContractInvInvariant ==
  ASSUME Serial
  PROVE  Spec => []ContractInv
<1>1. Init => ContractInv
  BY SerialInit DEF Init, ContractInv, FreezeAgrees
<1>2. ContractInv /\ [Next]_vars => ContractInv'
  BY ContractInvStep
<1> QED BY <1>1, <1>2, PTL DEF Spec

\* Each commit of a session is a step of the contract, or none.
LEMMA OwnStep ==
  ASSUME TypeInv, NEW e \in Sessions, InsertPrices(e)
  PROVE  UNCHANGED Contract!vars \/ \E r \in Runs : Contract!Own(r)
<1>1. UNCHANGED <<base, index, inputs>>
  BY DEF InsertPrices
<1>2. CASE daily' = daily
  BY <1>1, <1>2 DEF Contract!vars
<1>3. CASE /\ daily[Day(e)] = NoRun
           /\ daily' = [daily EXCEPT ![Day(e)] = req[e]]
           /\ req[e] \in Runs
  <2>1. Contract!Own(req[e])
    BY <1>1, <1>3 DEF Contract!Own, Day
  <2> QED BY <1>3, <2>1
<1> QED BY <1>2, <1>3, PricesWritten

LEMMA FreezeCommit ==
  ASSUME TypeInv, NEW e \in Sessions, FreezeAgrees(e), SessionInv(e), CommitBase(e)
  PROVE  UNCHANGED Contract!vars \/ Contract!Freeze
<1>1. /\ base' = [i \in Items |-> IF i \in Due THEN Frozen(i) ELSE base[i]]
      /\ UNCHANGED <<daily, index, inputs>>
  BY CommitFreezes
<1>2. CASE Due = {}
  <2>1. base' = base
    BY <1>1, <1>2 DEF TypeInv, TypeOK
  <2> QED BY <1>1, <2>1 DEF Contract!vars
<1>3. CASE Due # {}
  <2>1. base' = [i \in Items |->
                   IF i \in Contract!Due
                   THEN Contract!BaseOver(i, Contract!Earliest(Contract!Priced(i), BaseDates))
                   ELSE base[i]]
    BY <1>1, ContractTerms
  <2>2. Contract!Due # {}
    BY <1>3, ContractTerms
  <2> QED BY <1>1, <2>1, <2>2 DEF Contract!Freeze
<1> QED BY <1>2, <1>3

LEMMA PublishStep ==
  ASSUME TypeInv, NEW e \in Sessions, FreezeAgrees(e), SessionInv(e), InsertIndex(e)
  PROVE  UNCHANGED Contract!vars \/ \E d \in Dates : Contract!Publish(d)
<1>1. pc[e] = "publish" /\ UNCHANGED <<daily, base, inputs>>
  BY DEF InsertIndex
<1>2. CASE index' = index
  BY <1>1, <1>2 DEF Contract!vars
<1>3. CASE /\ index[Day(e)] = NoIndex /\ Day(e) \in Dates
           /\ index' = [index EXCEPT ![Day(e)] = NewIndex(e)]
           /\ req[e] \in Runs /\ daily[Day(e)] = req[e]
  <2>1. items[e] = base /\ ready[e] = Based(base) /\ Due = {}
    BY <1>1 DEF SessionInv, ItemsFresh, FreezeAgrees
  <2>2. NewIndex(e) = [run      |-> daily[Day(e)],
                       complete |-> \A i \in Items : base[i].price > 0,
                       base     |-> [i \in Items |-> base[i].price]]
    BY <1>3, <2>1 DEF NewIndex, Based
  <2>3. daily[Day(e)] # NoRun
    BY <1>3, SeriesAssumption
  <2>4. Contract!Publish(Day(e))
    BY <1>1, <1>3, <2>1, <2>2, <2>3, ContractTerms DEF Contract!Publish
  <2> QED BY <1>3, <2>4
<1> QED BY <1>2, <1>3, IndexWritten

LEMMA AggregateStep ==
  ASSUME TypeInv, NEW e \in Sessions, SessionInv(e), WritePeriod(e)
  PROVE  \E p \in Periods : Contract!Aggregate(p)
<1> DEFINE p == Head(queue[e])
<1>1. UNCHANGED <<daily, base, index>>
  BY DEF WritePeriod
<1>2. p \in Periods /\ inputs' = [inputs EXCEPT ![p] = DaysOf(p)]
  BY WriteIsCurrent
<1>3. DaysOf(p) = {d \in Dates : /\ index[d] # Contract!Unindexed
                                 /\ p \in {PeriodsOf[d][1], PeriodsOf[d][2]}}
  BY ContractTerms DEF DaysOf, Indexed, InPeriod
<1>4. Contract!Aggregate(p)
  BY <1>1, <1>2, <1>3 DEF Contract!Aggregate
<1> QED BY <1>2, <1>4

LEMMA ContractStep ==
  ASSUME ContractInv, [Next]_vars
  PROVE  [Contract!Next]_(Contract!vars)
<1>1. TypeInv /\ \A e \in Sessions : SessionInv(e) /\ FreezeAgrees(e)
  BY DEF ContractInv, SerialInv
<1>2. CASE UNCHANGED vars
  BY <1>2 DEF vars, store, Contract!vars
<1>3. ASSUME NEW e \in Sessions, Acts(e) PROVE [Contract!Next]_(Contract!vars)
  <2>1. CASE InsertPrices(e)
    BY <1>1, <2>1, OwnStep DEF Contract!Next
  <2>2. CASE CommitBase(e)
    BY <1>1, <2>2, FreezeCommit DEF Contract!Next
  <2>3. CASE InsertIndex(e)
    BY <1>1, <2>3, PublishStep DEF Contract!Next
  <2>4. CASE WritePeriod(e)
    BY <1>1, <2>4, AggregateStep DEF Contract!Next
  <2>5. CASE ~InsertPrices(e) /\ ~CommitBase(e) /\ ~InsertIndex(e) /\ ~WritePeriod(e)
    <3>1. UNCHANGED <<base, index, inputs>>
      BY <1>3, <2>5, StoreWriters
    <3>2. daily' = daily
      BY <1>3, <2>5
         DEF Acts, Step, store, Recalculate, RefreshAll, CreateBasket, FindPrices, LoadItems,
             SelectBase, FindIndex, SelectDays, LoadPeriod, Crash
    <3> QED BY <3>1, <3>2 DEF Contract!vars
  <2> QED BY <2>1, <2>2, <2>3, <2>4, <2>5
<1> QED BY <1>2, <1>3 DEF Next, Acts

\* When requests do not overlap, whatever is repeated and wherever it dies, the series
\* keeps its contract: no index over a base that could have been frozen, no base frozen
\* twice or item by item, no date owned or indexed twice.
THEOREM SeriesImplementsContract ==
  ASSUME Serial
  PROVE  Spec => ContractSpec
<1>1. Init => Contract!Init
  BY ContractTerms DEF Init, Contract!Init, NoBase
<1>2. ContractInv /\ [Next]_vars => [Contract!Next]_(Contract!vars)
  BY ContractStep
<1> QED BY <1>1, <1>2, ContractInvInvariant, PTL DEF Spec, ContractSpec, Contract!Spec
=============================================================================
