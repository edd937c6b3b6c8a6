---------------------------- MODULE IndexSeries ----------------------------
(***************************************************************************)
(* The index of one data class: the basket and its base prices, the daily  *)
(* route-window prices, the daily indices and their weekly and monthly     *)
(* aggregates.                                                             *)
(*                                                                         *)
(*   indexing/basket.py     ensure_mvp_basket, freeze_base_period_if_ready *)
(*   indexing/aggregate.py  aggregate_route_window_prices                  *)
(*   indexing/service.py    calculate_index_for_run                        *)
(*   indexing/methodology.py  the publication status                       *)
(*   indexing/periods.py    refresh_period                                 *)
(*   api/v1/index.py        recalculate_index, recalculate_period_aggregates *)
(*                                                                         *)
(* An operator asks for the index of a finished run, or for all the        *)
(* aggregates again; nothing orders these requests.  Each is a session     *)
(* that commits several times.  An action is one commit, or the selects    *)
(* between two commits whose result the session uses later.                *)
(***************************************************************************)
EXTENDS OrderStatistics, Naturals, FiniteSets, Sequences, FiniteSetsExt

CONSTANTS
  Sessions,      \* requests that may be under way at the same time
  Runs,          \* collection runs that are COMPLETED or PARTIAL
  NoRun,         \* no collection run
  Dates,         \* methodological dates
  DateOf,        \* run -> its date
  Eligible,      \* runs that count for the base: of LIVE, the SCHEDULED ones
  Items,         \* basket items: route x advance window, equally weighted
  PriceOf,       \* run -> item -> its daily price, 0 when it has no fare
  BaseDates,     \* BASE_REQUIRED_DATES
  MinCoverage,   \* minimum coverage, in percent
  Periods,       \* weeks and months
  PeriodsOf,     \* date -> <<its week, its month>>
  MaxCrashes,    \* bound on the crashes of one behaviour
  Serial         \* TRUE: one request at a time

ASSUME SeriesAssumption ==
  /\ IsFiniteSet(Runs) /\ NoRun \notin Runs
  /\ IsFiniteSet(Periods)
  /\ IsFiniteSet(Items) /\ Items # {}
  /\ IsFiniteSet(Dates) /\ Dates \subseteq Nat \ {0}
  /\ DateOf \in [Runs -> Dates]
  /\ Eligible \subseteq Runs
  /\ PriceOf \in [Runs -> [Items -> Nat]]
  /\ BaseDates \in Nat \ {0}
  /\ MinCoverage \in 0..100
  /\ PeriodsOf \in [Dates -> Periods \X Periods]
  /\ MaxCrashes \in Nat
  /\ Serial \in BOOLEAN

\* An item's base: its price (0: not frozen) and the dates of its components.
BaseRow  == [price: Nat, days: SUBSET Dates]
NoBase   == [price |-> 0, days |-> {}]
\* base_start_date and base_end_date of the basket.
Window   == Nat \X Nat
NoWindow == <<0, 0>>
\* A daily index, with the base prices its components were computed from.
IndexRow == [run: Runs \cup {NoRun}, complete: BOOLEAN, base: [Items -> Nat]]
NoIndex  == [run |-> NoRun, complete |-> FALSE, base |-> [i \in Items |-> 0]]
\* A period's observed_day_count (0: no row) and valued_day_count.
Count    == [observed: Nat, valued: Nat]
NoCount  == [observed |-> 0, valued |-> 0]

VARIABLES
  basket,     \* the basket and its items are stored
  base,       \* per item, its base
  window,     \* the basket's base dates
  daily,      \* per date, the run that owns its daily prices
  index,      \* per date, its index
  period,     \* per week and month, the counts of its aggregate
  inputs,     \* per week and month, its period_index_inputs
  pc,         \* per session, where it stands
  req,        \* per session, the run asked for
  basketSeen, \* per session, the basket's base dates as loaded
  items,      \* per session, the item rows as loaded and assigned
  unseen,     \* per session, the items freeze_base_period_if_ready has yet to look at
  assigned,   \* per session, the items it has given a base
  ready,      \* per session, freeze_base_period_if_ready's result
  queue,      \* per session, the periods left to refresh
  days,       \* per session, the dates selected for the period
  rows,       \* per session, the aggregates in its identity map
  crashes     \* how many sessions have died

store == <<basket, base, window, daily, index, period, inputs>>
local == <<req, basketSeen, items, unseen, assigned, ready, queue, days, rows>>
vars  == <<store, pc, local, crashes>>

At(e, label)   == pc[e] = label
Goto(e, label) == pc' = [pc EXCEPT ![e] = label]
Day(e)         == DateOf[req[e]]

Init ==
  /\ basket = FALSE
  /\ base = [i \in Items |-> NoBase]
  /\ window = NoWindow
  /\ daily = [d \in Dates |-> NoRun]
  /\ index = [d \in Dates |-> NoIndex]
  /\ period = [p \in Periods |-> NoCount]
  /\ inputs = [p \in Periods |-> {}]
  /\ pc = [e \in Sessions |-> "idle"]
  /\ req = [e \in Sessions |-> NoRun]
  /\ basketSeen = [e \in Sessions |-> NoWindow]
  /\ items = [e \in Sessions |-> [i \in Items |-> NoBase]]
  /\ unseen = [e \in Sessions |-> {}]
  /\ assigned = [e \in Sessions |-> {}]
  /\ ready = [e \in Sessions |-> FALSE]
  /\ queue = [e \in Sessions |-> <<>>]
  /\ days = [e \in Sessions |-> {}]
  /\ rows = [e \in Sessions |-> [p \in Periods |-> NoCount]]
  /\ crashes = 0

\* The session ends: the call returns, raises, or its process dies.
Leave(e) ==
  /\ Goto(e, "idle")
  /\ req' = [req EXCEPT ![e] = NoRun]
  /\ basketSeen' = [basketSeen EXCEPT ![e] = NoWindow]
  /\ items' = [items EXCEPT ![e] = [i \in Items |-> NoBase]]
  /\ unseen' = [unseen EXCEPT ![e] = {}]
  /\ assigned' = [assigned EXCEPT ![e] = {}]
  /\ ready' = [ready EXCEPT ![e] = FALSE]
  /\ queue' = [queue EXCEPT ![e] = <<>>]
  /\ days' = [days EXCEPT ![e] = {}]
  /\ rows' = [rows EXCEPT ![e] = [p \in Periods |-> NoCount]]

-----------------------------------------------------------------------------
(* Slips a maintainer could make in the definition each is named after; no  *)
(* specification uses them.                                                 *)

UnownedUnchecked(d)            == TRUE
DatedEarly(e)                  == assigned[e] # {} /\ basketSeen[e] = NoWindow
NewIndexUngated(e)             == [run |-> req[e], complete |-> TRUE,
                                   base |-> [i \in Items |-> items[e][i].price]]
RefreshWeekOnly(e, Q)          == queue' = [queue EXCEPT ![e] = <<Q[1]>>]
RefreshAppended(e, Q)          == queue' = [queue EXCEPT ![e] = Append(@, Q)]
ColumnOnce(loaded, new, stored) == IF stored = 0 THEN new ELSE stored

-----------------------------------------------------------------------------
(* The base.                                                               *)

\* The stored price a date has for an item.
Price(d, i) == PriceOf[daily[d]][i]

\* The dates whose price counts for the base of an item.
Candidates(i) ==
  {d \in Dates : daily[d] \in Eligible /\ Price(d, i) > 0}

\* The median price of an item over the dates D, rounded half up by the
\* numeric(12, 2) column.
MedianPrice(i, D) == (TwiceMedian([d \in D |-> Price(d, i)]) + 1) \div 2

\* The base an item would get now.
Frozen(i) == LET D == Earliest(Candidates(i), BaseDates)
             IN  [price |-> MedianPrice(i, D), days |-> D]

\* (A slip: frozen items are not skipped.)
RipeAgain(row, i) == Cardinality(Candidates(i)) >= BaseDates

\* An item, loaded without a base, that is ready to get one.
Ripe(row, i) == row.price = 0 /\ Cardinality(Candidates(i)) >= BaseDates

\* The dates of all the components: the basket's base dates are the ends.
Span(loaded) == LET D == UNION {loaded[i].days : i \in Items}
                IN  IF D = {} THEN NoWindow ELSE <<Min(D), Max(D)>>

-----------------------------------------------------------------------------
(* The publication status of an index.                                     *)

Available(x)    == {i \in Items : PriceOf[x.run][i] > 0 /\ x.base[i] > 0}
Covered(x)      == 100 * Cardinality(Available(x)) >= MinCoverage * Cardinality(Items)
Status(x)       == CASE ~x.complete -> "PROVISIONAL_BASE"
                     [] x.complete /\ Covered(x) -> "PUBLISHED"
                     [] x.complete /\ ~Covered(x) -> "INSUFFICIENT_COVERAGE"

Indexed         == {d \in Dates : index[d] # NoIndex}
Published(D)    == {d \in D : Status(index[d]) = "PUBLISHED" /\ Available(index[d]) # {}}
InPeriod(d, p)  == p \in {PeriodsOf[d][1], PeriodsOf[d][2]}
DaysOf(p)       == {d \in Indexed : InPeriod(d, p)}

-----------------------------------------------------------------------------
(* The request: recalculate_index, or the CLI's apix-run, for the run r.   *)

Alone == Serial => \A f \in Sessions : At(f, "idle")

\* ensure_mvp_basket's select.
Recalculate(e, r) ==
  /\ At(e, "idle")
  /\ Alone
  /\ req' = [req EXCEPT ![e] = r]
  /\ basketSeen' = [basketSeen EXCEPT ![e] = window]
  /\ Goto(e, IF basket THEN "aggregate" ELSE "create")
  /\ UNCHANGED <<store, items, unseen, assigned, ready, queue, days, rows, crashes>>

\* ... and its insert; basket_versions.version is unique.
CreateBasket(e) ==
  /\ At(e, "create")
  /\ \/ /\ ~basket
        /\ basket' = TRUE
        /\ Goto(e, "aggregate")
        /\ UNCHANGED local
     \/ /\ basket
        /\ Leave(e)
        /\ UNCHANGED basket
  /\ UNCHANGED <<base, window, daily, index, period, inputs, crashes>>

-----------------------------------------------------------------------------
(* The daily prices.                                                       *)

Unowned(d) == daily[d] = NoRun

\* The select of the date's rows: the run's own are returned, those of another
\* run raise.
FindPrices(e) ==
  /\ At(e, "aggregate")
  /\ \/ /\ daily[Day(e)] = req[e]
        /\ Goto(e, "load")
        /\ UNCHANGED local
     \/ /\ daily[Day(e)] \notin {req[e], NoRun}
        /\ Leave(e)
     \/ /\ Unowned(Day(e))
        /\ Goto(e, "insert")
        /\ UNCHANGED local
  /\ UNCHANGED <<store, crashes>>

\* One row per item, in one commit; uq_daily_route_window_price refuses a second
\* row for the date.
InsertPrices(e) ==
  /\ At(e, "insert")
  /\ \/ /\ Unowned(Day(e))
        /\ daily' = [daily EXCEPT ![Day(e)] = req[e]]
        /\ Goto(e, "load")
        /\ UNCHANGED local
     \/ /\ ~Unowned(Day(e))
        /\ Leave(e)
        /\ UNCHANGED daily
  /\ UNCHANGED <<basket, base, window, index, period, inputs, crashes>>

-----------------------------------------------------------------------------
(* freeze_base_period_if_ready.                                            *)

LoadItems(e) ==
  /\ At(e, "load")
  /\ items' = [items EXCEPT ![e] = base]
  /\ unseen' = [unseen EXCEPT ![e] = Items]
  /\ assigned' = [assigned EXCEPT ![e] = {}]
  /\ Goto(e, "select")
  /\ UNCHANGED <<store, req, basketSeen, ready, queue, days, rows, crashes>>

\* One item of the loop: the select of its candidates; its row is assigned in memory.
SelectBase(e, i) ==
  /\ At(e, "select")
  /\ i \in unseen[e]
  /\ unseen' = [unseen EXCEPT ![e] = @ \ {i}]
  /\ IF Ripe(items[e][i], i)
     THEN /\ items' = [items EXCEPT ![e][i] = Frozen(i)]
          /\ assigned' = [assigned EXCEPT ![e] = @ \cup {i}]
     ELSE UNCHANGED <<items, assigned>>
  /\ UNCHANGED <<store, pc, req, basketSeen, ready, queue, days, rows, crashes>>

Complete(e) == \A i \in Items : items[e][i].price > 0
Dated(e)    == Complete(e) /\ basketSeen[e] = NoWindow

\* The commit writes the item rows it has assigned, and the basket's base dates
\* when the session knows of none.
CommitBase(e) ==
  /\ At(e, "select")
  /\ unseen[e] = {}
  /\ base' = [i \in Items |-> IF i \in assigned[e] THEN items[e][i] ELSE base[i]]
  /\ window' = IF Dated(e) THEN Span(items[e]) ELSE window
  /\ basketSeen' = [basketSeen EXCEPT ![e] = IF Dated(e) THEN window' ELSE @]
  /\ assigned' = [assigned EXCEPT ![e] = {}]
  /\ ready' = [ready EXCEPT ![e] = Complete(e)]
  /\ Goto(e, "read")
  /\ UNCHANGED <<basket, daily, index, period, inputs,
                 req, items, unseen, queue, days, rows, crashes>>

-----------------------------------------------------------------------------
(* The daily index.                                                        *)

Refresh(e, Q) == queue' = [queue EXCEPT ![e] = Q]

\* The select of the date's index: the run's own has its aggregates refreshed,
\* another run's raises; else the item rows are loaded again.
FindIndex(e) ==
  /\ At(e, "read")
  /\ \/ /\ index[Day(e)].run = req[e]
        /\ Refresh(e, PeriodsOf[Day(e)])
        /\ Goto(e, "days")
        /\ UNCHANGED <<req, basketSeen, items, unseen, assigned, ready, days, rows>>
     \/ /\ index[Day(e)].run \notin {req[e], NoRun}
        /\ Leave(e)
     \/ /\ index[Day(e)] = NoIndex
        /\ items' = [items EXCEPT ![e] = base]
        /\ Goto(e, "publish")
        /\ UNCHANGED <<req, basketSeen, unseen, assigned, ready, queue, days, rows>>
  /\ UNCHANGED <<store, crashes>>

NewIndex(e) == [run      |-> req[e],
                complete |-> ready[e],
                base     |-> [i \in Items |-> items[e][i].price]]

\* The index and its components, in one commit; uq_daily_index_version.
InsertIndex(e) ==
  /\ At(e, "publish")
  /\ \/ /\ index[Day(e)] = NoIndex
        /\ index' = [index EXCEPT ![Day(e)] = NewIndex(e)]
        /\ Refresh(e, PeriodsOf[Day(e)])
        /\ Goto(e, "days")
        /\ UNCHANGED <<req, basketSeen, items, unseen, assigned, ready, days, rows>>
     \/ /\ index[Day(e)] # NoIndex
        /\ Leave(e)
        /\ UNCHANGED index
  /\ UNCHANGED <<basket, base, window, daily, period, inputs, crashes>>

-----------------------------------------------------------------------------
(* refresh_period, for each period of the queue.                           *)

\* recalculate_period_aggregates: the week and month of every index, by date.
ByDate   == [k \in 1..Cardinality(Indexed) |->
              CHOOSE d \in Indexed : Cardinality({c \in Indexed : c < d}) = k - 1]
BackfillWeeks == [k \in 1..Len(ByDate) |-> PeriodsOf[ByDate[k]][1]]   \* a slip
Backfill == [k \in 1..(2 * Len(ByDate)) |->
              PeriodsOf[ByDate[(k + 1) \div 2]][IF k % 2 = 1 THEN 1 ELSE 2]]

RefreshAll(e) ==
  /\ At(e, "idle")
  /\ Alone
  /\ Indexed # {}
  /\ Refresh(e, Backfill)
  /\ Goto(e, "days")
  /\ UNCHANGED <<store, req, basketSeen, items, unseen, assigned, ready, days, rows, crashes>>

SelectDays(e) ==
  /\ At(e, "days")
  /\ days' = [days EXCEPT ![e] = DaysOf(Head(queue[e]))]
  /\ Goto(e, "row")
  /\ UNCHANGED <<store, req, basketSeen, items, unseen, assigned, ready, queue, rows, crashes>>

\* The select of the aggregate; a row in the identity map keeps the values it has
\* there.
LoadPeriod(e) ==
  LET p == Head(queue[e])
  IN  /\ At(e, "row")
      /\ rows' = [rows EXCEPT ![e][p] = IF @ = NoCount THEN period[p] ELSE @]
      /\ Goto(e, "write")
      /\ UNCHANGED <<store, req, basketSeen, items, unseen, assigned, ready, queue, days, crashes>>

\* A column is written only when the assigned value differs from the loaded one.
Column(loaded, new, stored) == IF new = loaded THEN stored ELSE new

Counts(D) == [observed |-> Cardinality(D), valued |-> Cardinality(Published(D))]

\* The old inputs are deleted, the counts assigned, the new inputs inserted, in one
\* transaction.  It fails when a row it inserts is there already: the aggregate
\* (uq_period_index_version), or inputs another refresh committed while this one
\* waited to delete the old ones.
WritePeriod(e) ==
  LET p      == Head(queue[e])
      loaded == rows[e][p]
      new    == Counts(days[e])
  IN  /\ At(e, "write")
      /\ \/ /\ loaded # NoCount \/ period[p] = NoCount
            /\ period' = [period EXCEPT ![p] =
                 [observed |-> Column(loaded.observed, new.observed, @.observed),
                  valued   |-> Column(loaded.valued, new.valued, @.valued)]]
            /\ inputs' = [inputs EXCEPT ![p] = days[e]]
            /\ IF Len(queue[e]) > 1
               THEN /\ rows' = [rows EXCEPT ![e][p] = period'[p]]
                    /\ Refresh(e, Tail(queue[e]))
                    /\ Goto(e, "days")
                    /\ UNCHANGED <<req, basketSeen, items, unseen, assigned, ready, days>>
               ELSE Leave(e)
         \/ /\ period[p] # loaded
            /\ Leave(e)
            /\ UNCHANGED <<period, inputs>>
      /\ UNCHANGED <<basket, base, window, daily, index, crashes>>

-----------------------------------------------------------------------------
\* The process dies, or the database refuses a commit.
Crash(e) ==
  /\ ~At(e, "idle")
  /\ crashes < MaxCrashes
  /\ crashes' = crashes + 1
  /\ Leave(e)
  /\ UNCHANGED store

Step(e) ==
  \/ CreateBasket(e)
  \/ FindPrices(e) \/ InsertPrices(e)
  \/ LoadItems(e) \/ (\E i \in Items : SelectBase(e, i)) \/ CommitBase(e)
  \/ FindIndex(e) \/ InsertIndex(e)
  \/ SelectDays(e) \/ LoadPeriod(e) \/ WritePeriod(e)

Next ==
  \E e \in Sessions : \/ \E r \in Runs : Recalculate(e, r)
                      \/ RefreshAll(e)
                      \/ Step(e)
                      \/ Crash(e)

Spec == Init /\ [][Next]_vars

\* A session that is alive goes on: it waits for nothing but the database.
Progress == \A e \in Sessions : WF_vars(Step(e))

\* Somebody keeps asking for the aggregates: after a crash nothing in the code
\* does.
Asked == \A e \in Sessions : SF_vars(RefreshAll(e))

AskedSpec == Spec /\ Progress /\ Asked
-----------------------------------------------------------------------------
(* Properties.                                                             *)

Labels == {"idle", "create", "aggregate", "insert", "load", "select",
           "read", "publish", "days", "row", "write"}

TypeOK ==
  /\ basket \in BOOLEAN
  /\ base \in [Items -> BaseRow]
  /\ window \in Window
  /\ daily \in [Dates -> Runs \cup {NoRun}]
  /\ index \in [Dates -> IndexRow]
  /\ period \in [Periods -> Count]
  /\ inputs \in [Periods -> SUBSET Dates]
  /\ pc \in [Sessions -> Labels]
  /\ req \in [Sessions -> Runs \cup {NoRun}]
  /\ basketSeen \in [Sessions -> Window]
  /\ items \in [Sessions -> [Items -> BaseRow]]
  /\ unseen \in [Sessions -> SUBSET Items]
  /\ assigned \in [Sessions -> SUBSET Items]
  /\ ready \in [Sessions -> BOOLEAN]
  /\ queue \in [Sessions -> Seq(Periods)]
  /\ days \in [Sessions -> SUBSET Dates]
  /\ rows \in [Sessions -> [Periods -> Count]]
  /\ crashes \in 0..MaxCrashes

\* Every index, and every price row, of a date comes from the run that owns the
\* date, whatever sessions race for it (aggregate.py:66-67, service.py:59-61).
IndexMatchesPrices ==
  \A d \in Dates : index[d] # NoIndex => index[d].run = daily[d] /\ DateOf[daily[d]] = d

\* Daily prices and indices are written once: no request for another run of the
\* date, and no overlap, changes them ("historical published values are not
\* silently rewritten", docs/methodology.md:231-232).
SeriesOnlyGrows ==
  [][\A d \in Dates : /\ daily[d] # NoRun => daily'[d] = daily[d]
                      /\ index[d] # NoIndex => index'[d] = index[d]]_vars

\* A frozen base price is the median of exactly BaseDates daily prices, of eligible
\* runs, that are still stored (docs/methodology.md:219-228).
BaseIsMedian ==
  \A i \in Items : base[i].price > 0 =>
    /\ Cardinality(base[i].days) = BaseDates
    /\ base[i].days \subseteq Candidates(i)
    /\ base[i].price = MedianPrice(i, base[i].days)

\* A frozen base price never changes (basket.py:98-99; "a frozen basket base cannot
\* be changed", basket.py:161).
BaseFrozen == [][\A i \in Items : base[i].price > 0 => base'[i] = base[i]]_vars

\* The indices of the series that carry a value all refer to one base, the stored
\* one: their values compare.
SeriesSharesBase ==
  \A d \in Dates : index[d].complete =>
    \A i \in Items : index[d].base[i] = base[i].price /\ base[i].price > 0

\* The basket is dated when its base is complete, by the first and the last date of
\* its components.
BaseDated ==
  window = IF \A i \in Items : base[i].price > 0 THEN Span(base) ELSE NoWindow

\* The counts of an aggregate are those of the daily indices linked to it, and
\* these are indices of its period ("period_index_inputs preserves every daily row
\* considered", docs/architecture.md:278-279).
PeriodLineage ==
  \A p \in Periods : period[p] = Counts(inputs[p]) /\ inputs[p] \subseteq DaysOf(p)

\* When no request is under way and none has died, every aggregate includes every
\* index of its period.
PeriodsCurrent ==
  crashes = 0 /\ (\A e \in Sessions : At(e, "idle")) =>
    \A p \in Periods : inputs[p] = DaysOf(p)

\* An index a dying request left out of its aggregates gets into them, if the
\* aggregates are asked for.
PeriodsCatchUp ==
  \A d \in Dates : index[d] # NoIndex ~> \A k \in {1, 2} : d \in inputs[PeriodsOf[d][k]]

\* Without overlap, the series keeps the contract of SeriesContract: however requests
\* are repeated and wherever they die, dates are owned and indexed once, an index is
\* never published over a base that could have been frozen, and a base is frozen once.
Contract == INSTANCE SeriesContract WITH owner <- daily
ContractSpec == Contract!Spec
=============================================================================
