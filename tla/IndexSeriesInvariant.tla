------------------------ MODULE IndexSeriesInvariant ------------------------
(***************************************************************************)
(* The inductive invariants of IndexSeries: SeriesInv, overlap or not, and *)
(* SerialInv, when requests do not overlap.  TLC checks them as they stand *)
(* and IndexSeriesProofs proves them.                                      *)
(***************************************************************************)
EXTENDS IndexSeries

Asking     == {"create", "aggregate", "insert"}
Owning     == {"load", "select", "read", "publish"}
Refreshing == {"days", "row", "write"}

-----------------------------------------------------------------------------
(* Overlap or not.                                                         *)

\* A request for a run knows it, and past the daily prices its run owns the date.
RequestReady(e) ==
  /\ pc[e] \in Asking \cup Owning => req[e] \in Runs
  /\ pc[e] \in Owning => daily[Day(e)] = req[e]
  /\ pc[e] \in Refreshing => queue[e] # <<>>

TypeInv == TypeOK /\ \A e \in Sessions : RequestReady(e)

\* The rows of a date come from one run of the date.
DatesAreOwned ==
  \A d \in Dates : /\ daily[d] # NoRun => DateOf[daily[d]] = d
                   /\ index[d] # NoIndex => index[d].run = daily[d] /\ daily[d] # NoRun

\* A base row that is the median of its dates.
IsMedian(i, row) ==
  /\ Cardinality(row.days) = BaseDates
  /\ row.days \subseteq Candidates(i)
  /\ row.price = MedianPrice(i, row.days)

\* What a session has assigned and not committed yet is a median.
AssignedAreMedians ==
  \A e \in Sessions : \A i \in assigned[e] :
    pc[e] = "select" /\ IsMedian(i, items[e][i])

SeriesInv == TypeInv /\ DatesAreOwned /\ BaseIsMedian /\ AssignedAreMedians

-----------------------------------------------------------------------------
(* One request at a time.                                                  *)

AtMostOne == \A e, f \in Sessions : pc[e] # "idle" /\ pc[f] # "idle" => e = f

Based(rowsOf) == \A i \in Items : rowsOf[i].price > 0

\* The item rows it holds are the stored ones, but for the bases it has assigned,
\* which are not frozen yet.
ItemsFresh(e) ==
  /\ pc[e] = "select" =>
       \A i \in Items : IF i \in assigned[e] THEN base[i].price = 0 /\ items[e][i].price > 0
                                             ELSE items[e][i] = base[i]
  /\ pc[e] \in {"read", "publish"} => items[e] = base /\ ready[e] = Based(base)

BasketFresh(e) == pc[e] \in Asking \cup Owning => basketSeen[e] = window

\* The dates and the aggregates it holds are the stored ones; outside a refresh it
\* holds none.
RefreshFresh(e) ==
  /\ pc[e] \in {"row", "write"} => days[e] = DaysOf(Head(queue[e]))
  /\ \A p \in Periods : rows[e][p] \in {NoCount, period[p]}
  /\ pc[e] \notin Refreshing => rows[e] = [p \in Periods |-> NoCount]
  /\ pc[e] = "write" => rows[e][Head(queue[e])] = period[Head(queue[e])]

SessionInv(e) == ItemsFresh(e) /\ BasketFresh(e) /\ RefreshFresh(e)

Queued(e) == {queue[e][k] : k \in 1..Len(queue[e])}

\* A period that lacks an index is still to be refreshed.
PeriodsAwaited ==
  crashes = 0 =>
    \A p \in Periods :
      \/ inputs[p] = DaysOf(p)
      \/ \E e \in Sessions : pc[e] \in Refreshing /\ p \in Queued(e)

SerialInv ==
  /\ TypeInv
  /\ AtMostOne
  /\ SeriesSharesBase
  /\ BaseDated
  /\ PeriodLineage
  /\ PeriodsAwaited
  /\ \A e \in Sessions : SessionInv(e)

-----------------------------------------------------------------------------
(* For the contract: nothing a session has looked at is left to freeze.    *)

Due == {i \in Items : Ripe(base[i], i)}

FreezeAgrees(e) ==
  /\ pc[e] = "select" =>
       \A i \in Items : IF i \in unseen[e] THEN i \notin assigned[e]
                       ELSE IF i \in Due THEN i \in assigned[e] /\ items[e][i] = Frozen(i)
                       ELSE i \notin assigned[e]
  /\ pc[e] \in {"read", "publish"} => Due = {}

ContractInv == SerialInv /\ \A e \in Sessions : FreezeAgrees(e)
=============================================================================
