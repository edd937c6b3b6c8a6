--------------------------- MODULE SeriesContract ---------------------------
(***************************************************************************)
(* What the index series of a data class promises to its readers, with no  *)
(* word of requests, sessions or crashes:                                  *)
(*                                                                         *)
(*   - a date has the prices of one run, for good;                         *)
(*   - an item gets its base once, from the earliest priced dates there    *)
(*     are by then, together with every other item that can have one;      *)
(*   - a date is indexed once, with its own prices, on the base as it is   *)
(*     when nothing in it is left to freeze;                               *)
(*   - the inputs of an aggregate are all the indices of its period at     *)
(*     some moment.                                                        *)
(*                                                                         *)
(* IndexSeries implements it as long as requests do not overlap.           *)
(***************************************************************************)
EXTENDS OrderStatistics, Naturals, FiniteSets

CONSTANTS Runs, NoRun, Dates, DateOf, Eligible, Items, PriceOf, BaseDates, Periods, PeriodsOf

VARIABLES
  owner,   \* per date, the run its prices come from
  base,    \* per item, its base price (0: none) and the dates it was made of
  index,   \* per date, its run, whether its base was complete, and that base
  inputs   \* per period, the dates its aggregate was made of

vars == <<owner, base, index, inputs>>

Unindexed == [run |-> NoRun, complete |-> FALSE, base |-> [i \in Items |-> 0]]

Init ==
  /\ owner  = [d \in Dates |-> NoRun]
  /\ base   = [i \in Items |-> [price |-> 0, days |-> {}]]
  /\ index  = [d \in Dates |-> Unindexed]
  /\ inputs = [p \in Periods |-> {}]

Cost(d, i) == PriceOf[owner[d]][i]
Priced(i)  == {d \in Dates : owner[d] \in Eligible /\ Cost(d, i) > 0}

\* The items without a base that could have one.
Due == {i \in Items : base[i].price = 0 /\ Cardinality(Priced(i)) >= BaseDates}

BaseOver(i, D) ==
  [price |-> (TwiceMedian([d \in D |-> Cost(d, i)]) + 1) \div 2, days |-> D]

Own(r) ==
  /\ owner[DateOf[r]] = NoRun
  /\ owner' = [owner EXCEPT ![DateOf[r]] = r]
  /\ UNCHANGED <<base, index, inputs>>

Freeze ==
  /\ Due # {}
  /\ base' = [i \in Items |-> IF i \in Due THEN BaseOver(i, Earliest(Priced(i), BaseDates))
                              ELSE base[i]]
  /\ UNCHANGED <<owner, index, inputs>>

Publish(d) ==
  /\ owner[d] # NoRun
  /\ index[d] = Unindexed
  /\ Due = {}
  /\ index' = [index EXCEPT ![d] = [run      |-> owner[d],
                                    complete |-> \A i \in Items : base[i].price > 0,
                                    base     |-> [i \in Items |-> base[i].price]]]
  /\ UNCHANGED <<owner, base, inputs>>

Aggregate(p) ==
  /\ inputs' = [inputs EXCEPT ![p] = {d \in Dates : /\ index[d] # Unindexed
                                                    /\ p \in {PeriodsOf[d][1], PeriodsOf[d][2]}}]
  /\ UNCHANGED <<owner, base, index>>

Next == \/ \E r \in Runs : Own(r)
        \/ Freeze
        \/ \E d \in Dates : Publish(d)
        \/ \E p \in Periods : Aggregate(p)

Spec == Init /\ [][Next]_vars
=============================================================================
