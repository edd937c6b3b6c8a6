--------------------------- MODULE MCFarePipeline ---------------------------
(***************************************************************************)
(* Instances of FarePipeline for TLC: one airline and two agencies, two    *)
(* routes, and the answers that bring out the ties, duplicates, conflicts  *)
(* and outliers of a cell.                                                 *)
(***************************************************************************)
EXTENDS FarePipeline

CONSTANTS air, ota1, ota2, raises

MCSources  == {air, ota1, ota2}
MCDirect   == {air}
busy       == <<"DEL-BOM", "T7">>
late       == <<"DEL-BOM", "T45">>
quiet      == <<"DEL-BLR", "T7">>
MCSearches == {busy, late, quiet}

Quote(h, flight, total) ==
  [hash |-> h, flight |-> flight, class |-> "PUBLIC_ECONOMY", total |-> total,
   parts |-> <<total - 10, 10, 0, 0, 0>>, date |-> "asked", airports |-> "asked",
   currency |-> "INR", cabin |-> "ECONOMY", nonstop |-> TRUE,
   availability |-> "AVAILABLE", readable |-> TRUE]

\* A quote with everything wrong has more flags than its score can pay for.
Hopeless(h) ==
  [Quote(h, None, -5) EXCEPT !.currency = "USD", !.nonstop = FALSE, !.cabin = "BUSINESS",
                             !.availability = "SOLD_OUT", !.airports = None]
NoTaxes(h)  == [Quote(h, "F", 100) EXCEPT !.parts = <<90, None, None, None, None>>]
TaxOver(h)  == [Quote(h, "G", 100) EXCEPT !.parts = <<None, 120, None, None, None>>]
BadSum(h)   == [Quote(h, "G", 100) EXCEPT !.parts = <<50, 10, 0, 0, 0>>]
WrongDay(h) == [Quote(h, "G", 100) EXCEPT !.date = "other"]
Garbled(h)  == [Quote(h, "G", 100) EXCEPT !.readable = FALSE]

\* The last answer of ota2 has duplicates that hide an outlier: it shows in a
\* second pass, over 100, 101, 102, 103 and 115, when a session dies between
\* the fares and the verdict.
MCAnswers == [j \in MCSources \X MCSearches |->
  CASE j = <<air, busy>> ->
         {<<TaxOver(1)>>, <<Quote(1, "F", 100)>>,
          <<Quote(1, "F", 130), Quote(2, "F", 100), WrongDay(3)>>,
          <<Quote(1, "F", 100), Quote(2, "F", 100), Quote(3, "G", 103)>>}
    [] j = <<ota1, busy>> ->
         {<<Quote(1, "F", 101), BadSum(2), Quote(3, "G", 103)>>,
          <<Quote(1, "F", 100), Quote(2, "G", 103), Quote(3, "H", 900)>>,
          <<NoTaxes(1), Garbled(2), Quote(3, "H", 100)>>, raises}
    [] j = <<ota2, busy>> ->
         {<<Quote(1, "F", 111), Quote(2, "G", 100), Quote(3, "G", 100), Quote(4, "H", 101)>>,
          <<Quote(1, "G", 100), Hopeless(2), Quote(3, "H", 900), Quote(4, "H", 900)>>,
          <<Quote(1, "F", 102), Quote(2, "G", 115), Quote(3, "G", 115), Quote(4, "G", 115)>>}
    [] j = <<air, quiet>> -> {<<>>, <<Quote(1, "K", 200)>>}
    [] j = <<ota1, quiet>> -> {<<Quote(1, "K", 203)>>, raises}
    [] j = <<ota1, late>> -> {<<Quote(1, "L", 50)>>}
    [] OTHER -> {<<>>}]

MCWeight == [s \in MCSearches |-> IF s = late THEN 1 ELSE 2]
MCBases  == {[s \in MCSearches |-> IF s = quiet THEN b ELSE 10] : b \in {15, None}}
=============================================================================
