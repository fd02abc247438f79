--------------------------- MODULE MCClaimWorker ---------------------------
(***************************************************************************)
(* What a person uploads, each batch as often as there are job files: a    *)
(* claim with two receipts; a claim with one and a bill; a claim with a    *)
(* receipt and a line without one.                                         *)
(***************************************************************************)
EXTENDS ClaimWorker, TLC

CONSTANTS taxi, hotel, parking, rent

\* Two job files: two batches, or one uploaded twice.
TwoJobs == 1..2
OneJob  == {1}

ClaimOnly    == {"claim"}
MCBatches    == {"claim", "bills"}
PairItems    == {taxi, hotel}
PairKind     == taxi :> "receipt" @@ hotel :> "receipt"
PairItemsOf  == [claim |-> {taxi, hotel}]
LineItems    == {taxi, parking}
LineKind     == taxi :> "receipt" @@ parking :> "line"
LineItemsOf  == [claim |-> {taxi, parking}]
MixedItems   == {taxi, rent}
MixedKind    == taxi :> "receipt" @@ rent :> "pdf"
MixedItemsOf == [claim |-> {taxi}, bills |-> {rent}]

\* The workers are alike, and so are the two receipts.
Alike == Permutations(Workers) \cup Permutations({taxi, hotel})
=============================================================================
