--------------------------- MODULE MCTrimPipeline ---------------------------
(* TrimPipeline on small instances. *)
EXTENDS TrimPipeline

(* At the stop loss, at the entry, at R1 and at R2. *)
FourPrices == {1, 2, 4, 6}

(* Below every price, and between the entry and R1. *)
TwoLevels == {0, 3}

=============================================================================
