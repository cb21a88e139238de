------------------------------ MODULE MCBooks -------------------------------
(* What entries are allowed, on small instances: RegimeLedgers, on         *)
(* features at and around the thresholds of the classifier, PortfolioBook, *)
(* and EntryGates, with a symbol of the default strategy and two of a      *)
(* second one.  A behaviour is one of the three, the others rest.          *)
EXTENDS RegimeLedgers, PortfolioBook, EntryGates, TLC

VARIABLE part

StrategyTable  == <<1, 2, 2>>
SleeveSlots    == <<2, 1>>
SleeveNotional == <<3, 2>>

DrawdownValues == {-20, -9}
TrendValues    == {-2, 0, 2}

(* The symbols of the portfolio book are interchangeable. *)
Alike == Permutations(Tickers)

BooksInit ==
  /\ Init /\ BookInit /\ GatesInit
  /\ \/ part = "regimes"
     \/ part \in {"book", "gates"} /\ history = [fault |-> "missing"]

RegimesStep   == part = "regimes" /\ Next /\ UNCHANGED <<part, book_vars, g_vars>>
PortfolioStep == part = "book" /\ BookNext /\ UNCHANGED <<part, vars, g_vars>>
GatesStep     == part = "gates" /\ GatesNext /\ UNCHANGED <<part, vars, book_vars>>

BooksNext == RegimesStep \/ PortfolioStep \/ GatesStep

BooksSpec == BooksInit /\ [][BooksNext]_<<part, vars, book_vars, g_vars>>
=============================================================================
