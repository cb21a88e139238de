----------------------------- MODULE MCBacktests -----------------------------
(* The two daily backtests on small instances: V6Allocation, and           *)
(* BacktestEngine.  A behaviour is one of the two, the other rests.        *)
EXTENDS V6Allocation, BacktestEngine

VARIABLE part

Bar(o, h, l, c) == [o |-> o, h |-> h, l |-> l, c |-> c]

(* Up to R1, up to R2, a bar that touches everything, a gap below the stop.*)
FewBars == {Bar(3, 4, 3, 4), Bar(3, 5, 3, 5), Bar(3, 5, 2, 4), Bar(1, 1, 1, 1)}

(* Nothing tells one symbol from another. *)
Alike == Permutations(Symbols)

Vols == [SPY |-> 16, QQQ |-> 20, TQQQ |-> 60, XLK |-> 22, XLE |-> 30, AIQ |-> 28, CIBR |-> 25,
         GLD |-> 15, TLT |-> 14, EDV |-> 20, TBT |-> 28, SHY |-> 2, IEF |-> 7, HYG |-> 8,
         JNK |-> 8, IBIT |-> 55, ETHA |-> 70, BITI |-> 55, PSQ |-> 20, SDS |-> 32, SH |-> 16]

Bull ==
  [vol |-> 12, down |-> 1, slope |-> 4, vix |-> 14, volpct |-> 20, leveraged |-> {"TQQQ"},
   trend |-> [equity_us_broad |-> 20, metal |-> 5, crypto |-> 15, bond_long |-> -5],
   momentum |-> [SPY |-> 9, QQQ |-> 12, TQQQ |-> 30], sectors |-> [XLK |-> 9, XLE |-> -3],
   themes |-> [AIQ |-> 20, CIBR |-> 8], curve |-> -15, credit |-> 25, btc |-> 30, eth |-> 15,
   vols |-> Vols]

(* Between the two, with half of the series missing. *)
Middle ==
  [Bull EXCEPT !.vol = 0, !.slope = 1, !.vix = 20, !.volpct = 50, !.curve = 15, !.credit = 5,
     !.trend = [equity_us_broad |-> 5, metal |-> 3, bond_short |-> 1],
     !.momentum = [SPY |-> 5, QQQ |-> 4, TQQQ |-> 3], !.themes = <<>>, !.sectors = <<>>,
     !.btc = 0, !.eth = 0, !.vols = [SHY |-> 2, IEF |-> 7, SPY |-> 16, QQQ |-> 20, GLD |-> 15]]

Bear ==
  [Bull EXCEPT !.vol = 45, !.down = 25, !.slope = -5, !.vix = 60, !.volpct = 95, !.curve = 25,
     !.credit = -30, !.trend = [equity_us_broad |-> -25, metal |-> 10],
     !.momentum = [SPY |-> -5, QQQ |-> -8, TQQQ |-> -20], !.sectors = [XLK |-> -2, XLE |-> 4],
     !.themes = [AIQ |-> -10], !.btc = -20, !.eth = -12]

SomeMarkets == {Bull, Middle, Bear}

(* Some weights move by less than is traded, others by more. *)
SomeDrifts == {[TQQQ |-> 40, QQQ |-> -40, SPY |-> 200, TLT |-> -60]}

BacktestsInit ==
  /\ V6Init /\ EngineInit
  /\ \/ part = "engine" /\ market = Bull
     \/ part = "v6" /\ entry_model = "next_open" /\ \A s \in Symbols : ~Traded(s)

EngineStep == part = "engine" /\ EngineNext /\ UNCHANGED <<part, v6_vars>>
V6Step     == part = "v6" /\ V6Next /\ UNCHANGED <<part, e_vars>>

BacktestsNext == EngineStep \/ V6Step

BacktestsSpec == BacktestsInit /\ [][BacktestsNext]_<<part, v6_vars, e_vars>>

=============================================================================
