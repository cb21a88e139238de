----------------------------- MODULE MCPlatform -----------------------------
(* The analytics platform on small instances: ReadModels, its server, and  *)
(* AnalyticsPlatform, its answers.  A behaviour is one of the two, the     *)
(* other rests.                                                            *)
EXTENDS ReadModels, AnalyticsPlatform

VARIABLE part

Decision(intents, rejected, blocks) ==
  [id |-> Len(intents), intents |-> intents, accepted |-> Len(intents), rejected |-> rejected,
   blocks |-> blocks]
Bought(s, sym, n) == [strategy |-> s, symbol |-> sym, qty |-> n]

Event(s, b, regime, should, intents, current, targets) ==
  [strategy |-> s, book |-> b, regime |-> regime, should |-> should,
   intents |-> intents, current |-> current, targets |-> targets]
Trade_(id, sym, side, delta) == [id |-> id, symbol |-> sym, side |-> side, delta |-> delta]
RunOf(targets) ==
  [strategy |-> "COORD", split |-> [V3 |-> 20, V4 |-> 55, V5 |-> 25],
   results |-> targets]

(* The rebalances of V1, entries of S2; fill times are on a scale of their  *)
(* own.                                                                    *)
Order_(s, no, side, sym, status, n, price, at) ==
  [type |-> "ORDER_STATUS", book |-> IF s = "S2" THEN "S2_ALPACA" ELSE "ALPACA_PAPER",
   strategy |-> s, order |-> no,
   symbol |-> sym, side |-> side, status |-> status, filled |-> n, price |-> price,
   filled_at |-> at, stop |-> IF s = "S2" THEN 8 ELSE 0]

Held(sym, n, value) == [symbol |-> sym, qty |-> n, value |-> value]
Account(total, positions) ==
  [total |-> total, cash |-> 100, positions |-> positions,
   orders |-> <<[order |-> 1, symbol |-> "A", side |-> "buy", filled |-> 1]>>]

SomeRecords ==
  [decisions |-> {Decision(<<Bought("", "A", 1)>>, <<>>, <<>>),
                   Decision(<<Bought("S1", "A", 2), Bought("S2", "B", 1)>>,
                            <<[symbol |-> "C", reason |-> "CAP"]>>, <<"MARKET">>)},
   signals |-> {[symbol |-> "A", eligible |-> TRUE, selected |-> TRUE, reasons |-> <<>>],
                 [symbol |-> "B", eligible |-> FALSE, selected |-> FALSE,
                  reasons |-> <<"THIN", "GAP">>]},
   controls |-> {[multiplier |-> 50, positions |-> 2]},
   throttles |-> {[multiplier |-> 100, slots |-> 1]},
   regimes |-> {[label |-> "RISK_ON"], [label |-> "RISK_OFF"], [label |-> ""]},
   raec |-> {Event("V3", "SCHWAB", "RISK_ON", TRUE, <<Trade_("t1", "SPY", "BUY", 10)>>,
                    "VTI" :> 100, ("SPY" :> 60) @@ ("VTI" :> 40)),
              Event("V3", "SCHWAB", "RISK_ON", FALSE, <<>>, "SPY" :> 60, "SPY" :> 60),
              Event("V1", "ALPACA", "RISK_OFF", TRUE, <<Trade_("t2", "A", "SELL", -20)>>,
                    "A" :> 100, "PSQ" :> 80)},
   coord |-> {RunOf("V3" :> (("SPY" :> 60) @@ ("PSQ" :> 40))), RunOf(<<>>)},
   slippage |-> {[type |-> "EXECUTION_SLIPPAGE", strategy |-> "S1", symbol |-> "A",
                   bps |-> 10, bucket |-> "high", time |-> "open"],
                  [type |-> "OTHER"]},
   orders |-> {Order_("V1", 1, "buy", "A", "filled", 2, 10, 1),
                Order_("V1", 2, "buy", "A", "filled", 2, 12, 2),
                Order_("V1", 3, "sell", "A", "filled", 2, 14, 3),
                Order_("V1", 4, "sell", "A", "filled", 2, 9, 4),
                Order_("S2", 5, "buy", "B", "partially_filled", 1, 20, 0),
                Order_("S2", 5, "buy", "B", "filled", 2, 20, 2),
                Order_("", 6, "buy", "A", "new", 0, 0, 0)},
   snapshots |-> {[total |-> 100, gross |-> 50, positions |-> <<>>],
                   [total |-> 80, gross |-> 60,
                    positions |-> <<[strategy |-> "S1", symbol |-> "A", notional |-> 40],
                                    [strategy |-> "V1", symbol |-> "A", notional |-> 20]>>]},
   schwab |-> {[type |-> "ticket", id |-> "t1", symbol |-> "SPY", qty |-> 2],
                [type |-> "confirmation", id |-> "t1", status |-> "EXECUTED", qty |-> <<2>>],
                [type |-> "confirmation", id |-> "t1", status |-> "PARTIAL", qty |-> <<1>>]},
   backtests |-> {[run |-> "run1", metrics |-> "sharpe" :> 1, curve |-> <<>>],
                   [run |-> "run2", metrics |-> "sharpe" :> 2, curve |-> <<5, -1, 7, 8>>]},
   scan |-> {[candidates |-> <<>>],
              [candidates |-> <<[day |-> 1, symbol |-> "A", direction |-> "long"],
                                [day |-> 1, symbol |-> "B", direction |-> "short"]>>]},
   closes |-> {[symbol |-> "SPY", close |-> 100, volume |-> 1],
                [symbol |-> "SPY", close |-> 90, volume |-> 2],
                [symbol |-> "VTI", close |-> 50, volume |-> 0]},
   v6 |-> {[start |-> 100, equity |-> 90, cash |-> 10, held |-> "SPY" :> 80,
             weights |-> "SPY" :> 80, shares |-> "S1" :> 100, failed |-> {}]}]

SomeAccounts == {Account(1000, <<Held("SPY", 2, 600), Held("VTI", 1, 300)>>),
                 Account(1200, <<Held("SPY", 1, 700)>>)}

Together(names, n, days, queries) == <<names, n, days, queries>>

SomeGrowing ==
  {Together({"decisions", "regimes"}, 3, 3,
            {"overview", "strategies/compare", "decisions/timeseries", "risk/controls", "journal",
             "analytics/trades", "strategies/matrix", "regime-narrative"}),
   Together({"raec"}, 4, 4, {"raec/dashboard", "pnl", "raec/readiness",
                             "schwab/trade-instructions"}),
   Together({"raec", "coord", "regimes"}, 2, 2, {"journal", "trade/today", "regime-narrative",
                                                 "strategies/matrix", "data-freshness"}),
   Together({"orders"}, 4, 2, {"performance", "exports"}),
   Together({"schwab", "sync"}, 4, 2, {"schwab/overview"}),
   Together({"sync", "closes"}, 3, 2, {"schwab/performance", "horizon-projection",
                                       "performance", "data-freshness"}),
   Together({"raec", "coord", "sync"}, 3, 2, {"rebalance/dashboard",
                                              "schwab/trade-instructions"}),
   Together({"coord", "closes"}, 4, 2, {"sub-strategy-dd", "scan"}),
   Together({"raec", "v6"}, 2, 2, {"v6"}),
   Together({"decisions", "snapshots"}, 2, 2, {"portfolio/overview", "portfolio/positions",
                                               "portfolio/history", "strategies/matrix"}),
   Together({"signals", "slippage", "scan"}, 2, 2, {"signals/s2", "execution/slippage", "scan"}),
   Together({"controls", "throttles", "backtests"}, 2, 2, {"risk/controls", "backtests"})}

SomeQuotes == {110}

PlatformInit ==
  /\ Init /\ LedgersEmpty
  /\ \/ part = "server" /\ growing = (CHOOSE g \in SomeGrowing : TRUE)
     \/ part = "answers"

ServerNext  == part = "server" /\ Next /\ UNCHANGED <<part, platform_vars>>
AnswersNext == part = "answers" /\ LedgersGrow /\ UNCHANGED <<part, vars>>

PlatformNext == ServerNext \/ AnswersNext

(* The fairness of ReadModels. *)
PlatformSpec ==
  /\ PlatformInit /\ [][PlatformNext]_<<part, vars, platform_vars>>
  /\ WF_<<part, vars, platform_vars>>(part = "server" /\ Refresh /\ UNCHANGED <<part, platform_vars>>)
  /\ \A c \in Clients :
       WF_<<part, vars, platform_vars>>(part = "server" /\ Answer(c) /\ UNCHANGED <<part, platform_vars>>)

(* That of ReadModels, where it runs. *)
ServerShowsChanges == part = "server" => ChangesAppear
=============================================================================
