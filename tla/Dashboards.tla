----------------------------- MODULE Dashboards -----------------------------
(***************************************************************************)
(* What the analytics platform answers: the queries of api/queries.py as   *)
(* functions of the tables, the state files and the live price.  A window  *)
(* is a pair of days.  A set of rows with one row per key is a function of *)
(* the key; an order is kept where an answer depends on it.  Percentages   *)
(* are cut to whole numbers, weights are percents.                         *)
(***************************************************************************)
EXTENDS ReadTables, TLC

CONSTANT Page   \* bound: the most rows of a list, for the limits of the queries

VARIABLES
  ledgers,   \* per ledger its records
  today,
  states,    \* the state files of the RAEC strategies
  quote      \* the live price of SPY and VTI, 0 when there is none

-----------------------------------------------------------------------------
(* SQL.                                                                    *)
Within(rows, w)      == SelectSeq(rows, LAMBDA r : w[1] <= r.day /\ r.day <= w[2])
On(rows, d)          == Within(rows, <<d, d>>)
SumOver(rows, F(_))    == FoldLeft(LAMBDA n, r : n + F(r), 0, rows)
Count(rows, P(_))    == Len(SelectSeq(rows, P))
Column(rows, K(_))   == {K(rows[i]) : i \in DOMAIN rows}
GroupBy(rows, K(_), F(_)) ==
  [k \in Column(rows, K) |-> F(SelectSeq(rows, LAMBDA r : K(r) = k))]

Symbol(r)   == r.symbol
Strategy(r) == r.strategy
Day(r)      == r.day
Symbols(rows) == Column(rows, Symbol)

Newer(r, s)        == r.day > s.day \/ (r.day = s.day /\ r.ts > s.ts)
NewestFirst(rows)  == SortSeq(rows, Newer)
First(rows, n)     == SubSeq(rows, 1, Min({n, Len(rows)}))
Latest(rows)       == First(NewestFirst(rows), 1)
LastDay(rows)      == Max(Column(rows, Day) \cup {0})
Mean(rows, F(_))   == IF rows = <<>> THEN 0 ELSE SumOver(rows, F) \div Len(rows)

-----------------------------------------------------------------------------
(* get_overview, and the two views of the same rows by day and strategy.   *)
CycleTotals(rows) ==
  [cycles |-> Len(rows), intents |-> SumOver(rows, LAMBDA r : r.intents),
   accepted |-> SumOver(rows, LAMBDA r : r.accepted),
   rejected |-> SumOver(rows, LAMBDA r : r.rejected),
   blocks |-> SumOver(rows, LAMBDA r : r.blocks)]

SignalQuality(signals) ==
  [rows |-> Len(signals), eligible |-> Count(signals, LAMBDA r : r.eligible),
   selected |-> Count(signals, LAMBDA r : r.selected)]

Overview(t, w) ==
  [totals |-> CycleTotals(Within(t.cycles, w)),
   strategies |-> GroupBy(Within(t.intents, w), Strategy,
                          LAMBDA g : [rows |-> Len(g), qty |-> SumOver(g, LAMBDA r : r.qty)]),
   s2 |-> SignalQuality(t.signals),
   rejections |-> GroupBy(Within(t.rejections, w), LAMBDA r : r.reason,
                          LAMBDA g : SumOver(g, LAMBDA r : r.count))]

Compare(t, w) ==
  [strategies |-> GroupBy(Within(t.intents, w), Strategy,
                          LAMBDA g : [rows |-> Len(g), symbols |-> Cardinality(Symbols(g)),
                                      qty |-> SumOver(g, LAMBDA r : r.qty)]),
   s2 |-> SignalQuality(t.signals),
   reasons |-> GroupBy(ManyRowsOf(t.signals, LAMBDA r : r.reasons), LAMBDA c : c, Len)]

TimeSeries(t, w) == GroupBy(Within(t.cycles, w), Day, CycleTotals)

(* get_s2_signals: the filters given, a reason being a part of a code.     *)
S2Signals(t, d, eligible) ==
  First(SelectSeq(t.signals, LAMBDA r : (d = 0 \/ r.day = d) /\ r.eligible = eligible), Page)

RiskView(t, w) ==
  [controls |-> Within(t.controls, w), regimes |-> Within(t.regimes, w)]

BacktestRuns(t) == t.runs
BacktestRun(t, run) ==
  LET ofRun(rows) == SelectSeq(rows, LAMBDA r : r.run = run)
  IN IF ofRun(t.runs) = <<>> THEN "not found"
     ELSE [run |-> Head(ofRun(t.runs)), metrics |-> ofRun(t.metrics),
           curve |-> First(ofRun(t.equity), Page)]

-----------------------------------------------------------------------------
(* get_strategy_performance.  Fills are paired per strategy and symbol, the *)
(* n-th buy with the n-th sell, in the order of the fills: a row is a fill  *)
(* whatever its quantity, and a state of an order is a row.  Fills are      *)
(* given by their places in the table, a trade by the places of its two.    *)
FilledStates == {"filled", "partially_filled"}
IsFill(r)    == r.filled > 0 /\ r.status \in FilledStates
Fills(rows, s, side) ==
  {i \in DOMAIN rows : rows[i].strategy = s /\ rows[i].side = side /\ IsFill(rows[i])}
Buys(rows, s)  == Fills(rows, s, "buy")
Sells(rows, s) == Fills(rows, s, "sell")

OfSymbol(rows, places, sym) == {i \in places : rows[i].symbol = sym}

(* By the time of the last fill; an order filled in part has none yet, and *)
(* comes last.                                                             *)
NoLater(rows, j, i) ==
  LET at(k) == rows[k].filled_at
  IN IF at(j) = at(i) THEN j <= i ELSE at(i) = 0 \/ (at(j) # 0 /\ at(j) < at(i))

(* The how-manieth of the places of its symbol a place is.                 *)
Rank(rows, places, i) ==
  Cardinality({j \in OfSymbol(rows, places, rows[i].symbol) : NoLater(rows, j, i)})

(* Mutant: every buy takes the first sell. *)
Pairs_FirstSell(rows, s) ==
  {p \in Buys(rows, s) \X Sells(rows, s) :
     rows[p[1]].symbol = rows[p[2]].symbol /\ Rank(rows, Sells(rows, s), p[2]) = 1}

Pairs(rows, s) ==
  {p \in Buys(rows, s) \X Sells(rows, s) :
     /\ rows[p[1]].symbol = rows[p[2]].symbol
     /\ Rank(rows, Buys(rows, s), p[1]) = Rank(rows, Sells(rows, s), p[2])}

SumOf(F)        == MapThenSumSet(LAMBDA x : F[x], DOMAIN F)
Profit(rows, p) == rows[p[2]].price - rows[p[1]].price
HasR(buy)       == buy.stop # 0 /\ buy.price \notin {0, buy.stop}

OpenBuys(rows, s) == {b \in Buys(rows, s) : \A p \in Pairs(rows, s) : p[1] # b}

(* The longest run of trades that made nothing, symbol by symbol in the     *)
(* order of their first buys: not in time.                                 *)
ListedBefore(rows, s, p, q) ==
  LET first(b) == CHOOSE i \in OfSymbol(rows, Buys(rows, s), rows[b].symbol) :
                    Rank(rows, Buys(rows, s), i) = 1
      i == first(p[1])
      j == first(q[1])
  IN IF i = j THEN NoLater(rows, p[1], q[1]) ELSE NoLater(rows, i, j)

LosingRun(rows, s) ==
  LET listed == SetToSortSeq(Pairs(rows, s), LAMBDA p, q : ListedBefore(rows, s, p, q))
      step(acc, p) == IF Profit(rows, p) > 0 THEN [acc EXCEPT !.now = 0]
                      ELSE [now |-> acc.now + 1, most |-> Max({acc.most, acc.now + 1})]
  IN FoldLeft(step, [now |-> 0, most |-> 0], listed).most

SwingMetrics(orders) ==
  LET ordered(s)  == {i \in DOMAIN orders : orders[i].strategy = s /\ orders[i].side = "buy"}
      metrics(s) ==
        LET pairs == Pairs(orders, s)
        IN [closed |-> Cardinality(pairs), open |-> Cardinality(OpenBuys(orders, s)),
            wins |-> Cardinality({p \in pairs : Profit(orders, p) > 0}),
            pnl |-> SumOf([p \in pairs |-> Profit(orders, p)]),
            losers |-> LosingRun(orders, s),
            with_r |-> Cardinality({p \in pairs : HasR(orders[p[1]])}),
            days |-> SumOf([p \in pairs |-> orders[p[2]].day - orders[p[1]].day]),
            filled |-> Cardinality(Buys(orders, s)), buys |-> Cardinality(ordered(s)),
            enough |-> Cardinality(pairs) >= 5]
  IN [s \in {orders[i].strategy : i \in {j \in DOMAIN orders :
                                          IsFill(orders[j]) \/ orders[j].side = "buy"}} \ {""}
        |-> metrics(s)]

(* Returns and the deepest fall below a running peak, in percent.          *)
Percent(now, base) == ((now - base) * 100) \div base

DeepestFall(values) ==
  LET step(acc, v) == LET peak == Max({acc.peak, v})
                      IN [peak |-> peak, worst |-> Min({acc.worst, Percent(v, peak)})]
  IN IF values = <<>> THEN 0
     ELSE FoldLeft(step, [peak |-> values[1], worst |-> 0], values).worst

PortfolioMetrics(t, w) ==
  LET rows == Within(t.snapshots, w)
      capitals == SelectSeq(RowsOf(rows, LAMBDA r : r.total), LAMBDA c : c # 0)
  IN [points |-> Len(rows), enough |-> Len(rows) >= 10,
      total |-> IF Len(capitals) < 2 THEN <<>> ELSE <<Percent(Last(capitals), capitals[1])>>,
      fall |-> IF Len(capitals) < 2 THEN <<>> ELSE <<DeepestFall(capitals)>>]

(* The closes of SPY with the live price as the close of today.            *)
WithLive(rows, w) ==
  IF quote = 0 \/ w[2] < today THEN rows
  ELSE IF On(rows, today) = <<>> THEN
    Append(rows, [day |-> today, symbol |-> "SPY", close |-> quote])
  ELSE RowsOf(rows, LAMBDA r : IF r.day = today THEN [r EXCEPT !.close = quote] ELSE r)

Benchmark(t, w) ==
  LET spy == SelectSeq(Within(t.benchmark, w), LAMBDA r : r.symbol = "SPY")
      rows == WithLive(spy, w)
  IN [curve |-> rows,
      total |-> IF Len(rows) < 2 THEN <<>> ELSE <<Percent(Last(rows).close, rows[1].close)>>]

RebalanceCount(events) == Count(events, LAMBDA r : r.should)
RegimesSeen(events)    == Cardinality(Column(events, LAMBDA r : r.regime))

RaecMetrics(t, w) ==
  GroupBy(Within(t.events, w), Strategy, LAMBDA g :
    [rebalances |-> RebalanceCount(g), regimes |-> RegimesSeen(g),
     current |-> Latest(g)[1].regime,
     turnover |-> Mean(SelectSeq(Within(t.raec_intents, w),
                                 LAMBDA r : r.strategy = g[1].strategy),
                       LAMBDA r : IF r.delta < 0 THEN -r.delta ELSE r.delta)])

Performance(t, w) ==
  LET mine == PortfolioMetrics(t, w).total
      spy  == Benchmark(t, w).total
      excess == IF <<>> \in {mine, spy} THEN <<>> ELSE <<mine[1] - spy[1]>>
  IN [swing |-> SwingMetrics(Within(t.orders, w)), portfolio |-> PortfolioMetrics(t, w),
      benchmark |-> Benchmark(t, w), excess |-> excess, raec |-> RaecMetrics(t, w),
      log |-> First(NewestFirst(Within(t.orders, w)), Page)]

-----------------------------------------------------------------------------
(* RAEC: get_raec_dashboard, get_journal, get_raec_readiness, get_pnl.     *)
RaecDashboard(t, w) ==
  LET rows == Within(t.events, w)
      newest(s) == LastDay(SelectSeq(Within(t.allocations, w), LAMBDA r : r.strategy = s))
  IN [strategies |-> GroupBy(rows, Strategy, LAMBDA g :
        [events |-> Len(g), rebalances |-> RebalanceCount(g), evaluated |-> LastDay(g),
         regime |-> Latest(g)[1].regime]),
      history |-> rows,
      allocations |-> SelectSeq(t.allocations, LAMBDA r : r.day = newest(r.strategy)),
      events |-> First(NewestFirst(rows), Page)]

Entry(r, source, regime) ==
  [day |-> r.day, ts |-> r.ts, strategy |-> r.strategy, symbol |-> r.symbol,
   side |-> r.side, source |-> source, regime |-> regime]

(* A LEFT JOIN: a row per match, or one without.                           *)
JoinedTo(r, source, matches, Label(_)) ==
  IF matches = <<>> THEN <<Entry(r, source, <<>>)>>
  ELSE RowsOf(matches, LAMBDA m : Entry(r, source, <<Label(m)>>))

(* The union of both kinds of intents with the regime of their day, an     *)
(* intent once per event of its strategy on that day, or per regime record. *)
JournalRows(t) ==
  ManyRowsOf(t.raec_intents, LAMBDA r :
    JoinedTo(r, "raec", SelectSeq(t.events, LAMBDA e : e.day = r.day /\ e.strategy = r.strategy),
             LAMBDA e : e.regime))
  \o ManyRowsOf(t.intents, LAMBDA r :
       JoinedTo(r, "decision", On(t.regimes, r.day), LAMBDA g : g.label))

(* Decision intents say "buy", the others "BUY" or "SELL", and the filter  *)
(* is made upper-case.                                                     *)
Journal(t, w, strategies, sides) ==
  First(NewestFirst(SelectSeq(Within(JournalRows(t), w), LAMBDA r :
          r.strategy \in strategies /\ (sides = {} \/ r.side \in sides))), Page)

BookOf == [V1 |-> "ALPACA", V2 |-> "ALPACA", V3 |-> "SCHWAB", V4 |-> "SCHWAB",
           V5 |-> "SCHWAB", COORD |-> "SCHWAB"]

(* A file that cannot be parsed counts as missing, under another name.     *)
ReadinessWarnings(t, s) ==
  LET f == states[s]
  IN (IF f.found THEN {} ELSE {"missing_state_file"})
     \cup (IF f.found /\ f.evaluated < today THEN {"stale_eval"} ELSE {})
     \cup (IF ~f.found \/ f.allocations = <<>> THEN {"no_allocations"} ELSE {})
     \cup (IF BookOf[s] # "ALPACA" THEN {}
           ELSE IF t.snapshots = <<>> THEN {"no_portfolio_snapshot"}
           ELSE IF LastDay(t.snapshots) < today THEN {"stale_portfolio_snapshot"} ELSE {})

Readiness(t) ==
  [s \in DOMAIN BookOf |->
     [book |-> BookOf[s], warnings |-> ReadinessWarnings(t, s),
      weight |-> MapThenSumSet(LAMBDA x : states[s].allocations[x],
                               DOMAIN states[s].allocations),
      written |-> \E r \in Range(ledgers.raec \o ledgers.coord) :
                    r.day = today /\ r.strategy = s]]

(* The table of allocations has no column book: with a book the query      *)
(* fails, and so does the request.                                         *)
Pnl(t, w, with_book) ==
  LET weight(rows, kind) == SumOver(rows, LAMBDA r : IF r.kind = kind THEN r.weight ELSE 0)
  IN IF with_book THEN "error"
     ELSE [strategies |-> GroupBy(Within(t.events, w), Strategy, LAMBDA g :
             [evaluations |-> Len(g), rebalances |-> RebalanceCount(g),
              regimes |-> RegimesSeen(g)]),
           drift |-> GroupBy(Within(t.allocations, w), LAMBDA r : <<r.day, r.strategy>>,
             LAMBDA g : weight(g, "target") - weight(g, "current"))]

-----------------------------------------------------------------------------
(* get_slippage_dashboard.                                                 *)
Bps(r) == r.bps
Spread(rows) ==
  [rows |-> Len(rows), mean |-> Mean(rows, Bps), least |-> Min(Column(rows, Bps)),
   most |-> Max(Column(rows, Bps))]

Slippage(t, w) ==
  LET rows == Within(t.slippage, w)
  IN [mean |-> Mean(rows, Bps), rows |-> Len(rows),
      buckets |-> GroupBy(rows, LAMBDA r : r.bucket, Spread),
      times |-> GroupBy(rows, LAMBDA r : r.time, Spread),
      symbols |-> GroupBy(rows, Symbol, LAMBDA g : Mean(g, Bps)),
      trend |-> GroupBy(rows, Day, LAMBDA g : Mean(g, Bps))]

-----------------------------------------------------------------------------
(* The portfolio: the latest snapshot, and the positions of a date.        *)
Exposure(rows) == GroupBy(rows, Strategy, LAMBDA g : SumOver(g, LAMBDA r : r.notional))

Share(x, whole) == IF whole = 0 THEN 0 ELSE (x * 100) \div whole

PortfolioOverview(t, w) ==
  LET held == On(t.positions, LastDay(t.snapshots))
      whole == SumOver(held, LAMBDA r : r.notional)
  IN [day |-> LastDay(t.snapshots),
      positions |-> RowsOf(held, LAMBDA r : <<r.symbol, Share(r.notional, whole)>>),
      exposure |-> Exposure(held), history |-> Within(t.snapshots, w)]

(* Without a date the latest that has positions, which need not be the     *)
(* latest of a snapshot.                                                   *)
PortfolioPositions(t, date) ==
  LET d == IF date = 0 THEN LastDay(t.positions) ELSE date
      held == On(t.positions, d)
      whole == SumOver(held, LAMBDA r : r.notional)
  IN [day |-> d, whole |-> whole,
      strategies |-> GroupBy(held, Strategy, LAMBDA g :
        RowsOf(g, LAMBDA r : <<r.symbol, Share(r.notional, whole)>>))]

PortfolioHistory(t, w) == Within(t.snapshots, w)

(* get_strategy_matrix: the strategies of both kinds, and the symbols that *)
(* more than one of them has traded or holds.                              *)
StrategyMatrix(t) ==
  LET held == On(t.positions, LastDay(t.positions))
      traded(rows) == {<<rows[i].symbol, rows[i].strategy>> : i \in DOMAIN rows}
      uses == traded(t.intents) \cup traded(t.raec_intents) \cup traded(held)
      users(sym) == {u[2] : u \in {v \in uses : v[1] = sym}}
  IN [decision |-> GroupBy(t.intents, Strategy, LAMBDA g :
        [trades |-> Len(g), symbols |-> Cardinality(Symbols(g)),
         regime |-> RowsOf(Latest(t.regimes), LAMBDA r : r.label)]),
      raec |-> GroupBy(t.events, Strategy, LAMBDA g :
        [events |-> Len(g), regime |-> Latest(g)[1].regime, book |-> Latest(g)[1].book]),
      exposure |-> Exposure(held),
      overlap |-> {sym \in {u[1] : u \in uses} : Cardinality(users(sym)) > 1}]

-----------------------------------------------------------------------------
(* The 401k account: get_schwab_overview, _performance, and what to trade. *)
Subs == {"V3", "V4", "V5"}

AccountTotal(t) == SumOver(Latest(t.accounts), LAMBDA r : r.total)

(* Every positions row of the date, of each sync of that date.             *)
HoldingWeights(rows) ==
  LET whole == SumOver(rows, LAMBDA r : r.value)
  IN RowsOf(rows, LAMBDA r : [symbol |-> r.symbol, value |-> r.value,
                              weight |-> Share(r.value, whole)])

SchwabOverview(t, w) ==
  [account |-> Latest(t.accounts), history |-> Within(t.accounts, w),
   positions |-> HoldingWeights(On(t.holdings, LastDay(t.accounts))),
   orders |-> First(NewestFirst(t.broker_orders), Page),
   reconciliation |-> Latest(t.reconciliations)]

(* get_schwab_trade_instructions: the last three days with intents of the  *)
(* subs, or, when there is no intent at all, with an evaluation.           *)
InstructionDays == 3

OfSubs(rows) == {i \in DOMAIN rows : rows[i].strategy \in Subs}
DaysOf(rows) == {rows[i].day : i \in OfSubs(rows)}
LastDays(days) == {d \in days : Cardinality({e \in days : e > d}) < InstructionDays}

(* Mutant: the days are those of the evaluations, whether they have intents or not. *)
DaysShown_OfEvents(t) == LastDays(DaysOf(t.events))

DaysShown(t) ==
  LastDays(IF DaysOf(t.raec_intents) # {} THEN DaysOf(t.raec_intents) ELSE DaysOf(t.events))

AtLeast(total) == Max({250, total \div 200})   \* 250 dollars, or half a percent

Dollars(delta, total) == ((IF delta < 0 THEN -delta ELSE delta) * total) \div 100

SubsOn(rows, d) == {i \in OfSubs(rows) : rows[i].day = d}

Instruction(r, total) == [id |-> r.id, actionable |-> Dollars(r.delta, total) >= AtLeast(total)]

Instructions(t) ==
  [d \in DaysShown(t) |->
     [intents |-> [i \in SubsOn(t.raec_intents, d) |->
                     Instruction(t.raec_intents[i], AccountTotal(t))],
      events  |-> [i \in SubsOn(t.events, d) |-> t.events[i]]]]

(* get_schwab_performance: the last balance of each day against the closes *)
(* of a fund.  A day without a close takes that of the day of the balance  *)
(* before, the first the closest before it; closes of other days in        *)
(* between are not looked at.                                              *)
LastOfDay(rows) ==
  LET days == SetToSortSeq(Column(rows, Day), LAMBDA a, b : a < b)
  IN RowsOf(days, LAMBDA d : Latest(On(rows, d))[1])

CloseOn(t, fund, d) ==
  LET rows == SelectSeq(On(t.benchmark, d), LAMBDA r : r.symbol = fund)
  IN IF d = today /\ quote # 0 THEN quote
     ELSE IF rows = <<>> THEN 0 ELSE Last(rows).close

BaseClose(t, fund, d) ==
  LET known == {e \in 0..d : CloseOn(t, fund, e) # 0}
  IN IF known = {} THEN 0 ELSE CloseOn(t, fund, Max(known))

FundReturns(t, fund, days) ==
  LET base == BaseClose(t, fund, days[1])
      step(acc, d) == LET c == CloseOn(t, fund, d)
                      IN Append(acc, IF c # 0 THEN c ELSE Last(acc))
      closes == FoldLeft(step, <<base>>, days)
  IN RowsOf(Tail(closes), LAMBDA c : IF base = 0 THEN <<>> ELSE <<Percent(c, base)>>)

SchwabPerformance(t, w) ==
  LET rows == LastOfDay(Within(t.accounts, w))
      days == RowsOf(rows, Day)
  IN IF Len(rows) < 2 THEN [series |-> <<>>]
     ELSE [series |-> RowsOf(rows, LAMBDA r : IF rows[1].total = 0 THEN 0
                                               ELSE Percent(r.total, rows[1].total)),
           spy |-> FundReturns(t, "SPY", days), vti |-> FundReturns(t, "VTI", days)]

(* get_trade_analytics counts sides in upper case, so no decision intent.  *)
Traded(t, w, strategies) ==
  SelectSeq(Within(t.intents \o t.raec_intents, w), LAMBDA r : r.strategy \in strategies)

TradeAnalytics(t, w, strategies) ==
  LET rows == Traded(t, w, strategies)
  IN [strategies |-> GroupBy(rows, Strategy, LAMBDA g :
        [trades |-> Len(g), symbols |-> Cardinality(Symbols(g)),
         buys |-> Count(g, LAMBDA r : r.side = "BUY"),
         sells |-> Count(g, LAMBDA r : r.side = "SELL")]),
      days |-> GroupBy(rows, Day, Len),
      symbols |-> GroupBy(rows, Symbol, Len)]

TodaysTrades(t, d) ==
  [run |-> Latest(On(t.runs_of_coord, d)), events |-> On(t.events, d),
   intents |-> On(t.raec_intents, d), allocations |-> On(t.allocations, d),
   positions |-> HoldingWeights(On(t.holdings, LastDay(t.accounts))),
   any_rebalance |-> \E i \in DOMAIN On(t.events, d) : On(t.events, d)[i].should,
   evaluated |-> [s \in DOMAIN BookOf |-> states[s].evaluated]]

ScanCandidates(t, d, direction) ==
  [latest |-> LastDay(t.candidates),
   rows |-> First(SelectSeq(t.candidates, LAMBDA r :
              (d = 0 \/ r.day = d) /\ direction \in {"", r.direction}), Page)]

-----------------------------------------------------------------------------
(* get_horizon_projection, over whatever time the balances span.  Growth   *)
(* over the years to retirement is that of the span, as often as it fits.  *)
Goal == 1500
Spans == 2   \* spans between the last balance and retirement

Verdict(projected) ==
  IF 100 * projected >= 105 * Goal THEN "AHEAD"
  ELSE IF 100 * projected >= 95 * Goal THEN "ON TRACK" ELSE "BEHIND"

Projected(first, last) ==
  FoldLeft(LAMBDA v, i : (v * last) \div first, last, [i \in 1..Spans |-> i])

Drawdowns(values) ==
  LET step(acc, v) ==
        IF v <= 0 THEN acc
        ELSE LET peak == Max({acc.peak, v})
             IN [peak |-> peak, out |-> Append(acc.out, Percent(v, peak))]
  IN FoldLeft(step, [peak |-> 0, out |-> <<>>], values).out

Horizon(t) ==
  LET values == RowsOf(t.accounts, LAMBDA r : r.total)
      known == Len(values) >= 2 /\ values[1] > 0 /\ Last(values) > 0
               /\ Last(t.accounts).day - t.accounts[1].day >= 1
  IN [balance |-> IF values = <<>> THEN 0 ELSE Last(values),
      verdict |-> IF known THEN Verdict(Projected(values[1], Last(values))) ELSE "none",
      drawdowns |-> Drawdowns(values)]

(* get_regime_narrative.  A date may have rows of two labels: which comes  *)
(* first is left open.                                                     *)
HedgeSymbols     == {"PSQ", "SH", "SDS", "SQQQ"}
LeveragedSymbols == {"TQQQ", "SOXL", "UPRO", "TECL", "FNGU", "NVDL"}

DaysInRegime(rows, label) ==
  LET pairs == {<<rows[i].day, rows[i].label>> : i \in DOMAIN rows}
      history == SetToSortSeq(pairs, LAMBDA a, b : a[1] > b[1])
      broken == {i \in DOMAIN history : history[i][2] # label}
  IN IF broken = {} THEN Len(history) ELSE Min(broken) - 1

(* Of the targets of the latest coordinated run, in hundredths of percent. *)
BookPercent(run, symbols) ==
  MapThenSumSet(LAMBDA k : run.split[k] *
    MapThenSumSet(LAMBDA x : run.results[k][x], symbols \cap DOMAIN run.results[k]),
    DOMAIN run.results)

ReasonOf(label) ==
  CASE label = "RISK_ON" -> "trend up"          [] label = "TRANSITION" -> "mixed signals"
    [] label = "RISK_OFF" -> "trend break"      [] label = "STRESSED" -> "stressed"
    [] OTHER -> "unavailable"

Narrative(t) ==
  IF t.regimes = <<>> THEN [label |-> "none"]
  ELSE LET label == Latest(t.regimes)[1].label
           of(symbols) == SumOver(Latest(t.runs_of_coord), LAMBDA r : BookPercent(r, symbols))
       IN [label |-> label, days |-> DaysInRegime(t.regimes, label), reason |-> ReasonOf(label),
           hedge |-> IF of(HedgeSymbols) > 50 THEN "active" ELSE "dormant",
           leveraged |-> of(LeveragedSymbols)]

DataFreshness(t) ==
  [regimes |-> LastDay(t.regimes), accounts |-> LastDay(t.accounts),
   coordinator |-> LastDay(t.runs_of_coord)]
-----------------------------------------------------------------------------
(* get_rebalance_dashboard: the targets of the subs, each by its share of   *)
(* the capital, against the weights of the latest positions.  A symbol     *)
(* with several rows has the weight of its smallest.  In tenths of percent. *)
CooldownShown == 3   \* days

Split(default) == IF states["COORD"].split = <<>> THEN default ELSE states["COORD"].split[1]
DefaultSplit == [V3 |-> 40, V4 |-> 30, V5 |-> 30]

Target(split, sym) ==
  MapThenSumSet(LAMBDA s : IF sym \in DOMAIN states[s].targets
                           THEN states[s].targets[sym] * split[s] ELSE 0, Subs)

TargetSymbols == UNION {DOMAIN states[s].targets : s \in Subs}

Cooldown(s) ==
  IF states[s].rebalanced = 0 THEN 0
  ELSE Max({0, CooldownShown - (today - states[s].rebalanced)})

RebalanceDashboard(t) ==
  LET held    == HoldingWeights(On(t.holdings, LastDay(t.holdings)))
      now(s)  == LET rows == SelectSeq(held, LAMBDA r : r.symbol = s)
                 IN IF rows = <<>> THEN 0 ELSE 10 * Min(Column(rows, LAMBDA r : r.weight))
      goal(s) == Target(Split(DefaultSplit), s) \div 10
      total   == AccountTotal(t)
  IN [positions |-> held,
      strategies |-> [s \in Subs |-> [regime |-> states[s].regime, cooldown |-> Cooldown(s)]],
      trades |-> {[symbol |-> s, delta |-> goal(s) - now(s),
                   actionable |-> Dollars(goal(s) - now(s), total) \div 10 >= AtLeast(total)]
                  : s \in {x \in TargetSymbols \cup Symbols(held) : goal(x) # now(x)}}]

(* get_sub_strategy_dd and strategy_dd_report.py: a sub's equity in         *)
(* thousandths, from one coordinated run to the next, under the targets of  *)
(* the former; symbols without a close on both days share their weight      *)
(* among the others.                                                        *)
SleeveReturn(t, targets, from, to) ==
  LET close(s, d) == LET rows == SelectSeq(On(t.closes, d), LAMBDA r : r.symbol = s)
                     IN IF rows = <<>> THEN 0 ELSE Last(rows).close
      priced == {s \in DOMAIN targets : close(s, from) > 0 /\ close(s, to) > 0}
      missing == MapThenSumSet(LAMBDA s : targets[s], DOMAIN targets \ priced)
      gain == MapThenSumSet(LAMBDA s : targets[s] * Percent(close(s, to), close(s, from)), priced)
  IN IF 0 < missing /\ missing < 100 THEN (gain * 100) \div (100 - missing) ELSE gain

Grown(t, prev, run, k, equity) ==
  IF prev = <<>> \/ k \notin DOMAIN prev[1].results THEN equity
  ELSE (equity * (10000 + SleeveReturn(t, prev[1].results[k], prev[1].day, run.day))) \div 10000

SleeveCurve(t, k) ==
  LET step(acc, run) ==
        LET e == Grown(t, acc.prev, run, k, acc.equity)
        IN [prev |-> <<run>>, equity |-> e, curve |-> Append(acc.curve, e)]
  IN FoldLeft(step, [prev |-> <<>>, equity |-> 1000, curve |-> <<>>], t.runs_of_coord).curve

SleeveDrawdowns(t) ==
  LET subs == UNION {DOMAIN t.runs_of_coord[i].results : i \in DOMAIN t.runs_of_coord}
      share(k) == SumOver(Latest(t.runs_of_coord), LAMBDA r : r.split[k])
  IN [k \in subs |-> [worst |-> DeepestFall(SleeveCurve(t, k)), final |-> Last(SleeveCurve(t, k)),
                      of_book |-> share(k) * DeepestFall(SleeveCurve(t, k))]]

-----------------------------------------------------------------------------
(* RAEC V6, from its state file and the last line of its ledger.           *)
ShadowBook(t) ==
  IF t.v6 = <<>> THEN "inactive"
  ELSE LET now == Last(t.v6)
       IN [equity |-> now.equity, cash |-> now.cash, days |-> Len(t.v6),
           total |-> Percent(now.equity, t.v6[1].start),
           series |-> RowsOf(t.v6, LAMBDA r : <<r.day, r.equity>>),
           positions |-> [s \in DOMAIN now.held |-> Share(now.held[s], now.equity)]]

AllocatorState(t) ==
  IF t.v6 = <<>> THEN "inactive"
  ELSE [share |-> Last(t.v6).shares, failed |-> Last(t.v6).failed]

(* get_v6_divergence: in hundredths of percent, under a split of its own.   *)
V6Split == [V3 |-> 20, V4 |-> 55, V5 |-> 25]

Divergence(t) ==
  IF t.v6 = <<>> THEN "inactive"
  ELSE LET ours == Last(t.v6).weights
           symbols == DOMAIN ours \cup TargetSymbols
           v6(s) == IF s \in DOMAIN ours THEN 100 * ours[s] ELSE 0
           delta(s) == v6(s) - Target(V6Split, s)
       IN [rows |-> [s \in symbols |-> delta(s)],
           distance |-> MapThenSumSet(LAMBDA s : IF delta(s) < 0 THEN -delta(s) ELSE delta(s),
                                      symbols)]

(* get_chart_data: the average price by volume from the first bar shown     *)
(* that is not before the anchor.                                           *)
Chart(t, sym, anchor, days) ==
  LET bars == SelectSeq(t.closes, LAMBDA r : r.symbol = sym)
      shown == SubSeq(bars, Max({1, Len(bars) - days + 1}), Len(bars))
      from == SelectSeq(shown, LAMBDA r : r.day >= anchor)
      volume(i) == SumOver(First(from, i), LAMBDA r : r.volume)
      traded(i) == SumOver(First(from, i), LAMBDA r : r.volume * r.close)
  IN [candles |-> shown,
      avwap |-> IF anchor = 0 \/ Len(shown) < 2 THEN <<>>
                ELSE [i \in DOMAIN from |-> IF volume(i) = 0 THEN <<>>
                                            ELSE <<traded(i) \div volume(i)>>]]

(* export_dataset_csv: the rows of a table, of the window when they have a  *)
(* date.                                                                    *)
Export(t, name, w) ==
  IF name \notin DOMAIN t THEN "unknown dataset"
  ELSE First(IF name \in {"runs", "metrics"} THEN t[name] ELSE Within(t[name], w), Page)
=============================================================================
