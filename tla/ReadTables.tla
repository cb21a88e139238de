----------------------------- MODULE ReadTables -----------------------------
(***************************************************************************)
(* build_readmodels.py: what each table of the analytics platform holds,   *)
(* as a function of the ledgers.  A ledger is the sequence of its records, *)
(* the files in the order they are read; a record has the fields that some *)
(* query tells apart, its day, and the time it was written, ts.  Rows keep *)
(* the order of the records.                                               *)
(***************************************************************************)
EXTENDS Reconciliation, FiniteSets, FiniteSetsExt

RowsOf(records, Row(_))      == [i \in DOMAIN records |-> Row(records[i])]
ManyRowsOf(records, Rows(_)) == FlattenSeq(RowsOf(records, Rows))

-----------------------------------------------------------------------------
(* PORTFOLIO_DECISIONS: one row per cycle, and a row per intent, per block *)
(* of a gate, per reason of rejection.                                     *)
Cycle(r) ==
  [id |-> r.id, day |-> r.day, intents |-> Len(r.intents), accepted |-> r.accepted,
   rejected |-> Len(r.rejected), blocks |-> Len(r.blocks)]

(* The state file of the latest decision becomes a row of its own, next to *)
(* the row of the same decision in the ledger.                             *)
LatestCycle(decisions) == IF decisions = <<>> THEN <<>> ELSE <<Cycle(Last(decisions))>>

Cycles(decisions) == RowsOf(decisions, Cycle) \o LatestCycle(decisions)

GateBlocks(decisions) ==
  ManyRowsOf(decisions, LAMBDA r : RowsOf(r.blocks, LAMBDA b : [day |-> r.day, code |-> b]))

RejectedSymbols(decisions) ==
  ManyRowsOf(decisions, LAMBDA r :
    RowsOf(r.rejected, LAMBDA x : [day |-> r.day, symbol |-> x.symbol, reason |-> x.reason]))

(* reason_counts: one row per reason of a cycle.                           *)
Rejections(decisions) ==
  ManyRowsOf(decisions, LAMBDA r :
    LET reasons == {r.rejected[i].reason : i \in DOMAIN r.rejected}
    IN RowsOf(SetToSeq(reasons), LAMBDA c :
         [day |-> r.day, reason |-> c,
          count |-> Cardinality({i \in DOMAIN r.rejected : r.rejected[i].reason = c})]))

DecisionIntents(decisions) ==
  ManyRowsOf(decisions, LAMBDA r :
    RowsOf(r.intents, LAMBDA i :
      [day |-> r.day, ts |-> r.ts, strategy |-> IF i.strategy = "" THEN "S1" ELSE i.strategy,
       symbol |-> i.symbol, qty |-> i.qty, side |-> "buy"]))

-----------------------------------------------------------------------------
(* STRATEGY_SIGNALS of S2.                                                 *)
Signals(signals) ==
  RowsOf(signals, LAMBDA r :
    [day |-> r.day, symbol |-> r.symbol, eligible |-> r.eligible,
     selected |-> r.selected, reasons |-> r.reasons])

(* PORTFOLIO_RISK_CONTROLS and PORTFOLIO_THROTTLE share a table: of a      *)
(* throttle, max_positions is a multiplier.                                *)
RiskControls(controls, throttles) ==
  RowsOf(controls, LAMBDA r : [source |-> "risk_controls", day |-> r.day, ts |-> r.ts,
                               multiplier |-> r.multiplier, positions |-> r.positions])
  \o RowsOf(throttles, LAMBDA r : [source |-> "throttle", day |-> r.day, ts |-> r.ts,
                                   multiplier |-> r.multiplier, positions |-> r.slots])

(* REGIME_E1: a record of type SKIPPED has no label and gets one here.     *)
RegimeRows(regimes) ==
  RowsOf(regimes, LAMBDA r :
    [day |-> r.day, ts |-> r.ts,
     label |-> IF r.label = "" THEN "DATA_GAP" ELSE r.label])

-----------------------------------------------------------------------------
(* RAEC_REBALANCE: the events of the strategies, the runs of the coordinator. *)
EventRows(raec) ==
  RowsOf(raec, LAMBDA r :
    [day |-> r.day, ts |-> r.ts, strategy |-> r.strategy, book |-> r.book,
     regime |-> r.regime, should |-> r.should, intents |-> Len(r.intents),
     targets |-> r.targets])

(* The rows of a weight map, current or target.                            *)
Weights(r, kind, weights) ==
  RowsOf(SetToSeq(DOMAIN weights), LAMBDA s :
    [day |-> r.day, strategy |-> r.strategy, kind |-> kind, symbol |-> s,
     weight |-> weights[s]])

Allocations(raec) ==
  ManyRowsOf(raec, LAMBDA r :
    Weights(r, "target", r.targets) \o Weights(r, "current", r.current))

RaecIntents(raec) ==
  ManyRowsOf(raec, LAMBDA r :
    RowsOf(r.intents, LAMBDA i :
      [day |-> r.day, ts |-> r.ts, strategy |-> r.strategy, id |-> i.id,
       symbol |-> i.symbol, side |-> i.side, delta |-> i.delta]))

CoordinatorRuns(coord) ==
  RowsOf(coord, LAMBDA r : [day |-> r.day, ts |-> r.ts, split |-> r.split, results |-> r.results])

-----------------------------------------------------------------------------
(* EXECUTION_SLIPPAGE, and the orders of the books ALPACA_PAPER and        *)
(* S2_ALPACA: every change of an order's state is a record, so a row.      *)
Slippages(slippage) ==
  RowsOf(SelectSeq(slippage, LAMBDA r : r.type = "EXECUTION_SLIPPAGE"), LAMBDA r :
    [day |-> r.day, strategy |-> r.strategy, symbol |-> r.symbol, bps |-> r.bps,
     bucket |-> r.bucket, time |-> r.time])

OrderEvents(orders) ==
  ManyRowsOf(orders, LAMBDA r :
    IF r.type # "ORDER_STATUS" THEN <<>>
    ELSE <<[day |-> r.day, ts |-> r.ts, book |-> r.book, strategy |-> r.strategy,
            order |-> r.order, symbol |-> r.symbol, side |-> r.side, status |-> r.status,
            filled |-> r.filled, price |-> r.price, filled_at |-> r.filled_at,
            stop |-> r.stop]>>)

(* The portfolio snapshot of a date, a file, and the positions in it.      *)
SnapshotRows(snapshots) ==
  RowsOf(snapshots, LAMBDA r : [day |-> r.day, total |-> r.total, gross |-> r.gross])

PositionRows(snapshots) ==
  ManyRowsOf(snapshots, LAMBDA r :
    RowsOf(r.positions, LAMBDA p :
      [day |-> r.day, strategy |-> p.strategy, symbol |-> p.symbol, notional |-> p.notional]))

-----------------------------------------------------------------------------
(* SCHWAB_401K_MANUAL: of the day's records, those that a sync wrote.       *)
Accounts(schwab) ==
  RowsOf(OfType(schwab, "account"), LAMBDA r :
    [day |-> r.day, ts |-> r.ts, total |-> r.total, cash |-> r.cash])

Holdings(schwab) ==
  ManyRowsOf(OfType(schwab, "positions"), LAMBDA r :
    RowsOf(r.positions, LAMBDA p :
      [day |-> r.day, ts |-> r.ts, symbol |-> p.symbol, qty |-> p.qty, value |-> p.value]))

BrokerOrders(schwab) ==
  ManyRowsOf(OfType(schwab, "orders"), LAMBDA r :
    RowsOf(r.orders, LAMBDA o :
      [day |-> r.day, ts |-> r.ts, order |-> o.order, symbol |-> o.symbol, side |-> o.side,
       filled |-> o.filled]))

Reconciliations(schwab) ==
  RowsOf(OfType(schwab, "reconciliation"), LAMBDA r :
    [day |-> r.day, ts |-> r.ts, drift |-> r.drift])

-----------------------------------------------------------------------------
(* summary.json and equity_curve.csv of a backtest: the numbers of the     *)
(* summary, and at most EquityHead points of the curve, without gaps.      *)
CONSTANT EquityHead

RunRows(backtests) ==
  RowsOf(backtests, LAMBDA r :
    [run |-> r.run, ts |-> r.ts, has_curve |-> r.curve # <<>>])

MetricRows(backtests) ==
  ManyRowsOf(backtests, LAMBDA r :
    RowsOf(SetToSeq(DOMAIN r.metrics), LAMBDA m :
      [run |-> r.run, metric |-> m, value |-> r.metrics[m]]))

EquityRows(backtests) ==
  ManyRowsOf(backtests, LAMBDA r :
    LET head == SubSeq(r.curve, 1, Min({Len(r.curve), EquityHead}))
        points == SelectSeq([i \in DOMAIN head |-> [run |-> r.run, index |-> i,
                                                    equity |-> head[i]]],
                            LAMBDA p : p.equity # -1)
    IN points)

(* The latest candidates of the scan, and the closes of SPY and VTI.       *)
Candidates(scan) == IF scan = <<>> THEN <<>> ELSE Last(scan).candidates
BenchmarkRows(closes) ==
  RowsOf(SelectSeq(closes, LAMBDA r : r.symbol \in {"SPY", "VTI"}),
         LAMBDA r : [day |-> r.day, symbol |-> r.symbol, close |-> r.close])
=============================================================================
