------------------------- MODULE AnalyticsPlatform --------------------------
(***************************************************************************)
(* The ledgers grow and the platform is asked: a behaviour appends records *)
(* to a few ledgers, day after day, the 401k account is synced, and any    *)
(* query is answered over the tables of that moment (how far the tables    *)
(* lag behind is the subject of ReadModels).                               *)
(***************************************************************************)
EXTENDS Dashboards

CONSTANTS
  Records,   \* per ledger the records its writer appends, without day and time
  AccountStates, \* the states of the 401k account a sync can find
  Growing,   \* bound: the ledgers that grow together, by how many records over how
             \* many days, and the queries asked
  Quotes     \* bound: live prices

(* Tickets are sent and confirmed by others, snapshots and reports are a    *)
(* sync's; a strategy asks for a list of trades; an order has a price,      *)
(* a quantity and, 0 before it is filled, a time.                          *)
ASSUME RecordsAssumption ==
  /\ {"schwab", "raec", "orders"} \subseteq DOMAIN Records
  /\ \A r \in Records["raec"] :
       /\ "intents" \in DOMAIN r
       /\ Len(r.intents) \in Nat /\ DOMAIN r.intents = 1..Len(r.intents)
  /\ \A r \in Records["orders"] :
       /\ "type" \in DOMAIN r
       /\ r.type = "ORDER_STATUS" =>
            /\ {"price", "filled", "filled_at"} \subseteq DOMAIN r
            /\ r.price \in Int /\ r.filled \in Int /\ r.filled_at \in Nat
  /\ \A r \in Records["schwab"] :
       "type" \in DOMAIN r /\ r.type \in {"ticket", "confirmation"}

VARIABLES
  growing,   \* the choice of this behaviour
  clock,     \* the time of the latest record
  syncing,   \* the records a running sync has yet to append
  answer     \* to the running request

platform_vars == <<ledgers, today, states, quote, growing, clock, syncing, answer>>

LedgerNames == DOMAIN Records

NoAnswer == [query |-> "none"]

NoState == [found |-> FALSE, evaluated |-> 0, regime |-> "", allocations |-> <<>>,
            targets |-> <<>>, rebalanced |-> 0, split |-> <<>>]

LedgersEmpty ==
  /\ ledgers = [n \in LedgerNames |-> <<>>]
  /\ today = 1 /\ clock = 0
  /\ states = [s \in DOMAIN BookOf |-> NoState]
  /\ quote = 0
  /\ growing \in Growing
  /\ syncing = <<>>
  /\ answer = NoAnswer

-----------------------------------------------------------------------------
(* The trading programs.                                                   *)
Stamped(r, ts) ==
  [f \in DOMAIN r \cup {"day", "ts"} |->
     CASE f = "day" -> today [] f = "ts" -> ts [] OTHER -> r[f]]

(* A strategy or coordinator saves its state before it writes its record.  *)
StateAfter(n, s, r) ==
  IF n = "coord" THEN [s EXCEPT !.found = TRUE, !.evaluated = today, !.split = <<r.split>>]
  ELSE [s EXCEPT !.found = TRUE, !.evaluated = today, !.regime = r.regime,
                 !.allocations = r.current, !.targets = r.targets,
                 !.rebalanced = IF r.should THEN today ELSE @]

Write(n, r) ==
  /\ answer = NoAnswer /\ n \in growing[1] /\ clock < growing[2]
  /\ clock' = clock + 1
  /\ ledgers' = [ledgers EXCEPT ![n] = Append(@, Stamped(r, clock'))]
  /\ states' = IF n \notin {"raec", "coord"} THEN states
               ELSE [states EXCEPT ![r.strategy] = StateAfter(n, @, r)]
  /\ UNCHANGED <<today, quote, growing, syncing, answer>>

(* It dies between the two: the state is ahead of the ledger.              *)
DieBetween(n, r) ==
  /\ answer = NoAnswer /\ n \in growing[1] /\ clock < growing[2]
  /\ clock' = clock + 1
  /\ states' = [states EXCEPT ![r.strategy] = StateAfter(n, @, r)]
  /\ UNCHANGED <<ledgers, today, quote, growing, syncing, answer>>

(* run_snapshot_and_reconciliation: the three snapshots of one time are     *)
(* appended one by one, then the report on the day's records.              *)
Snapshots(a, ts) ==
  <<Stamped([type |-> "account", total |-> a.total, cash |-> a.cash], ts),
    Stamped([type |-> "positions", positions |-> a.positions], ts),
    Stamped([type |-> "orders", orders |-> a.orders], ts)>>

Sync(a) ==
  /\ answer = NoAnswer /\ "sync" \in growing[1] /\ clock < growing[2] /\ syncing = <<>>
  /\ clock' = clock + 1
  /\ syncing' = Snapshots(a, clock')
  /\ UNCHANGED <<ledgers, today, states, quote, growing, answer>>

Reconciled(records) ==
  LET report == Report(records, today)
  IN IF Reconcilable(records, today)
     THEN Append(records, [day |-> today, ts |-> report.as_of, type |-> "reconciliation",
                           drift |-> report.drift, counts |-> report.counts])
     ELSE records

(* The last snapshot and the report are one step: nothing reads in between. *)
AppendSnapshot ==
  /\ answer = NoAnswer /\ syncing # <<>>
  /\ LET records == Append(ledgers.schwab, Head(syncing))
     IN ledgers' = [ledgers EXCEPT !.schwab =
                      IF Len(syncing) = 1 THEN Reconciled(records) ELSE records]
  /\ syncing' = Tail(syncing)
  /\ UNCHANGED <<today, states, quote, growing, clock, answer>>

SyncDies ==
  /\ answer = NoAnswer /\ syncing # <<>> /\ syncing' = <<>>
  /\ UNCHANGED <<ledgers, today, states, quote, growing, clock, answer>>

NextDay ==
  /\ answer = NoAnswer /\ today < growing[3] /\ syncing = <<>>
  /\ today' = today + 1
  /\ UNCHANGED <<ledgers, states, quote, growing, clock, syncing, answer>>

(* _get_live_benchmark_prices: the old price stays when there is no new.    *)
Quote(p) ==
  /\ answer = NoAnswer /\ "closes" \in growing[1]
  /\ quote' = p
  /\ UNCHANGED <<ledgers, today, states, growing, clock, syncing, answer>>

-----------------------------------------------------------------------------
(* build_readmodels.                                                       *)
Tables ==
  [cycles |-> Cycles(ledgers.decisions), intents |-> DecisionIntents(ledgers.decisions),
   blocks |-> GateBlocks(ledgers.decisions), rejections |-> Rejections(ledgers.decisions),
   rejected |-> RejectedSymbols(ledgers.decisions), signals |-> Signals(ledgers.signals),
   controls |-> RiskControls(ledgers.controls, ledgers.throttles),
   regimes |-> RegimeRows(ledgers.regimes), events |-> EventRows(ledgers.raec),
   allocations |-> Allocations(ledgers.raec), raec_intents |-> RaecIntents(ledgers.raec),
   runs_of_coord |-> CoordinatorRuns(ledgers.coord), slippage |-> Slippages(ledgers.slippage),
   orders |-> OrderEvents(ledgers.orders), snapshots |-> SnapshotRows(ledgers.snapshots),
   positions |-> PositionRows(ledgers.snapshots), accounts |-> Accounts(ledgers.schwab),
   holdings |-> Holdings(ledgers.schwab), broker_orders |-> BrokerOrders(ledgers.schwab),
   reconciliations |-> Reconciliations(ledgers.schwab), runs |-> RunRows(ledgers.backtests),
   metrics |-> MetricRows(ledgers.backtests), equity |-> EquityRows(ledgers.backtests),
   candidates |-> Candidates(ledgers.scan), benchmark |-> BenchmarkRows(ledgers.closes),
   closes |-> ledgers.closes, v6 |-> ledgers.v6]

AnyTime == <<1, today>>
Today   == <<today, today>>

Everyone(t) == Column(t.intents \o t.raec_intents \o t.events, Strategy)

(* The endpoints of app.py, by name.                                       *)
ReplyOverTime(query, t, w) ==
  CASE query = "overview" -> Overview(t, w)
    [] query = "strategies/compare" -> Compare(t, w)
    [] query = "decisions/timeseries" -> TimeSeries(t, w)
    [] query = "signals/s2" -> [e \in BOOLEAN |-> S2Signals(t, 0, e) \o S2Signals(t, today, e)]
    [] query = "risk/controls" -> RiskView(t, w)
    [] query = "raec/dashboard" -> RaecDashboard(t, w)
    [] query = "journal" -> [s \in {{}, {"BUY"}, {"SELL"}} |-> Journal(t, w, Everyone(t), s)]
    [] query = "pnl" -> [b \in BOOLEAN |-> Pnl(t, w, b)]
    [] query = "execution/slippage" -> Slippage(t, w)
    [] query = "analytics/trades" -> TradeAnalytics(t, w, Everyone(t))
    [] query = "portfolio/overview" -> PortfolioOverview(t, w)
    [] query = "portfolio/history" -> PortfolioHistory(t, w)
    [] query = "schwab/overview" -> SchwabOverview(t, w)
    [] query = "schwab/performance" -> SchwabPerformance(t, w)
    [] query = "performance" -> Performance(t, w)
    [] query = "exports" -> [n \in DOMAIN t \ {"equity", "closes", "v6"} |-> Export(t, n, w)]

ReplyNow(query, t) ==
  CASE query = "backtests" -> <<BacktestRuns(t), BacktestRun(t, "run1"), BacktestRun(t, "run2")>>
    [] query = "raec/readiness" -> Readiness(t)
    [] query = "portfolio/positions" -> <<PortfolioPositions(t, 0), PortfolioPositions(t, today)>>
    [] query = "strategies/matrix" -> StrategyMatrix(t)
    [] query = "schwab/trade-instructions" -> Instructions(t)
    [] query = "rebalance/dashboard" -> RebalanceDashboard(t)
    [] query = "sub-strategy-dd" -> SleeveDrawdowns(t)
    [] query = "v6" -> <<ShadowBook(t), AllocatorState(t), Divergence(t)>>
    [] query = "trade/today" -> TodaysTrades(t, today)
    [] query = "scan" -> <<ScanCandidates(t, 0, ""), ScanCandidates(t, today, "long"),
                           Chart(t, "SPY", 1, 2), Chart(t, "VTI", 0, 2)>>
    [] query = "horizon-projection" -> Horizon(t)
    [] query = "regime-narrative" -> Narrative(t)
    [] query = "data-freshness" -> DataFreshness(t)

QueriesOverTime ==
  {"overview", "strategies/compare", "decisions/timeseries", "signals/s2", "risk/controls",
   "raec/dashboard", "journal", "pnl", "execution/slippage", "analytics/trades",
   "portfolio/overview", "portfolio/history", "schwab/overview", "schwab/performance",
   "performance", "exports"}
QueriesNow ==
  {"backtests", "raec/readiness", "portfolio/positions", "strategies/matrix",
   "schwab/trade-instructions", "rebalance/dashboard", "sub-strategy-dd", "v6", "trade/today",
   "scan", "horizon-projection", "regime-narrative", "data-freshness"}

Ask(query) ==
  /\ answer = NoAnswer /\ query \in growing[4]
  /\ \/ /\ query \in QueriesOverTime
        /\ \E w \in {AnyTime, Today} :
             answer' = [query |-> query, reply |-> ReplyOverTime(query, Tables, w)]
     \/ /\ query \in QueriesNow
        /\ answer' = [query |-> query, reply |-> ReplyNow(query, Tables)]
  /\ UNCHANGED <<ledgers, today, states, quote, growing, clock, syncing>>

Answered ==
  /\ answer # NoAnswer /\ answer' = NoAnswer
  /\ UNCHANGED <<ledgers, today, states, quote, growing, clock, syncing>>

-----------------------------------------------------------------------------
LedgersGrow ==
  \/ \E n \in LedgerNames : \E r \in Records[n] : Write(n, r)
  \/ \E n \in {"raec", "coord"} : \E r \in Records[n] : DieBetween(n, r)
  \/ \E a \in AccountStates : Sync(a)
  \/ AppendSnapshot \/ SyncDies \/ NextDay
  \/ \E p \in Quotes : Quote(p)
  \/ \E q \in QueriesOverTime \cup QueriesNow : Ask(q)
  \/ Answered

AnswersSpec == LedgersEmpty /\ [][LedgersGrow]_platform_vars

-----------------------------------------------------------------------------
(* A trade that a sub of the 401k account asked for is on the owner's page, *)
(* as often as the ledger has it that day, until three later days had       *)
(* trades, however many evaluations without trades, of whichever sub or     *)
(* strategy, came after it.                                                 *)
Asked(raec) ==
  {i \in DOMAIN raec : raec[i].strategy \in Subs /\ DOMAIN raec[i].intents # {}}
AskedLater(raec, d) == {raec[j].day : j \in {i \in Asked(raec) : raec[i].day > d}}

(* Where a day's records ask for a trade. *)
Requests(raec, d, id) ==
  {w \in UNION {{i} \X DOMAIN raec[i].intents : i \in Asked(raec)} :
     raec[w[1]].day = d /\ raec[w[1]].intents[w[2]].id = id}

ShownOnTime(raec, page) ==
  \A i \in Asked(raec) :
    LET d == raec[i].day
        shown(id) == {n \in DOMAIN page[d].intents : page[d].intents[n].id = id}
    IN Cardinality(AskedLater(raec, d)) < InstructionDays =>
         /\ d \in DOMAIN page
         /\ \A k \in DOMAIN raec[i].intents :
              LET id == raec[i].intents[k].id
              IN Cardinality(shown(id)) = Cardinality(Requests(raec, d, id))

NewestTicketShown == ShownOnTime(ledgers.raec, Instructions(Tables))

(* Of a strategy whose buys and sells of every symbol are equally many no   *)
(* trade is open; and when its orders were of one size and have one row     *)
(* each, its profit times that size is what the sales brought in less what  *)
(* the buys cost, whichever way they were paired.  The profit is that of    *)
(* one share, as in tests/analytics_platform/test_api_performance.py:77 (50 *)
(* bought at 75.10 and sold at 77.25 make 2.15): sizes do not count, and an *)
(* order filled in part, then wholly, is two trades, so of other orders it  *)
(* does not tell the money.                                                 *)
Flat(rows, s) ==
  \A sym \in Symbols(rows) :
    Cardinality(OfSymbol(rows, Buys(rows, s), sym))
      = Cardinality(OfSymbol(rows, Sells(rows, s), sym))

EvenFills(rows, s, q) ==
  LET fills == Buys(rows, s) \cup Sells(rows, s)
  IN \A i \in fills :
       /\ rows[i].filled = q
       /\ \A j \in fills : rows[j].order = rows[i].order => j = i

(* The last row of an order has all its shares, and their average price.    *)
LastRows(rows, places) ==
  {i \in places : \A j \in places : rows[j].order = rows[i].order => j <= i}
Money(rows, places) ==
  SumOf([i \in LastRows(rows, places) |-> rows[i].filled * rows[i].price])

FlatProfitPerShare ==
  LET rows == Tables.orders
      swing == SwingMetrics(rows)
  IN \A s \in DOMAIN swing : Flat(rows, s) =>
       /\ swing[s].open = 0
       /\ \A q \in Column(rows, LAMBDA r : r.filled) : EvenFills(rows, s, q) =>
            swing[s].pnl * q = Money(rows, Sells(rows, s)) - Money(rows, Buys(rows, s))

(* A report without drift speaks of the account its own sync found: every   *)
(* symbol there had a ticket that day, and every ticket of a symbol held    *)
(* has been confirmed, even when an earlier sync of the day saw another     *)
(* account or died half-way.                                               *)
ExplainsIfClean(schwab, i) ==
  LET r == schwab[i]
      before(t) == {j \in Filed(schwab, r.day, t) : j < i}
      found == {j \in before("positions") : schwab[j].ts = r.ts}
      sent(s) == {n \in before("ticket") : schwab[n].symbol = s}
  IN r.type = "reconciliation" /\ r.drift = {} =>
       \E j \in found :
         /\ found = {j}
         /\ LET held == Quantities(schwab[j].positions)
            IN \A s \in DOMAIN held :
                 /\ sent(s) # {}
                 /\ held[s] # 0 => \A n \in sent(s) :
                      \E c \in before("confirmation") : schwab[c].id = schwab[n].id

CleanReportExplains ==
  \A i \in DOMAIN ledgers.schwab : ExplainsIfClean(ledgers.schwab, i)
=============================================================================
