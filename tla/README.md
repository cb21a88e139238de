# A verification project for the trading system in this repository

TLA+ modules, TLC configurations and TLAPS proofs. Every definition is read off
the code under `src/`; `PROJECT.json` ("map") gives the lines each one stands for.
Paths below are relative to `src/`, and `X:n` is line `n` of `X`.

Contents: 1 the system, 2 the modules, 3 the runs, 4 the proofs, 5 what was found,
6 what is not modelled and what is next.

## 1. The system

Four loosely coupled systems share one directory of ledgers and state files.

**execution_v2** trades a broker account. One process, `execution_main.main()`,
calls `run_once` forever. There is no second thread; what makes it hard is that one
cycle is some thirty separately committed writes and broker calls, that the broker
and the clock go on between any two of them, and that the process can die or a call
can raise anywhere.

**The RAEC strategies** (V1 to V5, and the V6 ensemble) are evaluated once a day by a
pipeline after the scan. They post tickets to Slack for the owner of a 401(k)
account, who executes them by hand and replies; V1 also trades an Alpaca paper
account, next to the S2 opening-range strategy (so does V2, which the pipeline no longer runs,
when it is started by hand). Nothing locks a file, runs can be
repeated or die, and nobody has to execute a ticket.

**The analytics** turn ledgers into regimes, throttles, portfolio snapshots and
decisions, which the buy loop reads back, and into reconciliation reports.

**The analytics platform** is a server that rebuilds a DuckDB file from all ledgers
and answers queries while the others keep writing.

| component | state it keeps | operations | what makes it correct | module |
|---|---|---|---|---|
| entry pipeline (`execution_main.run_once`) | none between cycles; intents in hand, caps and position count within one | purge, gate, reschedule, evaluate, pop, arbitrate, guard, submit, book, requeue | no second entry while one is alive; caps; every accepted order is known to the stores that stop the next one | `EntryPipeline` |
| SQLite store (`state_store.py`) | `entry_intents`, `positions`, `order_ledger`, `trim_intents`, ... | put, pop, purge, reschedule, record once | an intent is in the table or in hand; keys are never behind the other stores | `EntryPipeline`, `TrimPipeline` |
| per-date stores (`state_machine.py`) | state of each symbol today, symbols consumed today | transition, refresh, mark | FLAT means no live entry; a consumed symbol is not entered again | `EntryPipeline`, `TrimPipeline` |
| live gate and caps (`live_gate.py`, `alpaca_paper.py`) | caps ledger of the day | resolve mode, load, add, save | caps hold for the broker's orders, not for what a file says | `EntryPipeline` |
| buy loop, risk controls, arbiter, sleeves, decision file | `positions` rows, intents | size, create, rank, approve, enforce | what is let through together stays within the limits, counted against a book that lags | `EntryGates` |
| stop management (`exits.py`) | the stop order at the broker | select, reconcile | a held position has a stop; the stop does not move down | `StopManager` |
| sell loop and trims (`sell_loop.py`, end of `run_once`) | `positions` rows, `trim_intents` | evaluate, queue, pop, sell, mark | a trim level fires once and shows in the row; the row's stop does not move down; a position below its stop is sold | `TrimPipeline` |
| manual tickets (`schwab_manual_*`, `slack_events_receiver.py`) | ledger file per date | post, record, deliver, match, append | a ticket is not repeated without a reason; a reply is recorded once | `ManualTickets` |
| RAEC evaluations and coordinator | state file per strategy, coordinator's file | evaluate, post, save | a change of regime has its ticket; the cooldown holds | `RaecRun` |
| RAEC regimes, baskets, targets, orders | -- (functions of prices) | targets, turnover, drift, backtest | whole targets, orders towards them, an account that stays whole | `RaecTargets` |
| V6 live run | `v6_coordinator.json`, shadow book, Schwab snapshots | sync, run, ledger, ticket | breakers judge the real account; freezes hold; tickets return | `RaecV6` |
| V6 ensemble | shares of the strategies, book | propose, allocate, scale, trade | caps, damper, exposure | `V6Allocation` |
| S2 bracket and V1 rebalance on Alpaca | ledgers, state file | cancel, read, buy; compare, sell, buy | nothing is bought twice; every order has its line | `PaperAccount` |
| regime and throttle ledgers (`analytics/regime_*`) | a ledger per date | classify, throttle, read back | controls follow the latest record; a worse market gets no more risk | `RegimeLedgers` |
| portfolio book (`analytics/portfolio*`, `reconstruction.py`) | snapshots, decision file | reconstruct, snapshot, decide | positions and money follow the entries | `PortfolioBook` |
| 401(k) reconciliation | ledger of the day | sync, report | a clean report explains the account it saw | `Reconciliation` |
| platform server and read models | DuckDB file, runtime state | refresh, request | tables are what is on disk or known not to be, and catch up | `ReadModels`, `ReadTables` |
| platform queries | -- | some thirty queries | answers say what the ledgers hold | `Dashboards`, `AnalyticsPlatform` |
| backtest engine | positions, cash, trades | delist, fill, manage, scan | shares and money add up | `BacktestEngine` |

How they interact. The scan writes the candidate file, which the buy loop and the
backtest read. The post-scan pipeline writes regime and throttle ledgers, syncs the
401(k) account and runs the strategies. `run_once` writes ledgers the portfolio
analytics read; their snapshot decides the entries of a later date, and the throttle
sizes them. Tickets and replies meet in the ledger files of a date, which the sync's
report reads. The platform reads everything and writes nothing the others read.
Nothing is transactional across two files.

`PROJECT.json` lists under "hazards" each place where this can go wrong that a unit
test would hardly reach, and the properties that would notice.

## 2. Modules

| module | models | checked in | proofs |
|---|---|---|---|
| `EntryPipeline` | entry side of `run_once`, modes LIVE and ALPACA_PAPER | `MCEntryPipeline` | `EntryPipelineProofs` |
| `EntrySlot`, `EntryRefinement` | what the entry side promises, and the mapping to it | `MCEntryPipeline` | `EntryPipelineProofs` |
| `StopManager` | `exits.manage_positions` for one symbol | `MCStopManager` | `StopManagerProofs` |
| `TrimPipeline` | sell loop and trims for one symbol, LIVE | `MCTrimPipeline` | `TrimPipelineProofs` |
| `RaecRun`, `ManualTickets` | evaluations to tickets, tickets to replies | `MCRaecRun` | `RaecProofs` |
| `RaecV6` | the daily live run of V6 against an account traded by hand | `MCRaecV6` | `BooksProofs` |
| `PaperAccount`, `RaecTargets` | orders of the paper account; the targets they come from | `MCRebalances` | `PaperAccountProofs` (account) |
| `V6Allocation`, `BacktestEngine` | the two daily backtests | `MCBacktests` | `BooksProofs` |
| `RegimeLedgers`, `PortfolioBook`, `EntryGates` | what entries are allowed | `MCBooks` | `BooksProofs` |
| `ReadModels` | the platform's server | `MCPlatform` | `PlatformProofs` |
| `ReadTables`, `Reconciliation`, `Dashboards`, `AnalyticsPlatform` | tables, reports and answers over growing ledgers | `MCPlatform` | `PlatformProofs` (reports, tickets, profit) |
| `SumFacts` | nothing of the code: what a sum over a finite set does not depend on | -- | itself; used by `BooksProofs`, `PlatformProofs` |

The modules of one MC module that share no state are put together as a sum: a variable
`part` says which of them a behaviour is, the others rest. That is a way to check them
in one run and no claim about how they interact. Modules that do interact are linked by
what one takes from the other: an intent that `EntryGates` lets through is one that
`EntryPipeline` pops; a fill there is `StopManager!EntryFills` and
`TrimPipeline!EntryFills`; a stop that fires is `EntryPipeline!ClosePosition`; the
throttle of `RegimeLedgers` is an input of `EntryGates`; `RaecRun!PostTicket` is one
pass of a `ManualTickets` poster; the ticket of `RaecV6` is what its owner executes.

### EntryPipeline, EntrySlot, EntryRefinement

The durable variables are the stores by the names of their tables and files; the
volatile ones are `run_once`'s locals and go away when a cycle ends or the process dies.
`pc` is where `run_once` is; the steps between "submit" and "book" exist because each
is a separate commit. The broker is the set of entry orders it ever accepted. `lost` is
a history variable: accepted orders whose booking did not get as far as
`consumed_entries`.

Actions, in the order of the code: `CycleMarketClosed` and `CycleOpens`, `CreateIntent`,
`EvaluatePositions`, `PopDue`, `Screen`, then for each intent `TakeIntent` /
`SkipIntent` (the position read), `AdmitIntent` / `RefuseIntent` (open orders, consumed,
symbol state, key, caps), `SubmitAccepted` / `SubmitRaises` / `SubmitDry`,
`RecordOrder`, `EnterSymbol`, `ConsumeEntry`, `BookOrder`, or `BookingRaises` (the
except clause), and `FinishCycle`. The environment is `Crash`, `OrderMoves`,
`ClosePosition`, `Age` and `NextDay`.

Abstractions. An intent is a symbol and a size, its age is waiting, due or stale.
Filters that can only refuse an intent are the freedom of `Screen` and `RefuseIntent`.
A partial fill is a fill. A date changes only between cycles. Writes of one file or one
SQL statement are atomic, as `utils/atomic_write.py` and SQLite make them.

`EntrySlot` keeps a slot per symbol: free, working or held, and the set of (date,
symbol) that were entered. `Enter` needs a free slot and a date not yet used; `Fill`,
`Leave`, `NextDay` are the only other steps. `EntryRefinement` maps a slot to the
broker's status of the booked order. Orders the process lost track of are not entries
of the abstract system: it cannot promise anything about them, and the other
properties bound them instead.

### StopManager

Nothing of this is stored by the process: the working order at the broker is the only
memory of how high the stop was. `pc` and the locals are one pass over one symbol;
`best` is a history variable, the highest level since protection was last lost.
Actions: `ReadPosition`, `ReadExisting`, `DelaySkips`, `DecideStop` or `DecideNothing`
(candidate of the session phase, ratchet, guardrail A), `Reconcile` or
`ReconcileBlind`, `CancelStop`, `Reread` or `RereadBlind`, `SubmitAccepted`,
`SubmitBlocked` or `SubmitRaises`. Between any two the broker and the market move.

The broker holds the shares of a sell order, also of one whose cancellation is pending,
and refuses an order for more than the rest. `_is_open_status` does not count
pending_cancel as open, so the code sees a free symbol where the broker sees held shares.

Abstractions. Prices and levels are ranks; all levels are below the entry price, so
guardrail B never bites. The structural stop of the bars is an input.
`EXIT_STOP_SELECTION_V2` is off, as by default. A stop fires as a whole.

### TrimPipeline

One symbol through the exit half of a LIVE cycle: `BeginCycle`, `ManageStops` (what
`StopManager` has in full: the protective stop stays, is cancelled, or is placed for all
shares at a level below the price), `ReadPosition`, the evaluation (`EvaluateStop` and the R1 and R2
levels), `UpsertPosition`, `Refresh` (the symbol states), `PopTrims`, and per trim
`DropTrim` or `TakeTrim`, `SellAccepted` or `SellRaises`, `RecordSell`, `MarkExiting`.
Queue, flag, key and mark are four commits, and `EvaluationRaises`, `SellRaises` and
`Crash` may come between any two. ALPACA_PAPER returns before it pops and is not here.
An entry fills in parts (`EntryFills`, `RestFills`), and a late part may make a position of
which the shares the row was made for are gone: rows outlive positions, as nothing deletes
them. Sells fill in any parts. Prices are numbers on the scale of the candidate's levels.

The protective stop is part of the trims' trouble: the shares it holds are those `submit_order`
and `close_position` want to sell, the broker refuses them, and the exception ends the cycle.
`StopExitHappens` says what is left of the exit: a position whose price stays at or below the stop
of its row is sold, unless again and again the broker holds its shares for a protective stop below
that price. Without this exception TLC refutes it, with no fault at all (section 5).

### ManualTickets and RaecRun

`ManualTickets`. A poster reads the ledger file once (`LoadSent`), posts (`Post`),
writes its line to a buffered handle (`Record`) and closes it (`EndRun`), or is
interrupted or killed. A reply is delivered by Slack until it is acknowledged, up to
`MaxAttempts` times, and the receiver deduplicates, matches, appends and responds in
four steps. `excused` and `lost` are history: what gives a reason to post again.

`RaecRun`. A run has one of five modes. A strategy on its own ("single") posts its ticket and
then saves its state. With posting disabled, or with `--dry-run --allow-state-write`, it saves
and posts nothing ("silent", `raec_401k_base.py:1046`, `:1089`); a dry run without that flag has
no effect and is no action. The coordinator lets every strategy save first, posts afterwards
("coordinator"), or does not, because posting is disabled ("muted") or it runs dry ("dry"), and
saves its own file last, which the dry one does not. Prices enter as the raw regime of the date
and the level of the drift of each strategy. History: `owed`, saved changes without a ticket;
`excused`, those of them whose run was told not to post or failed between save and post;
`unsaved`, `behind`. All intents of an evaluation are one ticket id; the summary of days without
trades is not modelled apart.

### RaecTargets and PaperAccount

`RaecTargets` has the rules of V1 to V5 as functions: `Regime` of the anchors, `Ranked`
and `Picks` of a basket, `InverseVol`, `WeightCap`, `LeverageCap`, `RiskBudget`,
`ToTargets`, `Intents` with `TurnoverCap`, `Due`, and the backtest's own copy `SimTrade`.
A behaviour evaluates day by day (`Evaluate`, `EvaluateV1`, `EvaluateV2`), simulates, and
the follower carries the ticket out or ignores it. Weights are whole hundredths of a
percent with cut quotients; one correlation stands for all pairs; the regime is the raw
one or one confirmed before; a month boundary is a free flag; returns are not applied.

`PaperAccount` has the calls of both programs one by one: `ListStale`, `CancelStale`,
`ReadPositions`, `ReadOrders`, `Skip`, `Submit`, `WriteEvents` of the S2 runner, and `Evaluate`,
`Trade`, `WriteRebalance`, `SaveRebalance` of the rebalance, `SaveOnly` for its runs that save
their state without trading, with kills, refused orders and lost answers. History: `moved`,
`doubled`, `overtaken`, `lost`, the races the properties make an exception for. Orders fill
whole; rounding and the cap of the turnover are any quantity up to the difference; a bracket's
exit is `Close`. There is one rebalance process, of V1: the pipeline does not run V2
(`raec_401k_v2.py:705`), and what a second rebalance by hand adds is the race the property
excepts already, trades on figures the account has left behind. Candidates are a set, as the
selection of S2 writes one row per symbol (`s2_letf_orb_aggro.py:394`); a file made by hand that
names a symbol twice would have it bought twice, since the loop does not add to the pending
symbols it read before.

### RaecV6 and V6Allocation

`RaecV6`. A day is `Sync` or `SyncFails`, `Run` (or `RunRefused` when the snapshot is too
old), `AppendLedger`, `Post` or `PostLost`; `Again` is a rerun, `RunDies` ends a
run anywhere. The owner `Execute`s any part of a ticket or nothing, `Override`s the position
by hand, and Schwab's API may report the account as it was until `CatchUp`. Money is in
units, the risky holdings are one position, strategies, allocator and volatility scaling
are one target. Thresholds are the code's percents; slippage is below a unit.

`V6Allocation` has the functions behind that target: the seven strategies' proposals,
`Derate` by correlation, `Skill`, `Capped` (eight rounds of `Lifted`: who is over its cap
is put there, the others share what that frees), `Fit`, `Damped`, `Book`, the overlay's
`Exposure` and breaker, and `Step`, the shadow book's trades. A behaviour is a few days in
changing markets. `Allocate` is what the strategies and the allocator do on a day,
`Trade` what the overlay and the shadow book do, on weights the prices have moved;
for two days after a shock the book trades back to the weights of the day before.
Weights are hundredths of a percent; the sigmoid is taken at whole numbers; correlations
are 95 or 0; the track record has four ages; the shadow book's slippage is left out.
History: `fresh`, `below`, `frozen`. `ProposalsAccepted` is what
`StrategyOutput.__post_init__` raises for (`raec_v6/strategy_output.py:34`): a strategy
that would violate it has failed. TLC evaluates it for the markets of the run.

### BacktestEngine

The daily loop by its phases: `StartDay`, `Delist`, `Fill` (entries queued the day
before), `Manage` (stop, trim at R1, exit at R2, invalidation, time stop, in this order),
`Scan` (enter at the close or queue), `EndDay`; a guardrail that raises ends it. `trades`
and `pnl` keep, by position id from the moment it is entered, what was bought, sold and
earned. Sizes,
rejections and extension are open; quantities are tenths of a share so that the 30 % of
a trim are whole. A stop fills at the stop's price, also when the bar gaps below it.

### RegimeLedgers, PortfolioBook, EntryGates

`RegimeLedgers`. One date: `RunE1` classifies the history and appends a record,
`WriteThrottle` appends one for the latest, both drop a content that is there already;
`Refresh` changes the price history, `Crash` falls between. `Multipliers` is what the
risk controls read back.

`PortfolioBook`. `Record` appends a ledger entry, with or without side and price;
`WriteSnapshot` sorts, matches first in first out and sums up; `WriteDecisions` decides
from the latest snapshot. Sorting is stated by what it returns: `BookOf` puts the last fill
(`LastFill`, by time and side) on top of the book of the others. A sale is matched at once:
`Match` is what it takes from a lot, given the older lots of its symbol; a lot that is used up
stays with nothing left, as no later sale touches it. Every fill is filed under the default strategy, as
`ledgers.py` does. Fees, marks and broker prices are left out; a live ledger with one
line is a parse error there and ends the run.

`EntryGates`. A cycle is `BeginCycle` (the controls of the date), `Create` or `PassOver`
for each candidate, `EvaluatePositions` (rows follow the broker), `PopDue`, `Arbitrate`
or `ArbiterFails`, `ApplySleeves`, `Buy` or `Refuse`. A share costs one unit. Left out:
one-shot suppression, `allow_unsleeved`, `allow_symbol_overlap`, a cap per strategy, and
`SHADOW_STRATEGY_IDS`, which is empty by default. Candidates are numbered in the order of
their symbols, so the batch is a set and taken by symbol. What the sleeves grant is stated
as the set whose members are each allowed given the members before them. Orders are
bought whole or not at all;
`EntryPipeline` has the rest.

### ReadModels, ReadTables, Reconciliation, Dashboards, AnalyticsPlatform

`ReadModels`. A refresh is `Begin` (fingerprint), `Ingest` per ledger, `Connect`,
`WriteTable` per table, `Publish`, or `Failed`. Programs append whole or torn lines, or
lines with a field that cannot be converted, open new files and reopen old ones. A
request has the file open between `Request` and `Answer`; the library allows no writer
then and no reader while the build writes. A table is the build and the versions it was
built from. The fingerprint is one step; the back-off after failures is time and left out.

`ReadTables` is `build_readmodels.py` as functions from ledgers to tables,
`Reconciliation` the report over a day's 401(k) ledger, `Dashboards` the queries of
`api/queries.py` as functions of the tables, `AnalyticsPlatform` the behaviour around
them (`LedgersGrow`): ledgers grow, syncs append their records one after another and may die, and any
query is asked. One `Page` stands for all LIMITs, percentages are cut, tables are always
current (how far they lag is `ReadModels`), ledgers grow in the groups that some query
reads together, a state file that does not parse counts as missing. A fill is given by its place in its
table; the n-th buy of a symbol is paired with its n-th sell (`Rank`). The queries without a
property of their own are evaluated in the run: a query that failed on some table would
end it.

## 3. Runs

| run | instance | shows |
|---|---|---|
| `entry_paper` | ALPACA_PAPER, 2 symbols, 2 days, 2 orders, cap of 1 order a day, 1 crash, 1 raise, 1 failing read | booked entries never stack; the daily cap holds but for lost orders |
| `entry_live` | LIVE, 1 symbol, 2 days, 2 orders, 1 crash, 1 raise; fair | one booked entry per symbol and day; FLAT means no exposure; `EntrySlot` is implemented; stale intents leave |
| `entry_live_cap` | LIVE, no failure, 1 day, cap of 1 order; **violated** | the order cap, because of the one-line ledger |
| `stops` | 2 shares, 2 levels, 2 sessions, 2 fills, 1 fault; fair | the stop rises only, between two losses of protection; stops beyond the first are paid for by faults; protection returns in a calm market |
| `stop_delay` | 2 shares, 1 session, no failure; **violated** | the entry delay leaves covered positions alone, only |
| `trims` | 4 prices, 2 fills of 2 shares, 2 stop levels, 2 sessions, 1 fault; fair | a level fires once but for faults; a trim sold shows in the row; the row's stop, high and flags are kept; a position below its stop is sold unless a lower stop holds it |
| `raec` | 2 strategies, 3 dates, a cooldown of 2, 1 run a date in any of five modes, 1 fault; or 2 posters, 2 intents, 1 reply delivered 3 times, 2 dates, 1 fault | regime changes are ticketed but for runs told not to post and coordinators that fail; the files agree; the cooldown holds; tickets are repeated for a reason only; replies are recorded once and matched |
| `raec_v6` | 2 + 2 units, a window of 3 days, 2 market moves, 1 fault; fair | breakers are real and re-arm; freezes hold; tickets return |
| `rebalances` | 2 S2 runners and a rebalance, 2 dates, 1 fault; or V1 to V5 over 3 evaluations | nothing is bought twice without a race; orders have their line; targets and tickets are sound; the backtest tracks |
| `backtests` | 2 symbols, 3 days, 4 bars; or V6 over 4 days in 3 markets, falls of 7, 10 and 15 percent, a shock on any day with a record of 60 days | shares and money add up; caps, damper, exposure and breaker |
| `books` | regimes of a date over 36 feature vectors and 3 unusable histories, 3 runs; or 3 ledger entries, 2 days; or 3 candidates, 2 strategies, any number of cycles | controls follow the ledger; risk is monotone; the book follows the entries; a pass and the sleeves stay within their limits |
| `platform` | 3 ledgers, 2 writes, 2 faults, 1 request; or a few ledgers growing up to 4 records over up to 4 days, every query; fair | served tables are honest and catch up; the newest ticket is shown; the profit of a flat strategy is per share; a clean report explains the account |

Bounds. What the environment does is bounded by `Max...` constants, each named in its module.
Every way to go wrong that we met needs at most one or two failures, two dates and two actors,
so the passing runs have room for them. Two days are the least for what a new date resets; two
shares and two fills the least for a stop that covers a part; two levels the least for a
ratchet, and two fills the least for a row that outlives its shares; two intents the least for a
file buffer that spills; two strategies the least for a coordinator that fails half-way; four
days the least for a breaker that trips while a shock has the book frozen and is still tripped
when it thaws. `Window` is 3 days instead of 252, enough for an old peak to leave it; `History`
2 returns instead of 60. The features, bars and markets are the ones at, below and above each
threshold of the code.

Symmetry is used where nothing tells two values apart and no liveness is checked:
symbols in `entry_paper`, `backtests` and `books`, runners and symbols in `rebalances`,
regimes in `raec`.

Deadlock is checked in the runs of the entry side, stops and trims, and in `raec_v6`. The
others stop when their bounds are used up.

Fairness. `EntryPipeline`: weak fairness of `CycleMarketClosed` and of a cycle's step as a
whole, as `main()` calls `run_once` forever and every call in it returns or raises.
Nothing is assumed of the market: stale intents leave although every cycle may find it
closed, because the purge comes before the gate. `StopManager`: the pass as a whole and
the broker's handling of a cancel request; `ProtectionReturns` assumes a market that
calms down within the normal session in the property itself, as guardrail A may otherwise
refuse every stop. `TrimPipeline`: cycles, the clock, market sells that fill and
stops that fire when the price has reached them;
`StopExitHappens` assumes a price that stays at or below the row's stop and a gate that stays
open, and nothing of what stop management does but excepts what it may prevent (`HeldUp`).
`RaecV6`: the daily pipeline's steps and an API that catches up, nothing of the owner.
`ReadModels`: the refresh loop and the end of a request; writes, faults and requests are
bounded, so that they pause. No property needs strong fairness.

## 4. Proofs

TLAPS checks the 43 results PROJECT.json lists, in seven modules and with the facts of
sums of an eighth, `SumFacts`, for every value of the constants that the named assumptions
of the modelling modules allow. Every invariant below was checked by TLC before it was
proved. A property of a run is seldom inductive; what had to be added says
why the code works, so it is given for each.

**Entry side** (`EntryPipelineProofs`; `ModeAssumption`, `SymbolsAssumption`: finitely many
candidates, `BoundsAssumption`).

- `TypeCorrect`, `TypesHold`. `TypeOK` is not inductive: an accepted order takes `next_id`, so
  a submission must find an id left, and the order in flight is known exactly between submit
  and booking. `TypeInv` adds both.
- `OneEntry`, `Keyed` from `BookInv` (`BookingSafe`), which ties the broker's orders to the
  stores at each value of `pc`: an order is lost, or in flight, or its day and symbol are in
  `consumed_entries` and its key is in `order_ledger`; while an order is in flight the guards'
  verdict (not consumed) still holds for its symbol.
- `Unstacked` from `StackInv`, about left-overs: an order of an earlier day that is still alive
  must be filled, as working ones expired at midnight. A symbol with one is not FLAT from the
  refresh on, unless a read failed; with `MaxReadFaults <= 1` the guards refuse it.
- `IntentsNotDuplicated` (`QueuedOrInHand`, proved only) from `QueueInv`: a cycle has intents in
  its hands only from its pop on, so what is dropped or put back never meets a second copy.
- `ExposureShown` (`FlatMeansNoExposure`) from `ShownInv`: to survive the refresh a
  working order's symbol must not be EXITING either, and the state must be right one step
  before the order counts as booked.
- `PaperOrdersCapped` (`DailyOrderCap`, for `Mode = "ALPACA_PAPER"`) from `CapsInv`, a count:
  what the cycle read from the caps ledger lacks at most one order of the day per crash and
  per raising call, and what it adds in memory follows. LIVE
  is excluded because run `entry_live_cap` refutes it there.
- `PipelineImplementsSlots` (`ImplementsSlots`): every step maps to a step or a stutter of
  `EntrySlot`, for `MaxReadFaults <= 1`.

**Stops** (`StopManagerProofs`; `StopBounds`). `StopsAreBounded` from `StopBound`: at most one
working stop more than faults is not inductive, a submission is safe because of the cancels
before it; while stops are being cancelled those not on the list got past a fault each, and
from the second read on all that are left did. `StopOnlyRises` (`StopRatchets`) from `Ratchet`,
which follows the old level through candidate, cancel, second read and submission.

**Trims** (`TrimPipelineProofs`; `TrimConstants`). `TypeCorrect`. `LevelsFireOnce` from
`FiredOrPending`: the trims of a level that are queued, popped or sold are at most one, with the
flag up, in memory or in the row, and one more per fault. `RowsRatchet` (the action property
`RowRatchets`) from `Following` and `Trailing`: what an evaluation holds in memory is at least
what it read from the row, and on the trail before it is stored. `SoldLevelsAreShown`
(`SoldLevelsShow`) also from `Shown` and `Even`: without a fault a trim is popped only after its
flag was stored, and what is on the way to the broker is flagged in the row; a row, an evaluation
and the account know only averages no lower than the cheapest entry.

**Manual book** (`RaecProofs`; `RaecConstants`, `DeskConstants`). `TypeCorrect`,
`RegimeChangesTicketed`, `RegimesAreKept` and the action property `CooldownKept` come from one
invariant: the state a run loaded is still that of the file (`Current`), the strategies to run,
at hand and waiting are apart (`Orderly`, `Apart`), what waits to be posted is in the file
already, a saved change of regime is ticketed, waits or was lost (`Ticketed`), the coordinator's
file follows those it has run (`Followed`), and a strategy's last ticket is known to its file or
was kept out by a crash (`Known`). Of the desk: `DeskTypeCorrect`; `PostsOnlyWithExcuse` from
`Counted`, posts made and still owed of a ticket are at most one more than its excuses;
`RepliesRecorded` from `Filed` and `Judged`, which say where the receiver is with the reply at
hand.

**V6 live** (in `BooksProofs`; `RaecV6Assumption`). `RunTypesHold`. `ShocksFreeze` from `FreezeCounted`:
the saved freeze is what the runs since the shock leave of it. `BreakerJudgesTheAccount` (an
action property) from `Shown`: the saved curve is what Schwab showed.

**Paper account** (`PaperAccountProofs`; `PaperAccountConstants`). `TypeCorrect`,
`LedgersComplete` from `Accounted`, and `AccountBounded` from `Entered` and `Balanced`. The bounds
are about sums over open orders; the invariant shows that a symbol no race touched has at most
one open order, and a sum over at most one order is that order's.

**Platform** (`PlatformProofs`; `ReadModelsConstants`, `RecordsAssumption`). Of the server
`TypeCorrect` and `TablesServedHonestly`. The property is about a server at rest; through a
refresh `BuildHonest` (versions only grow, so a ledger that still has the fingerprint of the
start was read as it is), `ServerHonest` and `OneBuild` (the tables written so far are of the
build) keep it. Of the reports `CleanReportsExplain` (`CleanReportExplains`) from `SyncInv`. A
report is made of the newest snapshots of the day, which need not be those of the sync that asks
for it. The invariant says how far the sync under way has come (`SyncUnderWay`): before a
snapshot is appended every one of its kind is older, afterwards it is the newest of its kind
whatever tickets and confirmations are appended next, and when the last is there `LatestIs`
finds the report's positions. `ReportExplains` then reads off the reasons that no symbol has
what was ticketed and confirmed. Later records change nothing that an old report is about, as it
speaks of places before its own (`StaysExplained`). `RecordsAssumption` says that nobody but a
sync writes snapshots and reports, that a strategy's record has a list of trades, and an order's
a price.

Of the answers `TicketsAreShown` (`NewestTicketShown`) and `FlatProfits`
(`FlatProfitPerShare`). All they need of the behaviour is `LedgersRead`: records can be read.
What is behind them is about tables. A table with many rows per record joins sequences, and
`FlatPlaces` shows that each word of them gets one place and each place one word, so a day's page
has as many rows of a trade as its records ask for (`PageShows`), and the days of the page are
those of the trades and not of the evaluations. Buys and sells of a symbol are matched by rank:
ranks in a finite set of places reach each number up to its size once (`RanksCount`), so where
there are as many sells as buys the pairs are a matching (`RanksMeet`, `RanksDiffer`), and a
sum over the pairs is the sum over either side (`TotalRenamed`). The query ignores quantities, so
the pairs' differences are per share; where all orders have the same size and one row each,
`EvenMoney` turns them into what sales brought in less what buys cost. Nothing is claimed of
other orders.

**Books and backtests** (`BooksProofs`; `RegimeLedgersConstants`, `EntryGatesConstants`,
`BacktestConstants`, `V6Constants`, `ProposalsAccepted`, `PortfolioBookConstants`).

- `Monotone`, for any features, by comparing the conditions of the labels and the table of
  multipliers. `FollowLedger` from `InOrder`: a throttle with the content of the latest regime
  record is the latest throttle; otherwise dropping a content that is in the file already would
  leave an older one in force.
- `PassesWithinBudgets` from `PassCounted`: the pass's counters are the intents it made, in
  number and in sum. `SleevesHold` from `SleevesKept`: the grant the model chooses exists
  (`GrantsExist`), and the last intent granted to a strategy was held against all others
  (`GrantedFit`).
- `TradesAddUp` from `BooksKept`, `DaysTyped` and `IdsGiven`: no two positions share an id, an id
  is given and used once, and cash and what is invested change together in every one of the six
  kinds of exits.
- `SharesKeepCaps`, `ExposureKept` and the action property `DamperKept` from `V6Inv`.
  `RoundsExist` and `CappedFacts` show why eight rounds of the allocator's loop are enough: each
  round that lifts somebody above a cap puts one more of seven strategies there, and at the last
  nobody is lifted. `Fit` and the damper only lower what they are given above its bound.
  `ExposureFacts` and `FinalFacts` carry the whole through three cut quotients; `StepFacts` adds
  half a percent of a symbol for trades not made.
- `BookFollows` (`BookFollowsEntries`) from `BookInv`: the snapshot is made of entries that are
  there, and a later entry, whenever it was filled, is not among them. What is behind it is about
  any set of entries. `BookIs` gives the recursion of the book over the last fill, whichever of
  several `LastFill` takes; `BookAlways` shows by a minimal counterexample that the book of every
  set keeps positions and cost (`BookKept`). Positions: a sale takes from the lots of its symbol what is
  sold and no more than there is (`MatchedTotal`), which is the step of the running position
  (`RunningStep`), as at one instant all buys come before all sales; with `FillBefore_TimeOnly` the step
  is false. Money: what was paid is in open lots or is the cost of a trade (`OpenedKept`,
  `ClosedKept`), and trades are summed by day on one side, all at once on the other.

The folds of the community modules take the elements of a set in an order of their own.
`SumFacts` proves what of a sum does not depend on it (`TotalRecursion`, `TotalUnion`,
`TotalParts`, `TotalRenamed`, ...), by well-founded induction over subsets written as minimal
counterexamples, since the induction theorems with an operator parameter cannot be instantiated.

What the proof attempts corrected. `CooldownHolds` needed the history variable `unsaved`: a
crash between ticket and save was not excused. Guards of `ManualTickets!Deduplicate`
overlapped. `BreakerHalves` was stated for every day on which the freeze counter is zero, and
TLC had agreed over three days; the proof of the step found that a breaker that trips during a
freeze leaves the book uncut, and four days show it. The property now says which days it is
about, the run has four days, and the weights of the shadow book drift with the prices, which
the model had left out.

Only model-checked: liveness (`StaleIntentsLeave`, `BreakerRearms`, `TicketsReturn`,
`ProtectionReturns`, `StopExitHappens`, `ServerShowsChanges`) and what fairness means, which need
ENABLED; and `TicketsSound` and `SimTracks`, whose bounds are roundings of the instance's
targets passed through a recursive weight cap and a volatility read from a price series. They
hold on the instances of section 3 and no more is claimed.

## 5. What was found

Two statements are refuted by runs; PROJECT.json ("findings") quotes them. In LIVE a caps
ledger of one line loads as an empty one, and one order more than the cap passes
(`execution_v2/live_gate.py:286`). In the entry delay a position whose stop covers fewer
shares is left alone (`execution_v2/exits.py:849`).

The following was met while modelling. The models behave this way, and where a property
would be violated by it, the property makes the exception explicit (a history variable
or a conjunct named for it).

Execution. A submission that raises after the broker accepted it is retried; the guard
reads positions before orders, so a fill between the reads slips through and the symbol
is bought twice. A crash between submission and `record_order_once` lets the same key be
submitted again (`orders.py:56` says it prevents this). The position cap counts held
positions and this cycle's entries, not those working since an earlier cycle. A stop
cancelled for a higher one whose submission is then refused may be followed by a lower
one, as the level is stored nowhere (`exits.py:739`). A dry fallback cycle in LIVE marks
symbols consumed for the day. The kill switch does not reach stop management
(`execution_main.py:1743`). When R1 and R2 of a day sell the same number of shares, the
second has the key of the first and is dropped while its flag stays set
(`execution_main.py:2885`). A single raising sell ends the cycle and loses the trims
popped with it. Raising is what a sell does when the protective stop holds the shares, which
stop management of the same cycle normally sees to: a refused trim is lost with its flag set
(`:2905`), so a level may fire never, and `close_position` is refused in every cycle (`:2857`),
so a position below its trailing stop waits for the price of the lower stop at the broker. A row outlives its position: shares that come later have its levels, flags and
stop, whatever they cost.

Budgets. The drawdown guardrail never fires: the drawdown is at most 0 and is compared
with a positive limit (`analytics/portfolio_decision.py:303`). The daily snapshot passes
no starting capital, and until a trade is closed the drawdown is unknown: both block
every entry. The sleeve of S2 never counts S2's positions, as rows are written under the
default strategy (`sell_loop.py:62`). The minimum size of one share is not subject to the
caps. Rows of positions the broker closed are never deleted, and the arbiter refuses
their symbols for good.

Regimes. A record whose content an earlier run of the date had is dropped: after a label,
a skipped run and the same label again the latest record is the skipped one, and entries
stay blocked. A stale history ends the pipeline before the throttle. NEUTRAL has
confidence 0.4 always and is always halved.

Tickets. Slack failures are swallowed, and the ticket is recorded as sent. The smoother of the
RAEC regimes counts runs and not days (`analytics/regime_transition.py:26`, against line 9).
What is told not to post and saves all the same keeps a change of regime from ever being
ticketed: a strategy's `--dry-run --allow-state-write`, posting that is disabled, a
coordinator's dry run; so does a coordinator's death before posting. Allocations set by hand
during a run are overwritten.

RAEC targets. The breakers of V2 (VTI down 15 %, QQQ down 12 %) change nothing, as a
drawdown of 8 % is RISK_OFF with crash mode already. A lone pick gets all of the risk
budget, above `max_single_etf_weight`. `MAX_WEEKLY_TURNOVER` limits a rebalance, not a
week. Holdings that are no targets and too small for a trade are kept, so a follower's
account is asked for more than 100 %, where the backtest renormalises. V4's universe has leveraged funds
(ERX, FAS, TMF, TBT) that its leverage cap does not know.

V6. A strategy that failed returns undamped; a day on which all fail forgets the shares.
The overlay may lift a symbol to half of the book after the allocator's cap of 25 %.
`classify_from_spy_closes` never says RISK_ON. A shock's freeze may delay the breaker's cut
by two days, and both see the account as of the run before: they act one run late.

Paper account. Open buys do not use up S2's slots, so a second run fills more than
`max_positions`. The rebalance takes a short position for a long one and, when the account
cannot be read, trades on the allocations it saved before its last orders. V1's
`--dry-run --allow-state-write`, and a run with orders switched off, save the regime and the
month: the rebalance they owe is made only when drift asks for it. The rebalance of V2 started by
hand trades the same account towards other targets (`raec_401k_v2.py:705`).

Backtest. A symbol delisted without a bar is closed at its entry price
(`backtest_engine.py:736`; `docs/ALPHA_IMPLEMENTATION.md:771` says last available price).
The exit of a delisting is not in `closed_positions`. The correlation penalty looks for a
column the index does not have and fails open.

Platform. `RAEC_REBALANCE`, snapshots, risk attribution and edits of older files are not in the
fingerprint: their changes appear only with some other change. One field that cannot be
converted stops every later build, where a torn line skips its file. A build cut short leaves
tables of two builds, flagged degraded. The latest decision is counted twice. `get_pnl` with a
book asks for a column the table does not have. Decision intents carry the side in lower case
and are not found by the journal's filter. Performance counts every status row of an order and
ignores quantities: profit is per share and row, and the money of orders of several sizes, or
filled in parts, cannot be told from it. Two syncs on one day list every holding twice and halve
its weight. The cooldown shown is 3 days where the strategies use 5, and the shown splits are
not those of the coordinator. `schwab_performance` ignores the market between balance dates. In
the reconciliation every holding without a ticket that day drifts, an executed sale that closes
a position is reported as without effect, and a PARTIAL one as a wrong quantity. Strategies save
their state before their ledger record, so a death in between leaves the readiness view ahead of
the ledger.

## 6. Not modelled, and what is next

Not modelled: numerical pipelines that write input files (scanner, features, universe,
E2 regimes) and statistics nobody reads back (risk attribution, slippage models, cross
validation, metrics); the first-generation execution, operator tooling, parameter sweeps
and web front end; the paper simulator, a test mode that fills in one call; the trade log
of the platform (`trade_log_db.py`), single SQL statements on a table of its own; the
throttle of alerts; the atomic write itself, which every store relies on; broker, Slack,
Schwab and market-data clients beyond what their callers see; formatting and logging.

Next, most important first:

1. Proofs of `TicketsSound` and `SimTracks` (weights through the caps and the turnover of
   `RaecTargets`, in the manner of `CappedFacts`).
2. A composition of entries, stops and trims over one broker.
3. Live gate in full (kill switch, two keys, Phase C), alerts' throttle, `trade_log_db.py`.
