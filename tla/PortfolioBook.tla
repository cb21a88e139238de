---------------------------- MODULE PortfolioBook ----------------------------
(***************************************************************************)
(* What the analytics make of the ledgers, and what the next entries are   *)
(* allowed because of it.  Ledger entries become fills, the fills of a     *)
(* symbol are matched first in first out into trades and open lots, trades *)
(* and lots become the snapshot of a date, and the latest snapshot decides *)
(* twice about entries: in the decision file of the date, and, by its      *)
(* drawdown, in the risk controls of the buy loop (EntryGates).            *)
(*                                                                         *)
(* Every fill is filed under the default strategy, as ledgers.py does, so  *)
(* a book is kept by symbol.  A price is a positive number or Unknown.     *)
(* Fees, marks and broker prices are left out.                             *)
(***************************************************************************)
EXTENDS Integers, Sequences, SequencesExt, FiniteSets, FiniteSetsExt, Functions

CONSTANTS
  Tickers,
  Qtys,              \* bound: quantities of an entry
  Prices,            \* bound: prices of an entry
  MaxEntries,        \* bound: entries over all ledgers
  MaxTime,           \* bound: instants; two make a day
  Capitals,          \* starting capitals a snapshot is given
  MaxOpenPositions, MaxSymbolPct, MaxGrossPct, MaxDrawdownPct  \* of the config

Unknown == 0

ASSUME PortfolioBookConstants ==
  /\ Qtys \subseteq Nat \ {0} /\ Prices \subseteq Nat \ {0} /\ Capitals \subseteq Nat
  /\ IsFiniteSet(Tickers)
  /\ {MaxEntries, MaxTime, MaxOpenPositions, MaxSymbolPct, MaxGrossPct, MaxDrawdownPct}
       \subseteq Nat
  /\ MaxDrawdownPct > 0 /\ MaxTime > 0

VARIABLES
  now,       \* the instant
  ledger,    \* entries of all ledgers, in the order they are written
  snapshot,  \* the latest of the portfolio_snapshots: none reads an older one
  allowed    \* by the decision file written last

book_vars == <<now, ledger, snapshot, allowed>>

Day(t) == (t + 1) \div 2
BookDays == 1..Day(MaxTime)

NoSnapshot == [date |-> 0]

BookInit ==
  /\ now = 1 /\ ledger = <<>>
  /\ snapshot = NoSnapshot
  /\ allowed = {}

-----------------------------------------------------------------------------
(* sort_fills: by time, then symbol, then side; ids break what ties remain. *)
SideRank == [buy |-> 1, sell |-> 2, unknown |-> 3]

(* Mutant: ties in the order of writing. *)
FillBefore_TimeOnly(f, g) == f.time < g.time

FillBefore(f, g) ==
  \/ f.time < g.time
  \/ f.time = g.time /\ SideRank[f.side] < SideRank[g.side]

(* Of some entries the last; which of several is left open, as ids are. *)
LastFill(S) == CHOOSE i \in S : \A j \in S : ~FillBefore(ledger[i], ledger[j])

SumOf(F) == MapThenSumSet(LAMBDA x : F[x], DOMAIN F)

(* The lots of a symbol are closed from the oldest on: what is left of the *)
(* sale when its turn comes, and no more than the lot has.                 *)
Match(lots, fill, n) ==
  IF lots[n].sym # fill.sym THEN 0
  ELSE LET before == {m \in 1..(n - 1) : lots[m].sym = fill.sym}
       IN Min({lots[n].left, Max({0, fill.qty - SumOf([m \in before |-> lots[m].left])})})

(* A buy opens a lot, a sell closes lots, which stay with nothing left; a  *)
(* sale of what is not there is warned about and dropped, like an entry    *)
(* without a side.                                                         *)
Opened(lots, fill) ==
  Append(lots, [sym |-> fill.sym, price |-> fill.price, time |-> fill.time, left |-> fill.qty])

Closed(lots, fill) ==
  [n \in DOMAIN lots |-> [lots[n] EXCEPT !.left = @ - Match(lots, fill, n)]]

NewTrades(lots, i) ==
  {[lot |-> n, sale |-> i, qty |-> Match(lots, ledger[i], n),
    open |-> lots[n].price, close |-> ledger[i].price,
    opened |-> lots[n].time, closed |-> ledger[i].time]
   : n \in {m \in DOMAIN lots : Match(lots, ledger[i], m) > 0}}

Reconstruct(i, book) ==
  CASE ledger[i].side = "buy" -> [book EXCEPT !.lots = Opened(@, ledger[i])]
    [] ledger[i].side = "sell" -> [lots   |-> Closed(book.lots, ledger[i]),
                                   trades |-> book.trades \cup NewTrades(book.lots, i)]
    [] OTHER -> book

NoBook == [lots |-> <<>>, trades |-> {}]

(* Fill after fill: the last of them comes on top of the book of the rest. *)
BookOf(S) == MapThenFoldSet(Reconstruct, NoBook, LAMBDA i : i, LastFill, S)

-----------------------------------------------------------------------------
Priced(t)   == t.open # Unknown /\ t.close # Unknown

TradeRealized(t) == (t.close - t.open) * t.qty

ClosedOn(trades, d) == {t \in trades : Day(t.closed) = d}

(* A trade without a price makes the result of its day unknown. *)
DayKnown(trades, d) == \A t \in ClosedOn(trades, d) : Priced(t)
DayRealized(trades, d) == SumOf([t \in ClosedOn(trades, d) |-> TradeRealized(t)])

(* compute_drawdown: the deepest fall of the realized equity below its     *)
(* peak, in percent of the peak: zero or negative; unknown without trades  *)
(* or with a day that is.                                                  *)
Equity(trades, capital, d) ==
  capital + SumOf([e \in 1..d |-> DayRealized(trades, e)])

Drawdown(trades, capital) ==
  LET days    == {d \in BookDays : ClosedOn(trades, d) # {}}
      peak(d) == Max({capital} \cup {Equity(trades, capital, e) : e \in 1..d})
      fall(d) == IF peak(d) = 0 THEN 0
                 ELSE ((Equity(trades, capital, d) - peak(d)) * 100) \div peak(d)
  IN [known |-> days # {} /\ \A d \in days : DayKnown(trades, d),
      pct   |-> Min({0} \cup {fall(d) : d \in days})]

(* build_positions: what is open of a symbol, at its average price; the    *)
(* exposure is its cost.                                                   *)
LotsOf(lots, s) == {n \in DOMAIN lots : lots[n].sym = s /\ lots[n].left > 0}

PositionOf(lots, s) ==
  [qty    |-> SumOf([n \in LotsOf(lots, s) |-> lots[n].left]),
   priced |-> \A n \in LotsOf(lots, s) : lots[n].price # Unknown,
   cost   |-> SumOf([n \in LotsOf(lots, s) |-> lots[n].left * lots[n].price])]

Snapshot(date, capital) ==
  LET book == BookOf(DOMAIN ledger)
  IN [date |-> date, capital |-> capital, lots |-> book.lots, trades |-> book.trades,
      positions |-> [s \in Tickers |-> PositionOf(book.lots, s)],
      drawdown |-> Drawdown(book.trades, capital), upto |-> Len(ledger)]

(* load_portfolio_snapshot: capital, drawdown and average prices must be   *)
(* there.                                                                  *)
Valid(p) ==
  /\ p.capital # 0
  /\ p.drawdown.known
  /\ \A s \in Tickers : p.positions[s].priced

(* build_portfolio_decisions, for one candidate. *)
AllowedBy(p, s) ==
  /\ Valid(p)
  /\ Cardinality({r \in Tickers : p.positions[r].qty > 0}) <= MaxOpenPositions
  /\ p.positions[s].cost * 100 <= MaxSymbolPct * p.capital
  /\ SumOf([r \in Tickers |-> p.positions[r].cost]) * 100 <= MaxGrossPct * p.capital
  /\ p.drawdown.pct < MaxDrawdownPct

-----------------------------------------------------------------------------
(* A ledger gains an entry: of the documented form, or, as the entry       *)
(* ledgers of dry runs and of LIVE are written, without a side.            *)
Record ==
  /\ Len(ledger) < MaxEntries
  /\ \E s \in Tickers :
       \/ \E side \in {"buy", "sell"}, q \in Qtys, p \in Prices \cup {Unknown} :
            ledger' = Append(ledger, [sym |-> s, side |-> side, qty |-> q,
                                      price |-> p, time |-> now])
       \/ ledger' = Append(ledger, [sym |-> s, side |-> "unknown", qty |-> 1,
                                    price |-> Unknown, time |-> now])
  /\ UNCHANGED <<now, snapshot, allowed>>

(* The snapshot of the date; it overwrites an earlier one of the date, and *)
(* its name sorts after the names of older ones.                           *)
WriteSnapshot ==
  /\ \E c \in Capitals : snapshot' = Snapshot(Day(now), c)
  /\ UNCHANGED <<now, ledger, allowed>>

(* The decision file of the date from the latest snapshot, of any date.    *)
(* Each candidate is decided by itself, so every symbol is taken for one.  *)
WriteDecisions ==
  /\ allowed' = IF snapshot = NoSnapshot THEN {}
                ELSE {s \in Tickers : AllowedBy(snapshot, s)}
  /\ UNCHANGED <<now, ledger, snapshot>>

Tick ==
  /\ now < MaxTime
  /\ now' = now + 1
  /\ UNCHANGED <<ledger, snapshot, allowed>>

BookNext == Record \/ WriteSnapshot \/ WriteDecisions \/ Tick

BookSpec == BookInit /\ [][BookNext]_book_vars
-----------------------------------------------------------------------------
Books == {snapshot} \ {NoSnapshot}

(* The entries a snapshot was made of. *)
Entries(p, s, side, t) ==
  {i \in 1..p.upto : ledger[i].sym = s /\ ledger[i].side = side /\ ledger[i].time = t}

(* The position of a symbol is its running position: at each instant what  *)
(* was bought less what was sold, never below zero, in whatever order the  *)
(* entries of an instant were written.                                     *)
Running(net) ==
  LET pos[t \in 0..MaxTime] == IF t = 0 THEN 0 ELSE Max({0, pos[t - 1] + net[t]})
  IN pos[MaxTime]

RunningPosition ==
  \A p \in Books, s \in Tickers :
    LET traded(side, t) == SumOf([i \in Entries(p, s, side, t) |-> ledger[i].qty])
    IN p.positions[s].qty =
         Running([t \in 1..MaxTime |-> traded("buy", t) - traded("sell", t)])

(* What all days realized is what the sales brought in less what the lots  *)
(* they closed had cost: what was ever paid, less what is still open.      *)
MoneyConserves ==
  \A p \in Books :
    (\A i \in 1..p.upto : ledger[i].price # Unknown) =>
      LET bought   == {i \in 1..p.upto : ledger[i].side = "buy"}
          proceeds == SumOf([t \in p.trades |-> t.qty * t.close])
          paid     == SumOf([i \in bought |-> ledger[i].qty * ledger[i].price])
          open     == SumOf([s \in Tickers |-> p.positions[s].cost])
      IN Equity(p.trades, p.capital, Day(MaxTime)) - p.capital = proceeds - (paid - open)

(* The book follows the entries: positions and money. *)
BookFollowsEntries == RunningPosition /\ MoneyConserves

=============================================================================
