--------------------------- MODULE BacktestEngine ---------------------------
(***************************************************************************)
(* The daily loop of the backtest: positions of delisted symbols are       *)
(* closed, entries signalled the day before are filled at the open, every  *)
(* position is held against the bar of the day (stop, trim at R1, exit at  *)
(* R2, invalidation, time stop, in this order), and the candidates of the  *)
(* day are entered at the close or queued for the next open, as the entry  *)
(* model says.  A guardrail that is hit raises and ends the backtest.      *)
(*                                                                         *)
(* Quantities are in tenths of a share, so that the 30% trimmed are whole. *)
(* The scan proposes long candidates only.                                 *)
(***************************************************************************)
EXTENDS Integers, Sequences, FiniteSets, FiniteSetsExt, Functions

CONSTANTS
  Symbols,
  Bars,               \* what a bar can be: [o, h, l, c]
  Stop, R1, R2,       \* levels of a candidate
  Buffer,             \* a close below Stop + Buffer invalidates
  Slip,               \* slippage of a fill, within the entry limit
  MaxPositions, MaxHold,
  Cash,               \* BACKTEST_INITIAL_CASH
  Sizes,              \* shares the sizing can come to
  LastDay             \* the trading days

ASSUME BacktestConstants ==
  /\ IsFiniteSet(Symbols) /\ LastDay \in Nat \ {0}
  /\ MaxPositions \in Nat /\ MaxHold \in Nat \ {0}
  /\ {Stop, R1, R2, Buffer} \subseteq Int /\ Stop < R1 /\ R1 < R2
  /\ Slip \in Nat /\ Cash \in Nat /\ Sizes \subseteq Nat \ {0}
  /\ Bars \subseteq [o : Nat, h : Nat, l : Nat, c : Nat]
  /\ \A b \in Bars : b.l <= b.o /\ b.l <= b.c /\ b.o <= b.h /\ b.c <= b.h

VARIABLES
  entry_model,     \* of the configuration, never changed
  e_day, e_phase, todo,
  bars,            \* of the day; NoBar for a symbol that did not trade
  last,            \* last close of each symbol, 0 before its first
  gone,            \* symbols delisted so far
  positions,       \* by symbol
  pending,         \* symbols to enter at the open, with their ids
  cash,
  next_position_id,
  trades,          \* by position id, once entered: bought and sold, in tenths
  pnl,             \* of all trades so far
  closed,          \* ids in closed_positions, in order
  delisted         \* ids closed by a delisting

e_market == <<e_day, bars, last>>
books  == <<positions, cash, trades, pnl, closed>>
e_vars   == <<entry_model, e_market, e_phase, todo, gone, pending, next_position_id, books,
            delisted>>

-----------------------------------------------------------------------------
NoBar == [o |-> 0, h |-> 0, l |-> 0, c |-> 0]
Traded(s) == bars[s] # NoBar

Days == {[s \in Symbols |-> IF s \in off THEN NoBar ELSE b[s]] :
           off \in SUBSET Symbols, b \in [Symbols -> Bars]}

EngineInit ==
  /\ entry_model \in {"next_open", "same_close"}
  /\ e_day = 1 /\ e_phase = "start" /\ todo = {} /\ bars \in Days
  /\ last = [s \in Symbols |-> 0] /\ gone = {}
  /\ positions = [s \in {} |-> 0] /\ pending = [s \in {} |-> 0]
  /\ cash = Cash * 10 /\ next_position_id = 1
  /\ trades = [i \in {} |-> 0] /\ pnl = 0 /\ closed = <<>>
  /\ delisted = {}

Without(f, s) == Restrict(f, DOMAIN f \ {s})
With(f, s, v) == [t \in DOMAIN f \cup {s} |-> IF t = s THEN v ELSE f[t]]
LastClose(s)  == IF Traded(s) THEN bars[s].c ELSE last[s]

-----------------------------------------------------------------------------
(* Fills                                                                   *)

(* What a sale of qty tenths at a price does to cash, profit and trades.   *)
Sold(pos, qty, price) ==
  /\ cash' = cash + price * qty
  /\ pnl'  = pnl + (price - pos.entry) * qty
  /\ trades' = [trades EXCEPT ![pos.id].sold = @ + qty]

(* A trade of an id that was there before would add to it. *)
Bought(id, qty) ==
  IF id \in DOMAIN trades THEN [trades[id] EXCEPT !.bought = @ + qty]
  ELSE [bought |-> qty, sold |-> 0]

NewPosition(id, price, qty, level, failed) ==
  [id |-> id, entry |-> price, initial |-> qty * 10, remaining |-> qty * 10,
   hold |-> 0, trimmed |-> FALSE, level |-> level, failed |-> failed]

(* Every guardrail but this one is left open: it may raise or not. *)
Allowed == Cardinality(DOMAIN positions) < MaxPositions

(* The entry limit, the sector cap, the sizing and the cash may each skip   *)
(* an entry, the guardrails raise instead; risk controls may then reduce    *)
(* the quantity, not to zero.                                               *)
Enter(s, id, price, level, failed) ==
  \/ UNCHANGED <<books, e_phase>>
  \/ \E base \in Sizes :
       /\ base * 10 * price <= cash /\ Allowed
       /\ \E qty \in 1..base :
            /\ cash' = cash - price * qty * 10
            /\ positions' = With(positions, s,
                                 NewPosition(id, price, qty, level, failed))
            /\ trades' = With(trades, id, Bought(id, qty * 10))
       /\ UNCHANGED <<e_phase, pnl, closed>>
  \/ /\ \E base \in Sizes : base * 10 * price <= cash
     /\ e_phase' = "raised" /\ UNCHANGED books

-----------------------------------------------------------------------------
(* The day                                                                 *)

(* get_delistings goes by date, so a symbol stays delisted. *)
StartDay ==
  /\ e_phase = "start"
  /\ gone' \in SUBSET Symbols /\ gone \subseteq gone'
  /\ e_phase' = "delist" /\ todo' = gone' \cap DOMAIN positions
  /\ UNCHANGED <<entry_model, e_market, pending, next_position_id, books, delisted>>

(* The exit is at the close of the day, or at the entry price if there is  *)
(* none, and is not among the closed positions the statistics are made of. *)
Delist ==
  /\ e_phase = "delist"
  /\ \E s \in todo :
       LET pos   == positions[s]
           price == IF Traded(s) THEN bars[s].c ELSE pos.entry
       IN /\ Sold(pos, pos.remaining, price)
          /\ positions' = Without(positions, s)
          /\ delisted' = delisted \cup {pos.id}
          /\ todo' = todo \ {s}
  /\ UNCHANGED <<entry_model, e_market, e_phase, gone, pending, next_position_id, closed>>

(* An entry without a bar is dropped. *)
Fill ==
  /\ e_phase = "fill"
  /\ \E s \in todo :
       /\ todo' = todo \ {s}
       /\ IF s \in DOMAIN positions \/ ~Traded(s) THEN UNCHANGED <<books, e_phase>>
          ELSE Enter(s, pending[s].id, bars[s].o + Slip, pending[s].level,
                     pending[s].failed)
  /\ UNCHANGED <<entry_model, e_market, gone, pending, next_position_id, delisted>>

-----------------------------------------------------------------------------
(* A position against the bar of the day                                   *)

Invalidated(pos, bar) ==
  bar.c < Stop + Buffer \/ (pos.failed /\ pos.hold >= 1 /\ bar.c < pos.level)

StopHit(bar)  == bar.l <= Stop
R2Hit(bar)    == bar.h >= R2

TimeStop(pos) == pos.hold >= MaxHold

(* In the order the loop asks; 0 when the position stays. *)
ExitPrice(pos, bar) ==
  CASE StopHit(bar) -> Stop - Slip
    [] ~StopHit(bar) /\ R2Hit(bar) -> R2 - Slip
    [] OTHER -> IF Invalidated(pos, bar) \/ TimeStop(pos) THEN bar.c - Slip ELSE 0

(* 30% of what was bought, once, at R1 and not on the bar of the stop;     *)
(* whether the position is extended and the bar rejects R1 is left open.   *)
Trims(pos, bar) ==
  {0} \cup IF ~StopHit(bar) /\ bar.h >= R1 /\ ~pos.trimmed
           THEN {(pos.initial * 3) \div 10} ELSE {}

Trimmed(pos, trim) ==
  [pos EXCEPT !.remaining = @ - trim, !.trimmed = IF trim > 0 THEN TRUE ELSE @]

Manage ==
  /\ e_phase = "manage"
  /\ \E s \in todo :
       /\ todo' = todo \ {s}
       /\ IF ~Traded(s) THEN UNCHANGED books
          ELSE LET pos   == [positions[s] EXCEPT !.hold = @ + 1]
                   price == ExitPrice(pos, bars[s])
               IN \E trim \in Trims(pos, bars[s]) :
                  LET left == pos.remaining - trim
                      sold == IF price = 0 THEN 0 ELSE left
                  IN /\ cash' = cash + trim * (R1 - Slip) + sold * price
                     /\ pnl' = pnl + trim * (R1 - Slip - pos.entry)
                                   + sold * (price - pos.entry)
                     /\ trades' = [trades EXCEPT ![pos.id].sold = @ + trim + sold]
                     /\ IF price = 0
                        THEN /\ positions' = [positions EXCEPT ![s] = Trimmed(pos, trim)]
                             /\ UNCHANGED closed
                        ELSE /\ positions' = Without(positions, s)
                             /\ closed' = Append(closed, pos.id)
  /\ UNCHANGED <<entry_model, e_market, e_phase, gone, pending, next_position_id,
                 delisted>>

-----------------------------------------------------------------------------
(* The scan and the end of the day                                         *)

(* Mutant: what is held may be signalled again. *)
Free_Queued(s) == s \notin DOMAIN pending

Free(s) == s \notin DOMAIN positions \cup DOMAIN pending

Scanned(s) == LastClose(s) # 0

Queued(s, failed) ==
  [id |-> next_position_id, level |-> LastClose(s), failed |-> failed]

(* A candidate, if the symbol has a history and is neither held nor queued; *)
(* on the last day nothing is queued.                                       *)
Scan ==
  /\ e_phase = "scan"
  /\ \E s \in todo :
       /\ todo' = todo \ {s}
       /\ \/ UNCHANGED <<books, e_phase, pending, next_position_id>>
          \/ /\ Scanned(s) /\ Free(s)
             /\ \E failed \in BOOLEAN :
                IF entry_model = "next_open"
                THEN /\ e_day < LastDay
                     /\ pending' = With(pending, s, Queued(s, failed))
                     /\ next_position_id' = next_position_id + 1
                     /\ UNCHANGED <<books, e_phase>>
                ELSE /\ Traded(s)
                     /\ Enter(s, next_position_id, bars[s].c + Slip, bars[s].c,
                              failed)
                     /\ next_position_id' = next_position_id
                          + Cardinality(DOMAIN positions' \ DOMAIN positions)
                     /\ UNCHANGED pending
  /\ UNCHANGED <<entry_model, e_market, gone, delisted>>

(* From one pass of the day to the next. *)
Turn ==
  /\ todo = {} /\ e_phase \in {"delist", "fill", "manage"}
  /\ \/ /\ e_phase = "delist" /\ e_phase' = "fill" /\ todo' = DOMAIN pending
        /\ UNCHANGED pending
     \/ /\ e_phase = "fill" /\ e_phase' = "manage" /\ todo' = DOMAIN positions
        /\ pending' = [s \in {} |-> 0]
     \/ /\ e_phase = "manage" /\ e_phase' = "scan" /\ todo' = Symbols /\ UNCHANGED pending
  /\ UNCHANGED <<entry_model, e_market, gone, next_position_id, books, delisted>>

(* The positions are valued at their last closes. *)
EndDay ==
  /\ e_phase = "scan" /\ todo = {}
  /\ IF e_day < LastDay
     THEN e_day' = e_day + 1 /\ e_phase' = "start" /\ bars' \in Days
     ELSE e_phase' = "done" /\ UNCHANGED <<e_day, bars>>
  /\ last' = [s \in Symbols |-> LastClose(s)]
  /\ UNCHANGED <<entry_model, todo, gone, pending, next_position_id, books, delisted>>

EngineNext == StartDay \/ Delist \/ Fill \/ Manage \/ Scan \/ Turn \/ EndDay

EngineSpec == EngineInit /\ [][EngineNext]_e_vars

-----------------------------------------------------------------------------
Open == {positions[s].id : s \in DOMAIN positions}
Ended == delisted \cup Range(closed)
Invested == MapThenSumSet(LAMBDA s : positions[s].entry * positions[s].remaining,
                          DOMAIN positions)

(* Cash is the initial cash and the profit of all trades, less what the    *)
(* open positions cost: no fill is booked twice or in part.                *)
CashAccounts == cash = Cash * 10 + pnl - Invested

(* Of every position as much is sold as was bought less what is left; it   *)
(* is open, closed once, or delisted, and the statistics count it once.    *)
SharesAccounted ==
  /\ \A s \in DOMAIN positions :
       LET p == positions[s]
       IN /\ trades[p.id] = [bought |-> p.initial, sold |-> p.initial - p.remaining]
          /\ p.remaining \in 1..p.initial
  /\ \A i \in Ended : trades[i].bought = trades[i].sold /\ trades[i].bought > 0
  /\ DOMAIN trades = Open \cup Ended
  /\ Open \cap Ended = {} /\ IsInjective(closed)

(* Shares and money of all trades add up. *)
TradesAccounted == SharesAccounted /\ CashAccounts

=============================================================================
