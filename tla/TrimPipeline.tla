---------------------------- MODULE TrimPipeline ----------------------------
(***************************************************************************)
(* The exit side of run_once in LIVE for one symbol: in every open cycle   *)
(* sell_loop.evaluate_positions compares the price with the levels of the  *)
(* position's row and queues trims, and the end of the same cycle pops the *)
(* queue and sells.  The queue, the row and the key table commit one by    *)
(* one; the broker, the clock and the protective stop go on in between.    *)
(*                                                                         *)
(* Prices are numbers on a scale the levels of the scan are also on.  Only *)
(* LIVE gets here: ALPACA_PAPER returns before it pops.                    *)
(***************************************************************************)
EXTENDS Naturals, Sequences, FiniteSetsExt

CONSTANTS
  Prices,      \* the prices the market may take
  StopLoss, Pivot, R1, R2,  \* levels of the candidate the row was made from
  EntryQtys,   \* sizes an entry may fill with
  EntryPrices, \* prices an entry may fill at
  StopLevels,  \* levels stop management may place a protective stop at
  MaxDay,      \* bound: sessions explored
  MaxEntries,  \* bound: fills of entry orders
  MaxFaults    \* bound: calls that raise, and process crashes

ASSUME TrimConstants ==
  /\ Prices \subseteq Nat /\ Pivot \in Prices
  /\ StopLoss \in Nat /\ R1 \in Nat /\ R2 \in Nat
  /\ EntryQtys \subseteq Nat \ {0} /\ EntryPrices \subseteq Nat
  /\ StopLevels \subseteq Nat
  /\ MaxDay \in Nat \ {0} /\ MaxEntries \in Nat /\ MaxFaults \in Nat

VARIABLES
  (* market and broker *)
  day, price,
  candidate,     \* the symbol is in today's candidate file
  position, avg_price,
  stop_qty,      \* shares the protective stop order holds
  stop_level,    \* the price at which it sells them
  selling,       \* shares in market sells that have not filled yet
  (* durable *)
  row,           \* positions row of the symbol, or NoRow
  trim_intents,  \* table trim_intents, in order
  order_ledger,  \* quantities sold today: what is left of their keys
  symbol_state,  \* symbol_execution_state of today
  fill_ts,       \* its entry_fill_ts_utc: none, recent, or old enough
  entered,       \* consumed_entries of today
  (* one call of run_once *)
  pc, live_active,
  seen,          \* current_price of the evaluation
  ps,            \* the PositionState in memory
  batch,         \* popped trims
  sell_qty,      \* quantity of the trim in hand
  (* history and budgets *)
  sold,          \* level trims the broker accepted
  entries, faults

market  == <<day, price, candidate>>
broker  == <<position, avg_price, stop_qty, stop_level, selling>>
states  == <<symbol_state, fill_ts, entered>>
local   == <<live_active, seen, ps, batch, sell_qty>>
budgets == <<entries, faults>>
vars    == <<market, broker, row, trim_intents, order_ledger, states,
             pc, local, sold, budgets>>

-----------------------------------------------------------------------------
NoRow   == [stop |-> 0]
Row     == [stop : Nat, avg : Nat, high : Nat, r1 : BOOLEAN, r2 : BOOLEAN]
Reasons == {"r1_trim", "r2_trim", "stop_exit"}
Steps   == {"idle", "stops", "read", "r1", "r2", "exit", "upsert", "refresh",
            "pop", "trims", "sell", "record", "mark"}

(* _measured_move, and trail_move_fraction = 0.5 of it. *)
MeasuredMove == IF R2 > Pivot THEN R2 - Pivot ELSE 0
TrailDistance == MeasuredMove \div 2

(* The row of a new position starts from the candidate; from then on it    *)
(* keeps its levels, its flags and its stop: no code path deletes a row.   *)
Loaded ==
  IF row = NoRow
    THEN [stop |-> StopLoss, avg |-> avg_price, high |-> price,
          r1 |-> FALSE, r2 |-> FALSE]
    ELSE [row EXCEPT !.avg = avg_price, !.high = Max({@, price})]

Armed     == fill_ts = "old"
Available == LET held == stop_qty + selling
             IN IF held >= position THEN 0 ELSE position - held

(* r1_trim_pct and r2_trim_pct are 0.5; a stop exit sells everything. *)
TrimQty(reason) == IF reason = "stop_exit" THEN position ELSE position \div 2

Fault == faults < MaxFaults /\ faults' = faults + 1

Init ==
  /\ day = 1 /\ price = Pivot /\ candidate \in BOOLEAN
  /\ position = 0 /\ avg_price = 0 /\ selling = 0
  /\ stop_qty = 0 /\ stop_level = 0
  /\ row = NoRow /\ trim_intents = <<>> /\ order_ledger = {}
  /\ symbol_state = "FLAT" /\ fill_ts = "none" /\ entered = FALSE
  /\ pc = "idle" /\ live_active = FALSE /\ seen = 0 /\ ps = NoRow
  /\ batch = <<>> /\ sell_qty = 0
  /\ sold = [r1_trim |-> 0, r2_trim |-> 0]
  /\ entries = 0 /\ faults = 0

(* run_once returns or raises, or the process dies. *)
LeaveCycle ==
  /\ pc' = "idle" /\ live_active' = FALSE /\ seen' = 0 /\ ps' = NoRow
  /\ batch' = <<>> /\ sell_qty' = 0

-----------------------------------------------------------------------------
(* sell_loop.evaluate_positions                                            *)

(* An open cycle of LIVE: the gate, then stop management (StopManager),    *)
(* which may leave the protective stop alone, cancel it, or place it for   *)
(* all the shares, below the price and never at it or above.               *)
BeginCycle ==
  /\ pc = "idle"
  /\ live_active' \in BOOLEAN
  /\ pc' = "stops"
  /\ UNCHANGED <<market, broker, row, trim_intents, order_ledger, states,
                 seen, ps, batch, sell_qty, sold, budgets>>

ManageStops ==
  /\ pc = "stops"
  /\ \/ UNCHANGED <<stop_qty, stop_level>>
     \/ stop_qty' = 0 /\ stop_level' = 0
     \/ /\ stop_qty' = stop_qty + Available /\ stop_qty' > 0
        /\ stop_level' \in StopLevels /\ stop_level' < price
  /\ pc' = "read"
  /\ UNCHANGED <<market, position, avg_price, selling, row, trim_intents,
                 order_ledger, states, local, sold, budgets>>

(* Only positions the candidate file names are looked at. *)
ReadPosition ==
  /\ pc = "read" /\ candidate /\ position > 0
  /\ seen' = price /\ ps' = Loaded
  /\ pc' = IF MeasuredMove = 0 THEN "upsert" ELSE "r1"
  /\ UNCHANGED <<market, broker, row, trim_intents, order_ledger, states,
                 live_active, batch, sell_qty, sold, budgets>>

NothingToEvaluate ==
  /\ pc = "read" /\ ~(candidate /\ position > 0)
  /\ pc' = "refresh"
  /\ UNCHANGED <<market, broker, row, trim_intents, order_ledger, states, local,
                 sold, budgets>>

(* add_trim_intent commits at once. *)
Add(reason) == trim_intents' = Append(trim_intents, reason)

(* Mutant: the flag is not looked at. *)
EvaluateR1_Again ==
  /\ pc = "r1"
  /\ IF seen >= R1
       THEN /\ Add("r1_trim")
            /\ ps' = [ps EXCEPT !.r1 = TRUE, !.stop = Max({@, ps.avg})]
       ELSE UNCHANGED <<trim_intents, ps>>
  /\ pc' = "r2"
  /\ UNCHANGED <<market, broker, row, order_ledger, states,
                 live_active, seen, batch, sell_qty, sold, budgets>>

(* Mutant: the stop stays where it was. *)
EvaluateR1_NoBreakeven ==
  /\ pc = "r1"
  /\ IF seen >= R1 /\ ~ps.r1
       THEN Add("r1_trim") /\ ps' = [ps EXCEPT !.r1 = TRUE]
       ELSE UNCHANGED <<trim_intents, ps>>
  /\ pc' = "r2"
  /\ UNCHANGED <<market, broker, row, order_ledger, states,
                 live_active, seen, batch, sell_qty, sold, budgets>>

(* The trim, its flag, and the stop at breakeven. *)
EvaluateR1 ==
  /\ pc = "r1"
  /\ IF seen >= R1 /\ ~ps.r1
       THEN /\ Add("r1_trim")
            /\ ps' = [ps EXCEPT !.r1 = TRUE, !.stop = Max({@, ps.avg})]
       ELSE UNCHANGED <<trim_intents, ps>>
  /\ pc' = "r2"
  /\ UNCHANGED <<market, broker, row, order_ledger, states,
                 live_active, seen, batch, sell_qty, sold, budgets>>

(* Mutant: the trailing stop follows the price instead of the high-water mark. *)
Trailed_ByPrice(p) ==
  IF p.r2 THEN [p EXCEPT !.stop = Max({StopLoss, seen - TrailDistance})] ELSE p

(* From R2 on the stop trails the high-water mark. *)
Trailed(p) ==
  IF p.r2 THEN [p EXCEPT !.stop = Max({@, p.high - TrailDistance})] ELSE p

EvaluateR2 ==
  /\ pc = "r2"
  /\ IF seen >= R2 /\ ~ps.r2
       THEN Add("r2_trim") /\ ps' = Trailed([ps EXCEPT !.r2 = TRUE])
       ELSE ps' = Trailed(ps) /\ UNCHANGED trim_intents
  /\ pc' = "exit"
  /\ UNCHANGED <<market, broker, row, order_ledger, states,
                 live_active, seen, batch, sell_qty, sold, budgets>>

(* A stop exit has no flag: it is queued again in every cycle. *)
StopHit == seen <= ps.stop

EvaluateStop ==
  /\ pc = "exit"
  /\ IF StopHit THEN Add("stop_exit") ELSE UNCHANGED trim_intents
  /\ pc' = "upsert"
  /\ UNCHANGED <<market, broker, row, order_ledger, states, local, sold, budgets>>

UpsertPosition ==
  /\ pc = "upsert"
  /\ row' = ps
  /\ pc' = "refresh"
  /\ ps' = NoRow /\ seen' = 0
  /\ UNCHANGED <<market, broker, trim_intents, order_ledger, states,
                 live_active, batch, sell_qty, sold, budgets>>

(* A call of the evaluation raises; run_once logs it and goes on.  What    *)
(* was queued stays queued, the row keeps what it had.                     *)
EvaluationRaises ==
  /\ pc \in {"read", "r1", "r2", "exit", "upsert"}
  /\ Fault
  /\ ps' = NoRow /\ seen' = 0
  /\ pc' = "refresh"
  /\ UNCHANGED <<market, broker, row, trim_intents, order_ledger, states,
                 live_active, batch, sell_qty, sold, entries>>

-----------------------------------------------------------------------------
(* The trims at the end of run_once                                        *)

(* apply_open_positions; a position seen for the first time on a date      *)
(* counts as filled now.  A failing read is swallowed.                     *)
Refresh ==
  /\ pc = "refresh"
  /\ \/ /\ position > 0 /\ symbol_state \in {"FLAT", "ENTERING"}
        /\ symbol_state' = "OPEN" /\ fill_ts' = "recent"
        /\ UNCHANGED faults
     \/ /\ position = 0 /\ symbol_state = "EXITING"
        /\ symbol_state' = "FLAT"
        /\ UNCHANGED <<fill_ts, faults>>
     \/ /\ IF position > 0 THEN symbol_state \in {"OPEN", "EXITING"}
                           ELSE symbol_state # "EXITING"
        /\ UNCHANGED <<symbol_state, fill_ts, faults>>
     \/ Fault /\ UNCHANGED <<symbol_state, fill_ts>>
  /\ pc' = "pop"
  /\ UNCHANGED <<market, broker, row, trim_intents, order_ledger, entered, local,
                 sold, entries>>

(* pop_trim_intents: from here the trims exist in memory only. *)
PopTrims ==
  /\ pc = "pop"
  /\ batch' = trim_intents /\ trim_intents' = <<>>
  /\ pc' = "trims"
  /\ UNCHANGED <<market, broker, row, order_ledger, states,
                 live_active, seen, ps, sell_qty, sold, budgets>>

(* Mutant: exits are checked against the keys as trims are. *)
KeyUsed_Any(reason) == TrimQty(reason) \in order_ledger

(* The key (date, symbol, sell, quantity) does not name the level. *)
KeyUsed(reason) == reason # "stop_exit" /\ TrimQty(reason) \in order_ledger

Sells(reason) ==
  /\ Armed /\ position > 0 /\ live_active
  /\ TrimQty(reason) > 0 /\ ~KeyUsed(reason)

(* Not armed, no position, nothing to sell, key used, or not live; or the  *)
(* position read raises.  Nothing is put back.                             *)
DropTrim ==
  /\ pc = "trims" /\ batch # <<>>
  /\ \/ ~Sells(Head(batch)) /\ UNCHANGED faults
     \/ Fault
  /\ batch' = Tail(batch)
  /\ UNCHANGED <<market, broker, row, trim_intents, order_ledger, states,
                 pc, live_active, seen, ps, sell_qty, sold, entries>>

TakeTrim ==
  /\ pc = "trims" /\ batch # <<>>
  /\ Sells(Head(batch))
  /\ sell_qty' = TrimQty(Head(batch))
  /\ pc' = "sell"
  /\ UNCHANGED <<market, broker, row, trim_intents, order_ledger, states,
                 live_active, seen, ps, batch, sold, budgets>>

BrokerAccepts ==
  /\ sell_qty <= Available
  /\ selling' = selling + sell_qty
  /\ sold' = IF Head(batch) = "stop_exit" THEN sold
             ELSE [sold EXCEPT ![Head(batch)] = @ + 1]

(* submit_order for a trim; close_position for an exit, which is not       *)
(* recorded anywhere.                                                      *)
SellAccepted ==
  /\ pc = "sell"
  /\ BrokerAccepts
  /\ IF Head(batch) = "stop_exit"
       THEN pc' = "trims" /\ batch' = Tail(batch) /\ sell_qty' = 0
       ELSE pc' = "record" /\ UNCHANGED <<batch, sell_qty>>
  /\ UNCHANGED <<market, position, avg_price, stop_qty, stop_level, row, trim_intents,
                 order_ledger, states, live_active, seen, ps, budgets>>

(* The broker refuses: other orders hold the shares.  Or the call raises,  *)
(* with or without the order placed.  Nobody catches it, and the trims     *)
(* that were popped with this one are gone.                                *)
SellRaises ==
  /\ pc = "sell"
  /\ \/ sell_qty > Available /\ UNCHANGED <<selling, sold, faults>>
     \/ Fault /\ UNCHANGED <<selling, sold>>
     \/ Fault /\ BrokerAccepts
  /\ LeaveCycle
  /\ UNCHANGED <<market, position, avg_price, stop_qty, stop_level, row, trim_intents,
                 order_ledger, states, entries>>

(* record_order_once and record_order_submission. *)
RecordSell ==
  /\ pc = "record"
  /\ order_ledger' = order_ledger \union {sell_qty}
  /\ pc' = "mark"
  /\ UNCHANGED <<market, broker, row, trim_intents, states, local, sold, budgets>>

(* transition(symbol, "EXITING") and save(). *)
MarkExiting ==
  /\ pc = "mark"
  /\ symbol_state' = "EXITING"
  /\ pc' = "trims" /\ batch' = Tail(batch) /\ sell_qty' = 0
  /\ UNCHANGED <<market, broker, row, trim_intents, order_ledger, fill_ts, entered,
                 live_active, seen, ps, sold, budgets>>

FinishCycle ==
  /\ pc = "trims" /\ batch = <<>>
  /\ LeaveCycle
  /\ UNCHANGED <<market, broker, row, trim_intents, order_ledger, states, sold,
                 budgets>>

-----------------------------------------------------------------------------
(* The rest of the world                                                   *)

(* The process dies, or an exception nobody catches ends the cycle. *)
Crash ==
  /\ pc # "idle"
  /\ Fault
  /\ LeaveCycle
  /\ UNCHANGED <<market, broker, row, trim_intents, order_ledger, states, sold,
                 entries>>

Tick ==
  /\ price' \in Prices \ {price}
  /\ UNCHANGED <<day, candidate, broker, row, trim_intents, order_ledger, states,
                 pc, local, sold, budgets>>

(* MIN_EXIT_ARMING_SECONDS after the fill, or a 10-minute bar later. *)
TimePasses ==
  /\ fill_ts = "recent" /\ fill_ts' = "old"
  /\ UNCHANGED <<market, broker, row, trim_intents, order_ledger, symbol_state,
                 entered, pc, local, sold, budgets>>

(* The day's entry fills (EntryPipeline); its symbol is ENTERING.  The     *)
(* arbiter refuses a symbol that has a row.                                *)
EntryFills ==
  /\ position = 0 /\ ~entered /\ symbol_state = "FLAT" /\ entries < MaxEntries
  /\ row = NoRow /\ ps = NoRow
  /\ price \in EntryPrices
  /\ position' \in EntryQtys /\ avg_price' = price
  /\ entered' = TRUE /\ symbol_state' = "ENTERING"
  /\ entries' = entries + 1
  /\ UNCHANGED <<market, stop_qty, stop_level, selling, row, trim_intents,
                 order_ledger, fill_ts, pc, local, sold, faults>>

(* A later part of the same order fills; the part before may have been     *)
(* sold again, and then the row is that of shares that are gone.           *)
RestFills ==
  /\ entered /\ entries < MaxEntries /\ price \in EntryPrices
  /\ \E q \in EntryQtys : position' = position + q
  /\ IF position = 0 THEN avg_price' = price
     ELSE avg_price' \in Min({avg_price, price})..Max({avg_price, price})
  /\ entries' = entries + 1
  /\ UNCHANGED <<market, stop_qty, stop_level, selling, row, trim_intents,
                 order_ledger, states, pc, local, sold, faults>>

SellFills ==
  /\ selling > 0
  /\ \E q \in 1..selling :
       position' = position - q /\ selling' = selling - q
  /\ UNCHANGED <<market, avg_price, stop_qty, stop_level, row, trim_intents,
                 order_ledger, states, pc, local, sold, budgets>>

StopFires ==
  /\ stop_qty > 0 /\ price <= stop_level
  /\ position' = position - stop_qty /\ stop_qty' = 0 /\ stop_level' = 0
  /\ UNCHANGED <<market, avg_price, selling, row, trim_intents, order_ledger,
                 states, pc, local, sold, budgets>>

(* DAY orders expire, the scan writes a new candidate file, and the files  *)
(* and the keys of the new date are empty.                                 *)
NextDay ==
  /\ pc = "idle" /\ day < MaxDay
  /\ day' = day + 1 /\ candidate' \in BOOLEAN
  /\ stop_qty' = 0 /\ stop_level' = 0 /\ selling' = 0 /\ order_ledger' = {}
  /\ symbol_state' = "FLAT" /\ fill_ts' = "none" /\ entered' = FALSE
  /\ UNCHANGED <<price, position, avg_price, row, trim_intents, pc, local, sold,
                 budgets>>

-----------------------------------------------------------------------------
CycleStep ==
  \/ BeginCycle \/ ManageStops
  \/ ReadPosition \/ NothingToEvaluate
  \/ EvaluateR1 \/ EvaluateR2 \/ EvaluateStop \/ UpsertPosition \/ EvaluationRaises
  \/ Refresh \/ PopTrims \/ DropTrim \/ TakeTrim
  \/ SellAccepted \/ SellRaises \/ RecordSell \/ MarkExiting \/ FinishCycle

Next ==
  \/ CycleStep
  \/ Crash \/ Tick \/ TimePasses \/ EntryFills \/ RestFills \/ SellFills
  \/ StopFires \/ NextDay

Spec == Init /\ [][Next]_vars

(* main() calls run_once forever; the clock goes on; the broker fills      *)
(* market orders, and stops the price has reached.                         *)
Fairness == /\ WF_vars(CycleStep) /\ WF_vars(TimePasses)
            /\ WF_vars(SellFills) /\ WF_vars(StopFires)

LiveSpec == Spec /\ Fairness

-----------------------------------------------------------------------------
(* Properties                                                              *)

(* Every variable stays in its type; shares on offer are shares held. *)
TypeOK ==
  /\ day \in 1..MaxDay /\ price \in Prices /\ candidate \in BOOLEAN
  /\ position \in Nat /\ stop_qty + selling <= position
  /\ stop_level \in StopLevels \union {0}
  /\ row \in Row \union {NoRow} /\ ps \in Row \union {NoRow}
  /\ trim_intents \in Seq(Reasons) /\ batch \in Seq(Reasons)
  /\ symbol_state \in {"FLAT", "ENTERING", "OPEN", "EXITING"}
  /\ fill_ts \in {"none", "recent", "old"}
  /\ pc \in Steps /\ (sell_qty > 0) = (pc \in {"sell", "record", "mark"})

(* A level fires once in the life of the row, whatever happens to the row, *)
(* the queue and the position in between; each crash and each raising call *)
(* between the queueing and the flag lets one more through.                *)
LevelFiresOnce ==
  \A level \in {"r1_trim", "r2_trim"} :
    sold[level] <= 1 + faults

(* A trim that was sold shows in the row, in whichever cycle and session   *)
(* it was: its flag is up, after R1 the stop is at breakeven (no lower     *)
(* than the cheapest entry), after R2 it holds the trail.  Only a fault    *)
(* keeps a sale out of the row: the flag is stored after the queueing.     *)
SoldLevelsShow == faults = 0 =>
  /\ sold.r1_trim > 0 =>
       row # NoRow /\ row.r1 /\ \E p \in EntryPrices : row.stop >= p
  /\ sold.r2_trim > 0 =>
       row # NoRow /\ row.r2 /\ row.stop >= row.high - TrailDistance

(* What the row has gained it keeps, through failed evaluations, crashes,  *)
(* sessions, and the sale of the shares it was made for: no step lowers    *)
(* its stop or its high-water mark, takes a flag back or drops the row;    *)
(* from R2 on every step that stores it keeps the stop on the trail.       *)
RowRatchets == [][row' # row =>
  /\ row' # NoRow
  /\ row'.r2 => row'.stop >= row'.high - TrailDistance
  /\ row # NoRow => /\ row'.stop >= row.stop /\ row'.high >= row.high
                    /\ (row.r1 => row'.r1) /\ (row.r2 => row'.r2)]_vars

RowStop == IF row = NoRow THEN StopLoss ELSE row.stop

(* The broker keeps the shares for a protective stop the price is above. *)
HeldUp == stop_qty > 0 /\ stop_level < price

(* A position whose price stays at or below the stop of its row is sold in *)
(* the end, although nothing remembers that it should be, each attempt is  *)
(* taken off the queue before it is tried, and most ways to fail drop it;  *)
(* unless stop management places a protective stop below the price again   *)
(* and again, or leaves one there: then close_position is refused, and the *)
(* shares wait for the lower price of that stop.                           *)
StopExitHappens ==
  <>[](candidate /\ price <= RowStop) /\ <>[](pc # "idle" => live_active)
    => <>[](position = 0) \/ []<>HeldUp

=============================================================================
