---------------------------- MODULE PaperAccount ----------------------------
(***************************************************************************)
(* The Alpaca paper account, which several programs trade without knowing  *)
(* of each other: the runner of the S2 opening-range strategy (cancel what *)
(* is stale, read the positions, read the open orders, buy the candidates  *)
(* of the date, write the ledger) and the V1 rebalance of the RAEC         *)
(* strategy (compare the account with the targets of the regime, sell,     *)
(* buy, write the ledger, save the state).  Orders are good for the day;   *)
(* the broker fills, refuses or answers late.  The rebalance of V2, which  *)
(* the pipeline no longer runs but which can be run by hand on the same    *)
(* account, and a second process of V1 are not here.                       *)
(***************************************************************************)
EXTENDS Integers, FiniteSets, FiniteSetsExt

CONSTANTS
  Runners,        \* processes running the S2 strategy
  Symbols,        \* what S2 may propose
  MaxPositions,   \* max_positions of the S2 runner
  Core,           \* what the rebalance trades
  Regimes, Target(_, _), \* the level of a core symbol in a regime
  Threshold,      \* drift below it is left alone
  MaxDay,         \* bound: dates explored
  MaxStarts,      \* bound: runs of either program
  MaxFaults       \* bound: kills, refused orders and lost answers

ASSUME PaperAccountConstants ==
  /\ Symbols \cap Core = {} /\ IsFiniteSet(Symbols \cup Core)
  /\ MaxPositions \in Nat \ {0} /\ Threshold \in Nat
  /\ \A c \in Core : /\ \A r \in Regimes : Target(c, r) \in Nat
                     /\ \E r \in Regimes : \A q \in Regimes : Target(c, q) <= Target(c, r)

VARIABLES
  day, rows,      \* the candidates file of the date
  regime,         \* what the prices of the date say
  (* the account *)
  held,           \* quantity by symbol; S2 entries count one
  orders,         \* open orders
  placed,         \* number of orders so far
  (* files *)
  logged,         \* orders in the ledgers
  saved,          \* state file of the rebalance
  (* the S2 runners *)
  pc, positions, pending, todo, slots, events,
  (* the rebalance *)
  rebalance,
  (* history and budgets *)
  moved,          \* what changed under a runner after it began to read
  doubled,        \* symbols bought by a runner under which they changed
  overtaken,      \* core symbols traded on figures that lag the account
  lost,           \* orders whose ledger line a fault prevents
  starts, faults

date     == <<day, rows, regime>>
account  == <<held, orders, placed>>
runner   == <<pc, positions, pending, todo, slots, events>>
history  == <<moved, doubled, overtaken, lost>>
vars     == <<date, account, logged, saved, runner, rebalance, history, starts, faults>>

-----------------------------------------------------------------------------
All  == Symbols \cup Core
Rows == {"absent", "inverted", "fine"}

(* The file of the date.  The selection writes a row per symbol; one made  *)
(* by hand could name a symbol twice.                                      *)
Candidates == {s \in Symbols : rows[s] # "absent"}
Buys == {o \in orders : o.qty > 0}

Idle == [pc |-> "idle", todo |-> {}, delta |-> [c \in Core |-> 0], regime |-> "none",
         current |-> [c \in Core |-> 0], events |-> {}]
Nobody == [regime |-> "none", current |-> [c \in Core |-> 0], month |-> FALSE]

Fault == faults < MaxFaults /\ faults' = faults + 1
Order(sym, qty) == [n |-> placed + 1, sym |-> sym, qty |-> qty]

Init ==
  /\ day = 1 /\ rows \in [Symbols -> Rows] /\ regime \in Regimes
  /\ held = [s \in All |-> 0] /\ orders = {} /\ placed = 0
  /\ logged = {} /\ saved = Nobody
  /\ pc = [p \in Runners |-> "idle"] /\ positions = [p \in Runners |-> {}]
  /\ pending = [p \in Runners |-> {}] /\ todo = [p \in Runners |-> {}]
  /\ slots = [p \in Runners |-> 0] /\ events = [p \in Runners |-> {}]
  /\ rebalance = Idle
  /\ moved = [p \in Runners |-> {}] /\ doubled = {} /\ overtaken = {} /\ lost = {}
  /\ starts = 0 /\ faults = 0

-----------------------------------------------------------------------------
(* The S2 runner                                                           *)

(* A file without candidates ends the run before the account is touched.   *)
StartS2(p) ==
  /\ pc[p] = "idle" /\ starts < MaxStarts /\ Candidates # {}
  /\ pc' = [pc EXCEPT ![p] = "list"] /\ starts' = starts + 1
  /\ UNCHANGED <<date, account, logged, saved, positions, pending, todo, slots, events,
                 rebalance, history, faults>>

(* cancel_stale_orders: buys of symbols that are not candidates, whoever   *)
(* placed them.                                                            *)
ListStale(p) ==
  /\ pc[p] = "list"
  /\ todo' = [todo EXCEPT ![p] = {o.n : o \in {b \in Buys : b.sym \notin Candidates}}]
  /\ pc' = [pc EXCEPT ![p] = "cancel"]
  /\ UNCHANGED <<date, account, logged, saved, positions, pending, slots, events,
                 rebalance, history, starts, faults>>

(* An order that is gone by now cannot be cancelled, which is only logged. *)
CancelStale(p) ==
  /\ pc[p] = "cancel"
  /\ \E n \in todo[p] :
       /\ todo' = [todo EXCEPT ![p] = @ \ {n}]
       /\ \/ orders' = {o \in orders : o.n # n} /\ UNCHANGED faults
          \/ orders' = orders /\ Fault
  /\ UNCHANGED <<date, held, placed, logged, saved, pc, positions, pending, slots, events,
                 rebalance, history, starts>>

(* execute_candidates: positions first, then the open orders. *)
ReadPositions(p) ==
  /\ pc[p] = "cancel" /\ todo[p] = {}
  /\ positions' = [positions EXCEPT ![p] = {s \in All : held[s] # 0}]
  /\ moved' = [moved EXCEPT ![p] = {}]
  /\ pc' = [pc EXCEPT ![p] = "orders"]
  /\ UNCHANGED <<date, account, logged, saved, pending, todo, slots, events, rebalance,
                 doubled, overtaken, lost, starts, faults>>

ReadOrders(p) ==
  /\ pc[p] = "orders"
  /\ pending' = [pending EXCEPT ![p] = {o.sym : o \in orders}]
  /\ slots' = [slots EXCEPT ![p] = MaxPositions - Cardinality(positions[p])]
  /\ todo' = [todo EXCEPT ![p] = Candidates]
  /\ pc' = [pc EXCEPT ![p] = "submit"]
  /\ UNCHANGED <<date, account, logged, saved, positions, events, rebalance, history,
                 starts, faults>>

(* Mutant: open orders are not looked at. *)
Skipped_Blind(p, s) ==
  s \in positions[p] \/ rows[s] = "inverted" \/ slots[p] <= 0

Skipped(p, s) ==
  s \in positions[p] \/ s \in pending[p] \/ rows[s] = "inverted" \/ slots[p] <= 0

Skip(p) ==
  /\ pc[p] = "submit"
  /\ \E s \in todo[p] : Skipped(p, s) /\ todo' = [todo EXCEPT ![p] = @ \ {s}]
  /\ UNCHANGED <<date, account, logged, saved, pc, positions, pending, slots, events,
                 rebalance, history, starts, faults>>

(* An order reaches the account; other runners may have read past it.      *)
Placed(p, sym, qty) ==
  /\ orders' = orders \cup {Order(sym, qty)} /\ placed' = placed + 1
  /\ moved' = [q \in Runners |-> IF q # p /\ pc[q] = "submit"
                                 THEN moved[q] \cup {sym} ELSE moved[q]]

(* Mutant: a refusal ends the run. *)
Submit_Raises(p) ==
  /\ pc[p] = "submit"
  /\ \E s \in todo[p] :
       /\ ~Skipped(p, s)
       /\ \/ /\ Placed(p, s, 1)
             /\ todo' = [todo EXCEPT ![p] = @ \ {s}]
             /\ slots' = [slots EXCEPT ![p] = @ - 1]
             /\ events' = [events EXCEPT ![p] = @ \cup {placed'}]
             /\ UNCHANGED <<pc, faults>>
          \/ /\ Fault
             /\ pc' = [pc EXCEPT ![p] = "idle"] /\ todo' = [todo EXCEPT ![p] = {}]
             /\ events' = [events EXCEPT ![p] = {}]
             /\ UNCHANGED <<orders, placed, moved, slots>>
       /\ doubled' = IF s \in moved[p] THEN doubled \cup {s} ELSE doubled
  /\ UNCHANGED <<date, held, logged, saved, positions, pending, rebalance, overtaken,
                 lost, starts>>

(* submit_order: accepted; refused; or accepted with the answer lost,      *)
(* which the loop takes for refused.                                       *)
Submit(p) ==
  /\ pc[p] = "submit"
  /\ \E s \in todo[p] :
       /\ ~Skipped(p, s)
       /\ todo' = [todo EXCEPT ![p] = @ \ {s}]
       /\ \/ /\ Placed(p, s, 1)
             /\ slots' = [slots EXCEPT ![p] = @ - 1]
             /\ events' = [events EXCEPT ![p] = @ \cup {placed'}]
             /\ UNCHANGED <<lost, faults>>
          \/ /\ Fault /\ Placed(p, s, 1)
             /\ lost' = lost \cup {placed'}
             /\ UNCHANGED <<slots, events>>
          \/ Fault /\ UNCHANGED <<orders, placed, moved, slots, events, lost>>
       /\ doubled' = IF s \in moved[p] THEN doubled \cup {s} ELSE doubled
  /\ UNCHANGED <<date, held, logged, saved, pc, positions, pending, rebalance, overtaken,
                 starts>>

WriteEvents(p) ==
  /\ pc[p] = "submit" /\ todo[p] = {}
  /\ logged' = logged \cup events[p]
  /\ events' = [events EXCEPT ![p] = {}] /\ pc' = [pc EXCEPT ![p] = "idle"]
  /\ UNCHANGED <<date, account, saved, positions, pending, todo, slots, rebalance,
                 history, starts, faults>>

KillS2(p) ==
  /\ pc[p] # "idle" /\ Fault
  /\ lost' = lost \cup events[p]
  /\ pc' = [pc EXCEPT ![p] = "idle"] /\ todo' = [todo EXCEPT ![p] = {}]
  /\ events' = [events EXCEPT ![p] = {}]
  /\ UNCHANGED <<date, account, logged, saved, positions, pending, slots, rebalance,
                 moved, doubled, overtaken, starts>>

-----------------------------------------------------------------------------
(* The rebalance                                                           *)

Notional(q) == IF q < 0 THEN -q ELSE q

(* What the account holds, by the absolute value of a position and without *)
(* open orders; the state file when the account cannot be read.            *)
Known(read) == IF read THEN [c \in Core |-> Notional(held[c])] ELSE saved.current

Wanted(delta) ==
  \/ ~saved.month \/ saved.regime \notin {"none", regime}
  \/ \E c \in Core : Notional(delta[c]) > Threshold

Evaluate ==
  /\ rebalance.pc = "idle" /\ starts < MaxStarts /\ starts' = starts + 1
  /\ \E read \in BOOLEAN :
       LET known  == Known(read)
           notice == ~read /\ saved.regime = "none"
           delta  == [c \in Core |-> Target(c, regime) - known[c]]
           trade  == IF Wanted(delta) /\ ~notice THEN {c \in Core : delta[c] # 0} ELSE {}
       IN /\ IF read THEN UNCHANGED faults ELSE Fault
          /\ rebalance' = [pc |-> "trade", todo |-> trade, delta |-> delta,
                           regime |-> regime, events |-> {},
                           current |-> IF notice THEN saved.current ELSE known]
          /\ overtaken' = overtaken \cup
               {c \in trade : (\E o \in orders : o.sym = c) \/ held[c] < 0 \/ ~read}
  /\ UNCHANGED <<date, account, logged, saved, runner, moved, doubled, lost>>

(* Sells before buys; rounded down to shares and to the turnover allowed,  *)
(* down to nothing.                                                        *)
Sells == {c \in rebalance.todo : rebalance.delta[c] < 0}
Quantities(d) == IF d < 0 THEN d..0 ELSE 0..d

Trade ==
  /\ rebalance.pc = "trade"
  /\ \E c \in rebalance.todo : \E qty \in Quantities(rebalance.delta[c]) :
       /\ Sells = {} \/ c \in Sells
       /\ LET rest == [rebalance EXCEPT !.todo = @ \ {c}]
          IN \/ qty = 0 /\ rebalance' = rest
                        /\ UNCHANGED <<orders, placed, moved, lost, faults>>
             \/ /\ qty # 0 /\ Placed("rebalance", c, qty)
                /\ rebalance' = [rest EXCEPT !.events = @ \cup {placed'}]
                /\ UNCHANGED <<lost, faults>>
             \/ /\ qty # 0 /\ Fault /\ Placed("rebalance", c, qty)
                /\ rebalance' = rest /\ lost' = lost \cup {placed'}
             \/ /\ qty # 0 /\ Fault /\ rebalance' = rest
                /\ UNCHANGED <<orders, placed, moved, lost>>
  /\ UNCHANGED <<date, held, logged, saved, runner, doubled, overtaken, starts>>

WriteRebalance ==
  /\ rebalance.pc = "trade" /\ rebalance.todo = {}
  /\ logged' = logged \cup rebalance.events
  /\ rebalance' = [rebalance EXCEPT !.pc = "save", !.events = {}]
  /\ UNCHANGED <<date, account, saved, runner, history, starts, faults>>

SaveRebalance ==
  /\ rebalance.pc = "save"
  /\ saved' = [regime |-> rebalance.regime, current |-> rebalance.current, month |-> TRUE]
  /\ rebalance' = Idle
  /\ UNCHANGED <<date, account, logged, runner, history, starts, faults>>

(* A dry run that may write its state, and a run whose orders are switched *)
(* off: the state is saved, nothing is traded.                             *)
SaveOnly ==
  /\ rebalance.pc = "idle" /\ starts < MaxStarts /\ starts' = starts + 1
  /\ \E read \in BOOLEAN :
       saved' = [regime |-> regime, current |-> Known(read), month |-> TRUE]
  /\ UNCHANGED <<date, account, logged, runner, rebalance, history, faults>>

KillRebalance ==
  /\ rebalance.pc # "idle" /\ Fault
  /\ lost' = lost \cup rebalance.events
  /\ rebalance' = Idle
  /\ UNCHANGED <<date, account, logged, saved, runner, moved, doubled, overtaken, starts>>

-----------------------------------------------------------------------------
(* The broker and the calendar                                             *)

Fill ==
  /\ \E o \in orders :
       /\ held' = [held EXCEPT ![o.sym] = @ + o.qty]
       /\ orders' = orders \ {o}
       /\ moved' = [p \in Runners |-> IF pc[p] = "orders" THEN moved[p] \cup {o.sym}
                                      ELSE moved[p]]
  /\ UNCHANGED <<date, placed, logged, saved, runner, rebalance, doubled, overtaken,
                 lost, starts, faults>>

(* The exits of a bracket, or a sale by hand. *)
Close(s) ==
  /\ held[s] > 0 /\ held' = [held EXCEPT ![s] = 0]
  /\ UNCHANGED <<date, orders, placed, logged, saved, runner, rebalance, history, starts,
                 faults>>

(* Orders of the day expire. *)
NextDay ==
  /\ day < MaxDay /\ rebalance.pc = "idle" /\ \A p \in Runners : pc[p] = "idle"
  /\ day' = day + 1 /\ rows' \in [Symbols -> Rows] /\ regime' \in Regimes
  /\ orders' = {}
  /\ \E new \in BOOLEAN :
       saved' = IF new THEN [saved EXCEPT !.month = FALSE] ELSE saved
  /\ UNCHANGED <<held, placed, logged, runner, rebalance, history, starts,
                 faults>>

Next ==
  \/ \E p \in Runners : \/ StartS2(p) \/ ListStale(p) \/ CancelStale(p)
                        \/ ReadPositions(p) \/ ReadOrders(p) \/ Skip(p) \/ Submit(p)
                        \/ WriteEvents(p) \/ KillS2(p)
  \/ Evaluate \/ Trade \/ WriteRebalance \/ SaveRebalance \/ SaveOnly
  \/ KillRebalance
  \/ Fill \/ (\E s \in Symbols : Close(s)) \/ NextDay

Spec == Init /\ [][Next]_vars

-----------------------------------------------------------------------------
OpenBuys(s) == {o \in Buys : o.sym = s}
Pending(s)  == MapThenSumSet(LAMBDA o : o.qty, OpenBuys(s))

(* S2 has one entry of a symbol, held or open, unless the symbol changed   *)
(* between the reads of a run, or another run bought it meanwhile.          *)
DoublesNeedARace ==
  \A s \in Symbols \ doubled : held[s] + Pending(s) <= 1

(* An order of a program at rest has its line in a ledger, whichever other *)
(* orders of the run were refused; a kill or a lost answer costs the line.  *)
InHand == (UNION {events[p] : p \in Runners}) \cup rebalance.events
OrdersLogged == 1..placed \subseteq logged \cup lost \cup InHand

(* The rebalance does not buy past the highest target or sell what it has  *)
(* not, unless it was run with its own orders open, on the allocations of  *)
(* its last run, or on a short position, which it takes for a long one.    *)
Highest(c) == CHOOSE t \in {Target(c, r) : r \in Regimes} :
                \A r \in Regimes : Target(c, r) <= t
RebalanceBounded == \A c \in Core \ overtaken :
  held[c] >= 0 /\ held[c] + Pending(c) <= Highest(c)

(* No program of the account buys the same thing twice. *)
PositionsBounded == DoublesNeedARace /\ RebalanceBounded

=============================================================================
