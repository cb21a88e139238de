------------------------- MODULE PaperAccountProofs -------------------------
(***************************************************************************)
(* Proofs about the Alpaca paper account: every order of a program at rest *)
(* has its line in a ledger, and neither program holds more than it wants, *)
(* except after the races the specification records.                       *)
(*                                                                         *)
(* The bounds are about sums over open orders.  No sum over an unbounded   *)
(* set is needed: the invariant shows that a symbol no race touched has at *)
(* most one open order, and a sum over at most one order is that order's.  *)
(***************************************************************************)
EXTENDS PaperAccount, FiniteSetTheorems, TLAPS

-----------------------------------------------------------------------------
(* The invariants                                                          *)

(* The variables stay in their domains; candidates are S2's symbols.       *)
Typed ==
  /\ rows \in [Symbols -> Rows] /\ regime \in Regimes
  /\ held \in [All -> Int] /\ orders \subseteq [n : Nat, sym : All, qty : Int]
  /\ placed \in Nat /\ logged \subseteq Nat /\ lost \subseteq Nat
  /\ saved \in [regime : Regimes \cup {"none"}, current : [Core -> Int], month : BOOLEAN]
  /\ pc \in [Runners -> {"idle", "list", "cancel", "orders", "submit"}]
  /\ positions \in [Runners -> SUBSET All] /\ pending \in [Runners -> SUBSET All]
  /\ todo \in [Runners -> SUBSET (Nat \cup Symbols)]
  /\ \A p \in Runners : pc[p] = "submit" => todo[p] \subseteq Symbols
  /\ slots \in [Runners -> Int] /\ events \in [Runners -> SUBSET Nat]
  /\ rebalance \in [pc : {"idle", "trade", "save"}, todo : SUBSET Core,
                    delta : [Core -> Int], regime : Regimes \cup {"none"},
                    current : [Core -> Int], events : SUBSET Nat]
  /\ moved \in [Runners -> SUBSET All]
  /\ doubled \subseteq Symbols /\ overtaken \subseteq Core

(* The rebalance has order numbers in hand only while it trades.           *)
Accounted == OrdersLogged /\ (rebalance.pc # "trade" => rebalance.events = {})

OneOrder(s) == \A o, w \in orders : o.sym = s /\ w.sym = s => o = w
NoOrder(s)  == \A o \in orders : o.sym # s

(* Of a symbol no race touched, the account holds one, or has one open     *)
(* order, or neither.                                                      *)
HeldOnce(s) ==
  held[s] \in {0, 1} /\ OneOrder(s) /\ (NoOrder(s) \/ held[s] = 0)

(* What a runner has read is still true of each symbol that has not moved: *)
(* what it would buy is neither held nor ordered.                          *)
ReadsHold ==
  \A p \in Runners, s \in Symbols :
    s \notin positions[p] \cup moved[p] =>
      /\ pc[p] = "orders" => held[s] = 0
      /\ pc[p] = "submit" /\ s \in todo[p] \ pending[p] => held[s] = 0 /\ NoOrder(s)

Entered ==
  /\ \A o \in orders : o.sym \in Symbols => o.qty = 1
  /\ \A s \in Symbols \ doubled : HeldOnce(s)
  /\ ReadsHold

(* A core symbol not overtaken, its one open order filled or not, and the  *)
(* order still to come, stay between nothing and the highest target.       *)
Within(c, n) == held[c] + n \in 0..Highest(c)

Balanced ==
  \A c \in Core \ overtaken :
    /\ Within(c, 0) /\ OneOrder(c) /\ \A o \in orders : o.sym = c => Within(c, o.qty)
    /\ c \in rebalance.todo => NoOrder(c) /\ Within(c, rebalance.delta[c])

-----------------------------------------------------------------------------
(* Sums of at most one order                                               *)

(* The sum over no orders is zero.                                         *)
LEMMA SumOfNone == MapThenSumSet(LAMBDA o : o.qty, {}) = 0
<1> DEFINE f == [s \in SUBSET {} |-> 0]
           R(g) == [s \in SUBSET {} |->
                      IF s = {} THEN 0
                      ELSE LET x == CHOOSE e \in s : TRUE IN x.qty + g[s \ {x}]]
<1>1. f = R(f)
  OBVIOUS
<1>2. PICK g : g = CHOOSE h : h = R(h)
  OBVIOUS
<1>3. g = R(g)
  BY <1>1, <1>2
<1>4. g[{}] = 0
  BY <1>3
<1> QED BY <1>2, <1>4 DEF MapThenSumSet, MapThenFoldSet

(* The sum over one order is its quantity.                                 *)
LEMMA SumOfOne ==
  ASSUME NEW x, x.qty \in Int
  PROVE  MapThenSumSet(LAMBDA o : o.qty, {x}) = x.qty
<1> DEFINE f == [s \in SUBSET {x} |-> IF s = {} THEN 0 ELSE x.qty]
           R(g) == [s \in SUBSET {x} |->
                      IF s = {} THEN 0
                      ELSE LET y == CHOOSE e \in s : TRUE IN y.qty + g[s \ {y}]]
<1>1. SUBSET {x} = {{}, {x}} /\ (CHOOSE e \in {x} : TRUE) = x
  OBVIOUS
<1>2. f = R(f)
  <2>1. f[{x}] = R(f)[{x}]
    BY <1>1
  <2> QED BY <1>1, <2>1
<1>3. PICK g : g = CHOOSE h : h = R(h)
  OBVIOUS
<1>4. g = R(g)
  BY <1>2, <1>3
<1>5. g[{x}] = x.qty
  <2>1. g[{}] = 0 /\ g[{x}] = x.qty + g[{x} \ {x}]
    BY <1>1, <1>4
  <2> QED BY <2>1
<1> QED BY <1>3, <1>5 DEF MapThenSumSet, MapThenFoldSet

(* With at most one open order of a symbol, what is pending is nothing, or  *)
(* the quantity of that order, which buys.                                  *)
LEMMA PendingIsOne ==
  ASSUME Typed, NEW s \in All, OneOrder(s)
  PROVE  \/ Pending(s) = 0
         \/ \E o \in orders : o.sym = s /\ o.qty > 0 /\ Pending(s) = o.qty
<1>1. CASE OpenBuys(s) = {}
  BY <1>1, SumOfNone DEF Pending
<1>2. ASSUME NEW o \in OpenBuys(s) PROVE o \in orders /\ o.sym = s /\ o.qty > 0 /\ Pending(s) = o.qty
  <2>1. o \in orders /\ o.sym = s /\ o.qty > 0 /\ o.qty \in Int
    BY <1>2 DEF OpenBuys, Buys, Typed
  <2>2. OpenBuys(s) = {o}
    BY <2>1 DEF OpenBuys, Buys, OneOrder
  <2>3. Pending(s) = o.qty
    BY <2>1, <2>2, SumOfOne DEF Pending
  <2> QED BY <2>1, <2>3
<1> QED BY <1>1, <1>2

(* The highest target of a core symbol is one of its targets.              *)
LEMMA HighestIsReached ==
  ASSUME NEW c \in Core
  PROVE  Highest(c) \in Nat /\ \A r \in Regimes : Target(c, r) \in 0..Highest(c)
<1>1. \E t \in {Target(c, r) : r \in Regimes} : \A r \in Regimes : Target(c, r) <= t
  BY PaperAccountConstants
<1>2. Highest(c) \in {Target(c, r) : r \in Regimes}
      /\ \A r \in Regimes : Target(c, r) <= Highest(c)
  BY <1>1 DEF Highest
<1> QED BY <1>2, PaperAccountConstants

-----------------------------------------------------------------------------
(* Types                                                                   *)

(* The first state is well typed.                                          *)
LEMMA TypedInit == Init => Typed
BY DEF Init, Typed, All, Rows, Idle, Nobody

(* Every step of a runner keeps the types.                                 *)
LEMMA TypedRunner ==
  ASSUME Typed, NEW p \in Runners,
         \/ StartS2(p) \/ ListStale(p) \/ CancelStale(p) \/ ReadPositions(p)
         \/ ReadOrders(p) \/ Skip(p) \/ Submit(p) \/ WriteEvents(p) \/ KillS2(p)
  PROVE  Typed'
<1> USE DEF Typed, date, account, runner, history, All
<1>1. CASE StartS2(p)
  BY <1>1 DEF StartS2
<1>2. CASE ListStale(p)
  BY <1>2 DEF ListStale, Buys
<1>3. CASE CancelStale(p)
  BY <1>3 DEF CancelStale, Fault
<1>4. CASE ReadPositions(p)
  BY <1>4 DEF ReadPositions
<1>5. CASE ReadOrders(p)
  <2>1. Cardinality(positions[p]) \in Nat
    BY PaperAccountConstants, FS_Subset, FS_CardinalityType
  <2>2. MaxPositions - Cardinality(positions[p]) \in Int
    BY <2>1, PaperAccountConstants
  <2> QED BY <1>5, <2>2 DEF ReadOrders, Candidates
<1>6. CASE Skip(p)
  BY <1>6 DEF Skip
<1>7. CASE Submit(p)
  <2>1. PICK s \in todo[p] :
          /\ todo' = [todo EXCEPT ![p] = @ \ {s}]
          /\ \/ Placed(p, s, 1) \/ UNCHANGED <<orders, placed, moved>>
          /\ \/ slots' = [slots EXCEPT ![p] = @ - 1] \/ UNCHANGED slots
          /\ \/ events' = [events EXCEPT ![p] = @ \cup {placed'}] \/ UNCHANGED events
          /\ \/ lost' = lost \cup {placed'} \/ UNCHANGED lost
          /\ doubled' = IF s \in moved[p] THEN doubled \cup {s} ELSE doubled
    BY <1>7 DEF Submit
  <2>2. s \in Symbols
    BY <1>7 DEF Submit
  <2>3. placed' \in Nat /\ orders' \subseteq [n : Nat, sym : All, qty : Int]
        /\ moved' \in [Runners -> SUBSET All]
    BY <2>1, <2>2 DEF Placed, Order
  <2>4. todo' \in [Runners -> SUBSET (Nat \cup Symbols)]
        /\ \A q \in Runners : pc[q] = "submit" => todo'[q] \subseteq Symbols
    BY <2>1
  <2>5. slots' \in [Runners -> Int]
    BY <2>1
  <2>6. events' \in [Runners -> SUBSET Nat]
    BY <2>1, <2>3
  <2>7. lost' \subseteq Nat /\ doubled' \subseteq Symbols
    BY <2>1, <2>2, <2>3
  <2> QED BY <1>7, <2>3, <2>4, <2>5, <2>6, <2>7 DEF Submit
<1>8. CASE WriteEvents(p)
  BY <1>8 DEF WriteEvents
<1>9. CASE KillS2(p)
  BY <1>9 DEF KillS2, Fault
<1> QED BY <1>1, <1>2, <1>3, <1>4, <1>5, <1>6, <1>7, <1>8, <1>9

(* Every other step keeps the types.                                       *)
LEMMA TypedNext == Typed /\ [Next]_vars => Typed'
<1> SUFFICES ASSUME Typed, [Next]_vars PROVE Typed'
  OBVIOUS
<1> USE DEF Typed, date, account, runner, history, All
<1>1. CASE Evaluate
  <2>1. PICK read \in BOOLEAN :
          LET known  == Known(read)
              notice == ~read /\ saved.regime = "none"
              delta  == [c \in Core |-> Target(c, regime) - known[c]]
              trade  == IF Wanted(delta) /\ ~notice THEN {c \in Core : delta[c] # 0} ELSE {}
          IN /\ rebalance' = [pc |-> "trade", todo |-> trade, delta |-> delta,
                              regime |-> regime, events |-> {},
                              current |-> IF notice THEN saved.current ELSE known]
             /\ overtaken' = overtaken \cup
                  {c \in trade : (\E o \in orders : o.sym = c) \/ held[c] < 0 \/ ~read}
    BY <1>1 DEF Evaluate
  <2>2. Known(read) \in [Core -> Int]
    BY DEF Known, Notional
  <2>3. [c \in Core |-> Target(c, regime) - Known(read)[c]] \in [Core -> Int]
    BY <2>2, PaperAccountConstants
  <2>4. rebalance' \in [pc : {"idle", "trade", "save"}, todo : SUBSET Core,
                        delta : [Core -> Int], regime : Regimes \cup {"none"},
                        current : [Core -> Int], events : SUBSET Nat]
    BY <2>1, <2>2, <2>3
  <2>5. overtaken' \subseteq Core
    BY <2>1
  <2> QED BY <1>1, <2>4, <2>5 DEF Evaluate
<1>2. CASE Trade
  <2>1. PICK c \in rebalance.todo : \E qty \in Quantities(rebalance.delta[c]) :
          LET rest == [rebalance EXCEPT !.todo = @ \ {c}]
          IN /\ Placed("rebalance", c, qty) \/ UNCHANGED <<orders, placed, moved>>
             /\ rebalance' = rest \/ rebalance' = [rest EXCEPT !.events = @ \cup {placed'}]
             /\ lost' = lost \cup {placed'} \/ UNCHANGED lost
    BY <1>2 DEF Trade
  <2>2. c \in Core /\ Quantities(rebalance.delta[c]) \subseteq Int
    BY DEF Quantities
  <2>3. placed' \in Nat /\ orders' \subseteq [n : Nat, sym : All, qty : Int]
        /\ moved' \in [Runners -> SUBSET All]
    BY <2>1, <2>2 DEF Placed, Order
  <2>4. lost' \subseteq Nat
    BY <2>1, <2>3
  <2>5. rebalance' \in [pc : {"idle", "trade", "save"}, todo : SUBSET Core,
                        delta : [Core -> Int], regime : Regimes \cup {"none"},
                        current : [Core -> Int], events : SUBSET Nat]
    <3>1. rebalance.events \cup {placed'} \subseteq Nat
      BY <2>3
    <3>2. CASE rebalance' = [rebalance EXCEPT !.todo = @ \ {c}]
      BY <3>2
    <3>3. CASE rebalance' = [[rebalance EXCEPT !.todo = @ \ {c}]
                               EXCEPT !.events = @ \cup {placed'}]
      BY <3>1, <3>3
    <3> QED BY <2>1, <3>2, <3>3
  <2> QED BY <1>2, <2>3, <2>4, <2>5 DEF Trade
<1>3. CASE WriteRebalance
  BY <1>3 DEF WriteRebalance
<1>4. CASE SaveRebalance
  BY <1>4 DEF SaveRebalance, Idle
<1>5. CASE KillRebalance
  <2>1. Idle \in [pc : {"idle", "trade", "save"}, todo : SUBSET Core,
                  delta : [Core -> Int], regime : Regimes \cup {"none"},
                  current : [Core -> Int], events : SUBSET Nat]
    BY DEF Idle
  <2> QED BY <1>5, <2>1 DEF KillRebalance
<1>6. CASE Fill
  BY <1>6 DEF Fill
<1>7. ASSUME NEW s \in Symbols, Close(s) PROVE Typed'
  BY <1>7 DEF Close
<1>8. CASE NextDay
  BY <1>8 DEF NextDay
<1>9. CASE SaveOnly
  <2>1. PICK read \in BOOLEAN :
          saved' = [regime |-> regime, current |-> Known(read), month |-> TRUE]
    BY <1>9 DEF SaveOnly
  <2>2. Known(read) \in [Core -> Int]
    BY DEF Known, Notional, All
  <2> QED BY <1>9, <2>1, <2>2 DEF SaveOnly
<1>10. CASE UNCHANGED vars
  BY <1>10 DEF vars
<1> QED BY <1>1, <1>2, <1>3, <1>4, <1>5, <1>6, <1>7, <1>8, <1>9, <1>10, TypedRunner DEF Next

-----------------------------------------------------------------------------
(* Ledger lines                                                            *)

(* A sale or purchase of the rebalance: no order, or an order whose number *)
(* it keeps or loses.                                                      *)
LEMMA TradeShape ==
  ASSUME Typed, Trade
  PROVE  \E c \in rebalance.todo : \E qty \in Quantities(rebalance.delta[c]) :
           /\ c \in Core /\ qty \in Int /\ (Sells = {} \/ c \in Sells)
           /\ rebalance'.todo = rebalance.todo \ {c} /\ rebalance'.delta = rebalance.delta
           /\ rebalance'.pc = "trade" /\ rebalance.events \subseteq rebalance'.events
           /\ lost \subseteq lost' /\ UNCHANGED <<held, logged, events, overtaken>>
           /\ \/ UNCHANGED <<orders, placed, moved>>
              \/ /\ qty # 0 /\ Placed("rebalance", c, qty)
                 /\ placed' \in lost' \cup rebalance'.events
<1>1. PICK c \in rebalance.todo : \E qty \in Quantities(rebalance.delta[c]) :
        /\ Sells = {} \/ c \in Sells
        /\ LET rest == [rebalance EXCEPT !.todo = @ \ {c}]
           IN \/ rebalance' = rest /\ UNCHANGED <<orders, placed, moved, lost>>
              \/ /\ qty # 0 /\ Placed("rebalance", c, qty)
                 /\ \/ /\ rebalance' = [rest EXCEPT !.events = @ \cup {placed'}]
                       /\ UNCHANGED lost
                    \/ rebalance' = rest /\ lost' = lost \cup {placed'}
  BY DEF Trade
<1>2. PICK qty \in Quantities(rebalance.delta[c]) :
        /\ Sells = {} \/ c \in Sells
        /\ LET rest == [rebalance EXCEPT !.todo = @ \ {c}]
           IN \/ rebalance' = rest /\ UNCHANGED <<orders, placed, moved, lost>>
              \/ /\ qty # 0 /\ Placed("rebalance", c, qty)
                 /\ \/ /\ rebalance' = [rest EXCEPT !.events = @ \cup {placed'}]
                       /\ UNCHANGED lost
                    \/ rebalance' = rest /\ lost' = lost \cup {placed'}
  BY <1>1
<1>3. c \in Core /\ qty \in Int
  BY DEF Typed, Quantities
<1>4. UNCHANGED <<held, logged, events, overtaken>> /\ rebalance.pc = "trade"
  BY DEF Trade, runner
<1> DEFINE rest == [rebalance EXCEPT !.todo = @ \ {c}]
<1>5. rest.todo = rebalance.todo \ {c} /\ rest.delta = rebalance.delta
      /\ rest.pc = rebalance.pc /\ rest.events = rebalance.events
  BY DEF Typed
<1>6. ASSUME NEW n
      PROVE  LET r == [rest EXCEPT !.events = @ \cup {n}]
             IN r.todo = rest.todo /\ r.delta = rest.delta /\ r.pc = rest.pc
                /\ r.events = rest.events \cup {n}
  BY DEF Typed
<1>7. \/ rebalance' = rest /\ UNCHANGED <<orders, placed, moved, lost>>
      \/ /\ qty # 0 /\ Placed("rebalance", c, qty)
         /\ \/ rebalance' = [rest EXCEPT !.events = @ \cup {placed'}] /\ UNCHANGED lost
            \/ rebalance' = rest /\ lost' = lost \cup {placed'}
  BY <1>2
<1> HIDE DEF rest
<1>8. CASE rebalance' = rest
  <2>1. rebalance'.todo = rebalance.todo \ {c} /\ rebalance'.delta = rebalance.delta
        /\ rebalance'.pc = "trade" /\ rebalance'.events = rebalance.events
    BY <1>4, <1>5, <1>8
  <2>2. \/ UNCHANGED <<orders, placed, moved, lost>>
        \/ /\ qty # 0 /\ Placed("rebalance", c, qty)
           /\ lost \subseteq lost' /\ placed' \in lost' \cup rebalance'.events
    <3>1. CASE rebalance' = [rest EXCEPT !.events = @ \cup {placed'}]
      BY <1>5, <1>6, <1>7, <2>1, <3>1
    <3> QED BY <1>7, <3>1
  <2> QED BY <1>2, <1>3, <1>4, <2>1, <2>2
<1>9. CASE rebalance' = [rest EXCEPT !.events = @ \cup {placed'}]
  BY <1>2, <1>3, <1>4, <1>5, <1>6, <1>7, <1>9
<1> QED BY <1>7, <1>8, <1>9

(* An order's number stays in hand until it is written or lost.            *)
LEMMA AccountedNext == Typed /\ Accounted /\ [Next]_vars => Accounted'
<1> SUFFICES ASSUME Typed, Accounted, [Next]_vars PROVE Accounted'
  OBVIOUS
<1> DEFINE Same == UNCHANGED <<logged, lost, events, rebalance, placed>>
<1>1. CASE Same
  BY <1>1 DEF Accounted, OrdersLogged, InHand
<1>2. ASSUME NEW p \in Runners, Submit(p) PROVE Accounted'
  <2>1. rebalance' = rebalance /\ logged' = logged /\ lost \subseteq lost'
        /\ \A q \in Runners : events[q] \subseteq events'[q]
    BY <1>2 DEF Submit, Typed
  <2>2. InHand \subseteq InHand'
    BY <2>1 DEF InHand
  <2>3. CASE placed' = placed
    BY <2>1, <2>2, <2>3 DEF Accounted, OrdersLogged
  <2>4. CASE placed' = placed + 1
    <3>1. placed' \in lost' \/ placed' \in events'[p]
      BY <1>2, <2>4 DEF Submit, Typed
    <3>2. placed' \in lost' \cup InHand'
      BY <3>1 DEF InHand
    <3>3. 1..placed' = (1..placed) \cup {placed'}
      BY <2>4 DEF Typed
    <3> QED BY <2>1, <2>2, <3>2, <3>3 DEF Accounted, OrdersLogged
  <2>5. placed' = placed \/ placed' = placed + 1
    BY <1>2 DEF Submit, Placed
  <2> QED BY <2>3, <2>4, <2>5
<1>3. ASSUME NEW p \in Runners, WriteEvents(p) \/ KillS2(p) PROVE Accounted'
  <2>1. /\ placed' = placed /\ rebalance' = rebalance
        /\ events' = [events EXCEPT ![p] = {}]
        /\ events[p] \subseteq logged' \cup lost' /\ logged \subseteq logged' /\ lost \subseteq lost'
    BY <1>3 DEF WriteEvents, KillS2, account, history
  <2>2. InHand \subseteq InHand' \cup events[p]
    BY <2>1 DEF InHand, Typed
  <2> QED BY <2>1, <2>2 DEF Accounted, OrdersLogged
<1>4. CASE Evaluate
  BY <1>4 DEF Evaluate, Accounted, OrdersLogged, InHand, account, runner
<1>5. CASE Trade
  <2>1. PICK c \in rebalance.todo : \E qty \in Quantities(rebalance.delta[c]) :
          /\ rebalance'.pc = "trade" /\ rebalance.events \subseteq rebalance'.events
          /\ lost \subseteq lost' /\ logged' = logged /\ events' = events
          /\ \/ placed' = placed
             \/ placed' = placed + 1 /\ placed' \in lost' \cup rebalance'.events
    BY <1>5, TradeShape DEF Placed
  <2>2. InHand \subseteq InHand' /\ rebalance'.events \subseteq InHand'
    BY <2>1 DEF InHand
  <2>3. CASE placed' = placed
    BY <2>1, <2>2, <2>3 DEF Accounted, OrdersLogged
  <2>4. CASE placed' = placed + 1
    <3>1. 1..placed' = (1..placed) \cup {placed'}
      BY <2>4 DEF Typed
    <3>2. placed' \in lost' \cup rebalance'.events
      BY <2>1, <2>4 DEF Typed
    <3> QED BY <2>1, <2>2, <3>1, <3>2 DEF Accounted, OrdersLogged
  <2> QED BY <2>1, <2>3, <2>4
<1>6. CASE WriteRebalance
  <2>1. /\ rebalance'.events = {} /\ events' = events /\ placed' = placed /\ lost' = lost
        /\ logged' = logged \cup rebalance.events
    BY <1>6 DEF WriteRebalance, Typed, account, runner, history
  <2>2. InHand \subseteq InHand' \cup logged'
    BY <2>1 DEF InHand
  <2> QED BY <2>1, <2>2 DEF Accounted, OrdersLogged
<1>7. CASE SaveRebalance
  BY <1>7 DEF SaveRebalance, Accounted, OrdersLogged, InHand, Idle, account, runner, history
<1>8. CASE KillRebalance
  <2>1. /\ rebalance'.events = {} /\ events' = events /\ placed' = placed /\ logged' = logged
        /\ lost' = lost \cup rebalance.events
    BY <1>8 DEF KillRebalance, Idle, account, runner
  <2>2. InHand \subseteq InHand' \cup lost'
    BY <2>1 DEF InHand
  <2> QED BY <2>1, <2>2 DEF Accounted, OrdersLogged
<1>9. ASSUME NEW p \in Runners,
             \/ StartS2(p) \/ ListStale(p) \/ CancelStale(p)
             \/ ReadPositions(p) \/ ReadOrders(p) \/ Skip(p)
      PROVE Same
  BY <1>9 DEF StartS2, ListStale, CancelStale, ReadPositions, ReadOrders, Skip,
              account, history, runner
<1>10. CASE Fill \/ (\E s \in Symbols : Close(s)) \/ NextDay \/ SaveOnly \/ UNCHANGED vars
  <2>1. Same
    BY <1>10 DEF Fill, Close, NextDay, SaveOnly, vars, account, history, runner
  <2> QED BY <1>1, <2>1
<1> QED BY <1>1, <1>2, <1>3, <1>4, <1>5, <1>6, <1>7, <1>8, <1>9, <1>10 DEF Next

-----------------------------------------------------------------------------
(* What S2 holds                                                           *)

(* Steps of a runner that place no order.                                  *)
LEMMA EnteredReading ==
  ASSUME Typed, Entered, NEW p \in Runners,
         \/ StartS2(p) \/ ListStale(p) \/ CancelStale(p) \/ ReadPositions(p)
         \/ ReadOrders(p) \/ Skip(p) \/ WriteEvents(p) \/ KillS2(p)
  PROVE  Entered'
<1>1. held' = held /\ doubled' = doubled /\ orders' \subseteq orders
  BY DEF StartS2, ListStale, CancelStale, ReadPositions, ReadOrders, Skip, WriteEvents,
         KillS2, account, history
<1>2. \A s : (OneOrder(s) => OneOrder(s)') /\ (NoOrder(s) => NoOrder(s)')
  BY <1>1 DEF OneOrder, NoOrder
<1>3. \A o \in orders' : o.sym \in Symbols => o.qty = 1
  BY <1>1 DEF Entered
<1>4. \A s \in Symbols \ doubled' : HeldOnce(s)'
  BY <1>1, <1>2 DEF Entered, HeldOnce
<1>5. ASSUME NEW q \in Runners, NEW s \in Symbols, s \notin positions'[q] \cup moved'[q]
      PROVE  /\ pc'[q] = "orders" => held'[s] = 0
             /\ pc'[q] = "submit" /\ s \in todo'[q] \ pending'[q] => held'[s] = 0 /\ NoOrder(s)'
  <2>1. CASE ReadPositions(p) /\ q = p
    BY <1>1, <1>5, <2>1 DEF ReadPositions, Typed, All
  <2>2. CASE ReadOrders(p) /\ q = p
    BY <1>1, <1>5, <2>2 DEF ReadOrders, Typed, Entered, ReadsHold, NoOrder, account, history
  <2>3. CASE Skip(p) /\ q = p
    BY <1>1, <1>2, <1>5, <2>3 DEF Skip, Typed, Entered, ReadsHold, history
  <2>4. CASE \/ StartS2(p) \/ ListStale(p) \/ CancelStale(p)
             \/ WriteEvents(p) \/ KillS2(p)
    <3>1. CASE q = p
      <4>1. pc'[q] \notin {"orders", "submit"}
        BY <2>4, <3>1 DEF StartS2, ListStale, CancelStale, WriteEvents, KillS2, Typed
      <4> QED BY <4>1
    <3>2. CASE q # p
      <4>1. pc'[q] = pc[q] /\ todo'[q] = todo[q] /\ pending'[q] = pending[q]
            /\ positions'[q] = positions[q] /\ moved'[q] = moved[q]
        BY <2>4, <3>2 DEF StartS2, ListStale, CancelStale, WriteEvents, KillS2, Typed, history
      <4> QED BY <1>1, <1>2, <1>5, <4>1 DEF Entered, ReadsHold
    <3> QED BY <3>1, <3>2
  <2>5. CASE (ReadPositions(p) \/ ReadOrders(p) \/ Skip(p)) /\ q # p
    <3>1. pc'[q] = pc[q] /\ todo'[q] = todo[q] /\ pending'[q] = pending[q]
          /\ positions'[q] = positions[q] /\ moved'[q] = moved[q]
      BY <2>5 DEF ReadPositions, ReadOrders, Skip, Typed, history
    <3> QED BY <1>1, <1>2, <1>5, <3>1 DEF Entered, ReadsHold
  <2> QED BY <2>1, <2>2, <2>3, <2>4, <2>5
<1>6. ReadsHold'
  BY <1>5 DEF ReadsHold
<1> QED BY <1>3, <1>4, <1>6 DEF Entered

(* A runner buys what it has read as neither held nor ordered; if the      *)
(* symbol moved meanwhile, that is a race.                                 *)
LEMMA EnteredSubmit ==
  ASSUME Typed, Entered, NEW p \in Runners, Submit(p)
  PROVE  Entered'
<1>1. PICK s \in todo[p] :
        /\ ~Skipped(p, s) /\ todo' = [todo EXCEPT ![p] = @ \ {s}]
        /\ Placed(p, s, 1) \/ UNCHANGED <<orders, placed, moved>>
        /\ doubled' = IF s \in moved[p] THEN doubled \cup {s} ELSE doubled
  BY DEF Submit
<1>2. pc[p] = "submit" /\ UNCHANGED <<held, pc, positions, pending>> /\ s \in Symbols
  BY <1>1 DEF Submit, Typed
<1>3. s \notin moved[p] => held[s] = 0 /\ NoOrder(s)
  BY <1>1, <1>2 DEF Skipped, Entered, ReadsHold
<1>4. \A q \in Runners : q # p => todo'[q] = todo[q]
  BY <1>1 DEF Typed
<1>5. todo'[p] = todo[p] \ {s}
  BY <1>1 DEF Typed
<1>6. CASE UNCHANGED <<orders, placed, moved>>
  BY <1>1, <1>2, <1>4, <1>5, <1>6 DEF Entered, ReadsHold, HeldOnce, OneOrder, NoOrder
<1>7. CASE Placed(p, s, 1)
  <2>1. PICK w : w.sym = s /\ w.qty = 1 /\ orders' = orders \cup {w}
    BY <1>7 DEF Placed, Order
  <2>2. \A q \in Runners :
          /\ moved[q] \subseteq moved'[q]
          /\ q # p /\ pc[q] = "submit" => s \in moved'[q]
    BY <1>7 DEF Placed
  <2>3. \A o \in orders' : o.sym \in Symbols => o.qty = 1
    BY <2>1 DEF Entered
  <2>4. ASSUME NEW t \in Symbols \ doubled' PROVE HeldOnce(t)'
    <3>1. HeldOnce(t)
      BY <1>1, <2>4 DEF Entered
    <3>2. CASE t = s
      BY <1>1, <1>2, <1>3, <2>1, <2>4, <3>2 DEF HeldOnce, OneOrder, NoOrder
    <3>3. CASE t # s
      BY <1>2, <2>1, <3>1, <3>3 DEF HeldOnce, OneOrder, NoOrder
    <3> QED BY <3>2, <3>3
  <2>5. ReadsHold'
    <3> SUFFICES ASSUME NEW q \in Runners, NEW t \in Symbols,
                        t \notin positions'[q] \cup moved'[q]
                 PROVE  /\ pc'[q] = "orders" => held'[t] = 0
                        /\ pc'[q] = "submit" /\ t \in todo'[q] \ pending'[q]
                              => held'[t] = 0 /\ NoOrder(t)'
      BY DEF ReadsHold
    <3>1. pc'[q] = "orders" => held'[t] = 0
      BY <1>2, <2>2 DEF Entered, ReadsHold
    <3>2. ASSUME pc'[q] = "submit", t \in todo'[q] \ pending'[q]
          PROVE  t # s
      BY <1>2, <1>5, <2>2, <3>2
    <3>3. ASSUME pc'[q] = "submit", t \in todo'[q] \ pending'[q]
          PROVE  held[t] = 0 /\ NoOrder(t)
      BY <1>2, <1>4, <1>5, <2>2, <3>3 DEF Entered, ReadsHold
    <3> QED BY <1>2, <2>1, <3>1, <3>2, <3>3 DEF NoOrder
  <2> QED BY <2>3, <2>4, <2>5 DEF Entered
<1> QED BY <1>1, <1>6, <1>7

(* Every step keeps what S2 holds within one, races apart.                 *)
LEMMA EnteredNext == Typed /\ Entered /\ [Next]_vars => Entered'
<1> SUFFICES ASSUME Typed, Entered, [Next]_vars PROVE Entered'
  OBVIOUS
<1>1. CASE Trade
  <2>1. PICK c \in Core : \E qty \in Int :
          UNCHANGED <<orders, moved>> \/ Placed("rebalance", c, qty)
    BY <1>1, TradeShape
  <2>2. UNCHANGED <<held, doubled, pc, todo, pending, positions>>
    BY <1>1 DEF Trade, runner
  <2>3. \A q \in Runners : moved[q] \subseteq moved'[q]
    BY <2>1 DEF Placed
  <2>4. orders \subseteq orders' /\ \A o \in orders' \ orders : o.sym \notin Symbols
    BY <2>1, PaperAccountConstants DEF Placed, Order
  <2>5. \A s \in Symbols : (OneOrder(s) => OneOrder(s)') /\ (NoOrder(s) => NoOrder(s)')
    BY <2>4 DEF OneOrder, NoOrder
  <2>6. \A s \in Symbols \ doubled' : HeldOnce(s)'
    BY <2>2, <2>5 DEF Entered, HeldOnce
  <2>7. ReadsHold'
    BY <2>2, <2>3, <2>5 DEF Entered, ReadsHold
  <2>8. \A o \in orders' : o.sym \in Symbols => o.qty = 1
    BY <2>4 DEF Entered
  <2> QED BY <2>6, <2>7, <2>8 DEF Entered
<1>2. CASE Fill
  <2>1. PICK o \in orders :
          /\ held' = [held EXCEPT ![o.sym] = @ + o.qty] /\ orders' = orders \ {o}
          /\ moved' = [q \in Runners |-> IF pc[q] = "orders" THEN moved[q] \cup {o.sym}
                                          ELSE moved[q]]
    BY <1>2 DEF Fill
  <2>2. UNCHANGED <<doubled, pc, todo, pending, positions>> /\ o.sym \in All
    BY <1>2 DEF Fill, runner, Typed
  <2>3. \A s \in Symbols : s # o.sym => held'[s] = held[s]
    BY <2>1 DEF Typed, All
  <2>4. held'[o.sym] = held[o.sym] + o.qty
    BY <2>1, <2>2 DEF Typed
  <2>5. \A s \in Symbols : (OneOrder(s) => OneOrder(s)') /\ (NoOrder(s) => NoOrder(s)')
    BY <2>1 DEF OneOrder, NoOrder
  <2>6. ASSUME NEW s \in Symbols \ doubled' PROVE HeldOnce(s)'
    <3>1. HeldOnce(s)
      BY <2>2 DEF Entered
    <3>2. CASE s = o.sym
      <4>1. o.qty = 1 /\ held[s] = 0
        BY <3>1, <3>2 DEF Entered, HeldOnce, NoOrder
      <4>2. NoOrder(s)'
        BY <2>1, <3>1, <3>2 DEF HeldOnce, OneOrder, NoOrder
      <4> QED BY <2>4, <2>5, <3>1, <3>2, <4>1, <4>2 DEF HeldOnce
    <3>3. CASE s # o.sym
      BY <2>3, <2>5, <3>1, <3>3 DEF HeldOnce
    <3> QED BY <3>2, <3>3
  <2>7. ReadsHold'
    <3> SUFFICES ASSUME NEW q \in Runners, NEW s \in Symbols,
                        s \notin positions'[q] \cup moved'[q]
                 PROVE  /\ pc'[q] = "orders" => held'[s] = 0
                        /\ pc'[q] = "submit" /\ s \in todo'[q] \ pending'[q]
                              => held'[s] = 0 /\ NoOrder(s)'
      BY DEF ReadsHold
    <3>1. s \notin positions[q] \cup moved[q] /\ (pc[q] = "orders" => s # o.sym)
      BY <2>1, <2>2
    <3>2. NoOrder(s) => s # o.sym
      BY DEF NoOrder
    <3> QED BY <2>2, <2>3, <2>5, <3>1, <3>2 DEF Entered, ReadsHold
  <2>8. \A w \in orders' : w.sym \in Symbols => w.qty = 1
    BY <2>1 DEF Entered
  <2> QED BY <2>6, <2>7, <2>8 DEF Entered
<1>3. ASSUME NEW s \in Symbols, Close(s) PROVE Entered'
  <2>1. /\ held' = [held EXCEPT ![s] = 0]
        /\ UNCHANGED <<orders, doubled, moved, pc, todo, pending, positions>>
    BY <1>3 DEF Close, runner, history
  <2>2. \A t \in Symbols : held'[t] = IF t = s THEN 0 ELSE held[t]
    BY <2>1 DEF Typed, All
  <2> QED BY <2>1, <2>2 DEF Entered, HeldOnce, ReadsHold, OneOrder, NoOrder
<1>4. CASE NextDay
  <2>1. /\ orders' = {} /\ \A q \in Runners : pc[q] = "idle"
        /\ UNCHANGED <<held, doubled, moved, pc, todo, pending, positions>>
    BY <1>4 DEF NextDay, runner, history
  <2> QED BY <2>1 DEF Entered, HeldOnce, ReadsHold, OneOrder, NoOrder
<1>5. CASE \/ Evaluate \/ WriteRebalance \/ SaveRebalance \/ SaveOnly \/ KillRebalance
            \/ UNCHANGED vars
  <2>1. UNCHANGED <<held, orders, doubled, moved, pc, todo, pending, positions>>
    BY <1>5 DEF Evaluate, WriteRebalance, SaveRebalance, SaveOnly, KillRebalance, vars, account,
                runner, history
  <2> QED BY <2>1 DEF Entered, HeldOnce, ReadsHold, OneOrder, NoOrder
<1> QED BY <1>1, <1>2, <1>3, <1>4, <1>5, EnteredReading, EnteredSubmit DEF Next

-----------------------------------------------------------------------------
(* What the rebalance holds                                                *)

(* Between nothing and a level, on the way to it.                          *)
LEMMA OnTheWay ==
  ASSUME NEW h \in Int, NEW d \in Int, NEW q \in Quantities(d), NEW top \in Nat,
         h \in 0..top, h + d \in 0..top
  PROVE  q \in Int /\ h + q \in 0..top
<1>1. CASE d < 0
  BY <1>1 DEF Quantities
<1>2. CASE ~(d < 0)
  BY <1>2 DEF Quantities
<1> QED BY <1>1, <1>2

(* An evaluation on the account itself, without open orders, asks for the  *)
(* difference to a target.                                                 *)
LEMMA BalancedEvaluate ==
  ASSUME Typed, Balanced, Evaluate
  PROVE  Balanced'
<1>1. PICK read \in BOOLEAN :
        LET known  == Known(read)
            notice == ~read /\ saved.regime = "none"
            delta  == [c \in Core |-> Target(c, regime) - known[c]]
            trade  == IF Wanted(delta) /\ ~notice THEN {c \in Core : delta[c] # 0} ELSE {}
        IN /\ rebalance' = [pc |-> "trade", todo |-> trade, delta |-> delta,
                            regime |-> regime, events |-> {},
                            current |-> IF notice THEN saved.current ELSE known]
           /\ overtaken' = overtaken \cup
                {c \in trade : (\E o \in orders : o.sym = c) \/ held[c] < 0 \/ ~read}
  BY DEF Evaluate
<1>2. UNCHANGED <<held, orders>>
  BY DEF Evaluate, account
<1>3. overtaken \subseteq overtaken'
  BY <1>1
<1>4. ASSUME NEW c \in Core \ overtaken', c \in rebalance'.todo
      PROVE  NoOrder(c) /\ Within(c, rebalance'.delta[c])
  <2>1. read /\ held[c] >= 0 /\ NoOrder(c)
    BY <1>1, <1>4 DEF Typed, All, NoOrder
  <2>2. rebalance'.delta[c] = Target(c, regime) - held[c]
    BY <1>1, <2>1 DEF Known, Notional, Typed, All
  <2>3. Target(c, regime) \in 0..Highest(c) /\ held[c] \in Int /\ Target(c, regime) \in Nat
    BY HighestIsReached, PaperAccountConstants DEF Typed, All
  <2>4. held[c] + rebalance'.delta[c] = Target(c, regime)
    BY <2>2, <2>3
  <2> QED BY <2>1, <2>3, <2>4 DEF Within
<1> QED BY <1>2, <1>3, <1>4 DEF Balanced, Within, OneOrder, NoOrder

(* An order of the rebalance takes a part of that difference.              *)
LEMMA BalancedTrade ==
  ASSUME Typed, Balanced, Trade
  PROVE  Balanced'
<1>1. PICK c \in rebalance.todo : \E qty \in Quantities(rebalance.delta[c]) :
        /\ c \in Core /\ qty \in Int
        /\ rebalance'.todo = rebalance.todo \ {c} /\ rebalance'.delta = rebalance.delta
        /\ UNCHANGED <<held, overtaken>>
        /\ orders' = orders \/ Placed("rebalance", c, qty)
  BY TradeShape
<1>2. PICK qty \in Quantities(rebalance.delta[c]) :
        orders' = orders \/ Placed("rebalance", c, qty)
  BY <1>1
<1>3. CASE orders' = orders
  BY <1>1, <1>3 DEF Balanced, Within, OneOrder, NoOrder
<1>4. CASE Placed("rebalance", c, qty)
  <2>1. PICK w : w.sym = c /\ w.qty = qty /\ orders' = orders \cup {w}
    BY <1>4 DEF Placed, Order
  <2>2. ASSUME NEW d \in Core \ overtaken', d # c
        PROVE  /\ Within(d, 0)' /\ OneOrder(d)' /\ \A o \in orders' : o.sym = d => Within(d, o.qty)'
               /\ d \in rebalance'.todo => NoOrder(d)' /\ Within(d, rebalance.delta[d])'
    BY <1>1, <2>1, <2>2 DEF Balanced, Within, OneOrder, NoOrder
  <2>3. ASSUME c \notin overtaken
        PROVE  /\ Within(c, 0)' /\ OneOrder(c)' /\ \A o \in orders' : o.sym = c => Within(c, o.qty)'
    <3>1. NoOrder(c) /\ Within(c, 0) /\ Within(c, rebalance.delta[c])
      BY <1>1, <2>3 DEF Balanced
    <3>2. held[c] \in Int /\ rebalance.delta[c] \in Int /\ Highest(c) \in Nat
      BY <1>1, HighestIsReached DEF Typed, All
    <3>3. Within(c, qty)
      BY <1>2, <3>1, <3>2, OnTheWay DEF Within
    <3> QED BY <1>1, <2>1, <3>1, <3>3 DEF Within, OneOrder, NoOrder
  <2> QED BY <1>1, <2>2, <2>3 DEF Balanced, Within
<1> QED BY <1>2, <1>3, <1>4

(* Every step keeps the rebalance between nothing and the highest target,  *)
(* the symbols overtaken apart.                                            *)
LEMMA BalancedNext == Typed /\ Balanced /\ [Next]_vars => Balanced'
<1> SUFFICES ASSUME Typed, Balanced, [Next]_vars PROVE Balanced'
  OBVIOUS
<1> DEFINE Less == /\ UNCHANGED <<held, overtaken>> /\ orders' \subseteq orders
                   /\ rebalance'.todo \subseteq rebalance.todo
                   /\ rebalance'.delta = rebalance.delta \/ rebalance'.todo = {}
<1>1. CASE Less
  BY <1>1 DEF Balanced, Within, OneOrder, NoOrder
<1>2. ASSUME NEW p \in Runners, Submit(p) PROVE Balanced'
  <2>1. PICK s \in Symbols : Placed(p, s, 1) \/ orders' = orders
    BY <1>2 DEF Submit, Typed
  <2>2. UNCHANGED <<held, overtaken, rebalance>>
    BY <1>2 DEF Submit
  <2>3. orders \subseteq orders' /\ \A o \in orders' \ orders : o.sym \notin Core
    BY <2>1, PaperAccountConstants DEF Placed, Order
  <2> QED BY <2>2, <2>3 DEF Balanced, Within, OneOrder, NoOrder
<1>3. CASE Fill
  <2>1. PICK o \in orders :
          held' = [held EXCEPT ![o.sym] = @ + o.qty] /\ orders' = orders \ {o}
    BY <1>3 DEF Fill
  <2>2. UNCHANGED <<overtaken, rebalance>> /\ o.sym \in All
    BY <1>3 DEF Fill, Typed
  <2>3. \A c \in Core : c # o.sym => held'[c] = held[c]
    BY <2>1 DEF Typed, All
  <2>4. held'[o.sym] = held[o.sym] + o.qty /\ held'[o.sym] \in Int
    BY <2>1, <2>2 DEF Typed
  <2>5. ASSUME NEW c \in Core \ overtaken', c # o.sym
        PROVE  /\ Within(c, 0)' /\ OneOrder(c)' /\ \A w \in orders' : w.sym = c => Within(c, w.qty)'
               /\ c \in rebalance.todo => NoOrder(c)' /\ Within(c, rebalance.delta[c])'
    BY <2>1, <2>2, <2>3, <2>5 DEF Balanced, Within, OneOrder, NoOrder
  <2>6. ASSUME NEW c \in Core \ overtaken', c = o.sym
        PROVE  /\ Within(c, 0)' /\ NoOrder(c)' /\ c \notin rebalance.todo
    <3>1. OneOrder(c) /\ Within(c, o.qty) /\ (c \in rebalance.todo => NoOrder(c))
      BY <2>2, <2>6 DEF Balanced
    <3>2. NoOrder(c)' /\ c \notin rebalance.todo
      BY <2>1, <2>6, <3>1 DEF OneOrder, NoOrder
    <3> QED BY <2>4, <2>6, <3>1, <3>2 DEF Within
  <2> QED BY <2>2, <2>5, <2>6 DEF Balanced, Within, OneOrder, NoOrder
<1>4. ASSUME NEW s \in Symbols, Close(s) PROVE Balanced'
  <2>1. held' = [held EXCEPT ![s] = 0] /\ UNCHANGED <<orders, overtaken, rebalance>>
    BY <1>4 DEF Close, history
  <2>2. \A c \in Core : held'[c] = held[c]
    BY <2>1, PaperAccountConstants DEF Typed, All
  <2> QED BY <2>1, <2>2 DEF Balanced, Within, OneOrder, NoOrder
<1>5. CASE WriteRebalance
  BY <1>1, <1>5 DEF WriteRebalance, Typed, account, history
<1>6. CASE SaveRebalance \/ KillRebalance
  BY <1>1, <1>6 DEF SaveRebalance, KillRebalance, Idle, account, history
<1>7. ASSUME NEW p \in Runners,
             \/ StartS2(p) \/ ListStale(p) \/ CancelStale(p) \/ ReadPositions(p)
             \/ ReadOrders(p) \/ Skip(p) \/ WriteEvents(p) \/ KillS2(p)
      PROVE  Less
  BY <1>7 DEF StartS2, ListStale, CancelStale, ReadPositions, ReadOrders, Skip,
              WriteEvents, KillS2, account, history
<1>8. CASE NextDay \/ SaveOnly \/ UNCHANGED vars
  <2>1. Less
    BY <1>8 DEF NextDay, SaveOnly, vars, account, history
  <2> QED BY <1>1, <2>1
<1> QED BY <1>1, <1>2, <1>3, <1>4, <1>5, <1>6, <1>7, <1>8, BalancedEvaluate, BalancedTrade
        DEF Next

-----------------------------------------------------------------------------
(* The theorems                                                            *)

IInv == Typed /\ Accounted /\ Entered /\ Balanced

(* The invariants hold of every behaviour.                                 *)
LEMMA IInvAlways == Spec => []IInv
<1>1. Init => IInv
  <2> SUFFICES ASSUME Init PROVE IInv
    OBVIOUS
  <2>1. Typed
    BY TypedInit
  <2>2. Accounted
    BY DEF Init, Accounted, OrdersLogged, Idle
  <2>3. Entered
    BY DEF Init, Entered, HeldOnce, OneOrder, NoOrder, ReadsHold, All
  <2>4. Balanced
    BY HighestIsReached DEF Init, Balanced, Within, OneOrder, Idle, All
  <2> QED BY <2>1, <2>2, <2>3, <2>4 DEF IInv
<1>2. IInv /\ [Next]_vars => IInv'
  BY TypedNext, AccountedNext, EnteredNext, BalancedNext DEF IInv
<1> QED BY <1>1, <1>2, PTL DEF Spec

(* Every variable of the account and of its programs stays in its domain;  *)
(* a runner about to buy has only candidates left to look at.              *)
THEOREM TypeCorrect == Spec => []Typed
BY IInvAlways, PTL DEF IInv

(* A program at rest has written the ledger line of every order it placed, *)
(* but for a kill or a lost answer: a refused order does not take the      *)
(* lines of the others with it (execute_candidates, append_ledger_event).  *)
THEOREM LedgersComplete == Spec => []OrdersLogged
BY IInvAlways, PTL DEF IInv, Accounted

(* With any number of runners and symbols, S2 has a symbol once, held or   *)
(* on order, unless it moved between the reads of a run; and the rebalance *)
(* stays between nothing and its highest target, unless it was run over    *)
(* its own orders, on old allocations or on a short position.              *)
THEOREM AccountBounded == Spec => []PositionsBounded
<1>1. IInv => PositionsBounded
  <2> SUFFICES ASSUME IInv PROVE PositionsBounded
    OBVIOUS
  <2>1. ASSUME NEW s \in Symbols \ doubled PROVE held[s] + Pending(s) <= 1
    <3>1. HeldOnce(s) /\ s \in All
      BY DEF IInv, Entered, All
    <3>2. CASE Pending(s) = 0
      BY <3>1, <3>2 DEF HeldOnce
    <3>3. ASSUME NEW o \in orders, o.sym = s, Pending(s) = o.qty
          PROVE  held[s] + Pending(s) <= 1
      <4>1. o.qty = 1 /\ held[s] = 0
        BY <3>1, <3>3 DEF IInv, Entered, HeldOnce, NoOrder
      <4> QED BY <3>3, <4>1
    <3> QED BY <3>1, <3>2, <3>3, PendingIsOne DEF IInv, HeldOnce
  <2>2. ASSUME NEW c \in Core \ overtaken
        PROVE  held[c] >= 0 /\ held[c] + Pending(c) <= Highest(c)
    <3>1. /\ Within(c, 0) /\ OneOrder(c) /\ \A o \in orders : o.sym = c => Within(c, o.qty)
          /\ c \in All /\ held[c] \in Int /\ Highest(c) \in Nat
      BY HighestIsReached DEF IInv, Balanced, Typed, All
    <3>2. CASE Pending(c) = 0
      BY <3>1, <3>2 DEF Within
    <3>3. ASSUME NEW o \in orders, o.sym = c, Pending(c) = o.qty
          PROVE  held[c] + Pending(c) <= Highest(c)
      BY <3>1, <3>3 DEF Within
    <3>4. held[c] >= 0
      BY <3>1 DEF Within
    <3> QED BY <3>1, <3>2, <3>3, <3>4, PendingIsOne DEF IInv
  <2> QED BY <2>1, <2>2 DEF PositionsBounded, DoublesNeedARace, RebalanceBounded
<1> QED BY <1>1, IInvAlways, PTL

=============================================================================
