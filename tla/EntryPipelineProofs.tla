------------------------ MODULE EntryPipelineProofs ------------------------
(* Proofs of the safety of EntryPipeline, for every value of its constants. *)
EXTENDS EntryRefinement, TLAPS, FiniteSetTheorems

-----------------------------------------------------------------------------
(* Types                                                                   *)

(* TypeOK is not inductive alone: an order id must be left when a live     *)
(* submission starts, and an id is in flight exactly while a live order is  *)
(* being booked.                                                           *)
TypeInv ==
  /\ TypeOK
  /\ pc = "submit" /\ live_active => next_id <= MaxOrders
  /\ inflight # 0 <=> pc \in {"record", "enter", "consume", "book"} /\ live_active

(* The number of held symbols is a number. *)
LEMMA HeldCountable == Cardinality(HeldSymbols) \in Nat
BY SymbolsAssumption, FS_Subset, FS_CardinalityType, HeldSymbols \subseteq Symbols
   DEF HeldSymbols

(* Requeueing puts a queued intent in the table, or nothing. *)
LEMMA RequeueType ==
  ASSUME entry_intents \in [Symbols -> Queued \union {NoIntent}],
         current \in Intent, Requeue
  PROVE  entry_intents' \in [Symbols -> Queued \union {NoIntent}]
BY DEF Requeue, Queued, Intent

(* Types are kept by every step. *)
LEMMA TypeStep ==
  ASSUME TypeInv, [Next]_vars
  PROVE  TypeInv'
<1> USE BoundsAssumption, HeldCountable
<1>1. CASE CycleMarketClosed
  BY <1>1
     DEF CycleMarketClosed, PurgeStale, TypeInv, TypeOK, Steps, InHand, stores,
         cycle, hand, broker, budgets
<1>2. CASE CycleOpens
  <2>1. PurgeStale \in [Symbols -> Queued \union {NoIntent}]
    BY DEF TypeInv, TypeOK, PurgeStale
  <2>2. RescheduleDue(PurgeStale) \in [Symbols -> Queued \union {NoIntent}]
    <3>1. ASSUME NEW s \in Symbols, PurgeStale[s].age = "due"
          PROVE  [PurgeStale[s] EXCEPT !.age = "waiting"] \in Queued
      BY <2>1, <3>1 DEF Queued, NoIntent
    <3>. QED  BY <2>1, <3>1 DEF RescheduleDue
  <2>3. entry_intents' \in [Symbols -> Queued \union {NoIntent}]
    BY <1>2, <2>1, <2>2 DEF CycleOpens
  <2>4. caps_entries' \subseteq OrderIds /\ read_faults' \in 0..MaxReadFaults
    BY <1>2 DEF CycleOpens, ReadCapsLedger, ReadFault, LoadCaps, TypeInv, TypeOK
  <2>5. projected_open_positions' \in Nat
    BY <1>2 DEF CycleOpens
  <2>. QED
    BY <1>2, <2>3, <2>4, <2>5
       DEF CycleOpens, TypeInv, TypeOK, Steps, InHand, stores, cycle, hand, broker,
           budgets
<1>3. ASSUME NEW s \in Symbols, NEW q \in Qtys, CreateIntent(s, q) PROVE TypeInv'
  BY <1>3
     DEF CreateIntent, TypeInv, TypeOK, Queued, NoIntent, Steps, InHand, stores,
         cycle, hand, broker, budgets
<1>4. CASE EvaluatePositions
  BY <1>4
     DEF EvaluatePositions, HeldSymbols, TypeInv, TypeOK, Steps, InHand, stores,
         cycle, hand, broker, budgets
<1>5. CASE PopDue
  BY <1>5
     DEF PopDue, DueSymbols, TypeInv, TypeOK, Intent, Queued, NoIntent, Steps,
         InHand, stores, cycle, hand, broker, budgets
<1>6. CASE Screen
  BY <1>6
     DEF Screen, Approvable, ApplyOpenPositions, ReadFault, TypeInv, TypeOK,
         States, Steps, InHand, stores, cycle, hand, broker, budgets
<1>7. ASSUME NEW i \in batch, TakeIntent(i) PROVE TypeInv'
  BY <1>7
     DEF TakeIntent, ReadFault, TypeInv, TypeOK, NoIntent, Intent, Steps, InHand,
         stores, cycle, hand, broker, budgets
<1>8. ASSUME NEW i \in batch, SkipIntent(i) PROVE TypeInv'
  BY <1>8
     DEF SkipIntent, TypeInv, TypeOK, Steps, InHand, stores, cycle, hand, broker,
         budgets
<1>9. CASE AdmitIntent
  BY <1>9
     DEF AdmitIntent, GuardsPass, TypeInv, TypeOK, Steps, InHand, stores, cycle,
         hand, broker, budgets
<1>10. CASE RefuseIntent
  BY <1>10
     DEF RefuseIntent, TypeInv, TypeOK, Steps, InHand, stores, cycle, hand, broker,
         budgets
<1>11. CASE SubmitAccepted
  <2>1. next_id \in OrderIds /\ current \in Intent
    BY <1>11 DEF SubmitAccepted, TypeInv, TypeOK, OrderIds, InHand, NoIntent
  <2>2. orders' \subseteq Order
    BY <1>11, <2>1 DEF SubmitAccepted, BrokerAccepts, TypeInv, TypeOK, Order, Intent
  <2>3. next_id' \in 1..(MaxOrders + 1) /\ inflight' \in OrderIds \union {0}
        /\ inflight' # 0
    BY <1>11, <2>1 DEF SubmitAccepted, BrokerAccepts, OrderIds
  <2>4. status' \in [OrderIds -> Statuses]
    BY <1>11, <2>1 DEF SubmitAccepted, BrokerAccepts, TypeInv, TypeOK, Statuses
  <2>. QED
    BY <1>11, <2>2, <2>3, <2>4
       DEF SubmitAccepted, TypeInv, TypeOK, Steps, InHand, stores, cycle, hand, broker, budgets
<1>12. CASE SubmitRaises
  <2>1. next_id \in OrderIds /\ current \in Intent
    BY <1>12 DEF SubmitRaises, TypeInv, TypeOK, OrderIds, InHand, NoIntent
  <2>2. orders' \subseteq Order
    BY <1>12, <2>1
       DEF SubmitRaises, BrokerAccepts, TypeInv, TypeOK, Order, Intent, broker
  <2>3. next_id' \in 1..(MaxOrders + 1)
    BY <1>12, <2>1
       DEF SubmitRaises, BrokerAccepts, TypeInv, TypeOK, OrderIds, broker
  <2>7. lost' \subseteq OrderIds
    BY <1>12, <2>1 DEF SubmitRaises, TypeInv, TypeOK
  <2>4. status' \in [OrderIds -> Statuses]
    BY <1>12, <2>1
       DEF SubmitRaises, BrokerAccepts, TypeInv, TypeOK, Statuses, broker
  <2>5. entry_intents' \in [Symbols -> Queued \union {NoIntent}]
    BY <1>12, <2>1, RequeueType DEF SubmitRaises, TypeInv, TypeOK
  <2>6. faults' \in 0..MaxFaults
    BY <1>12 DEF SubmitRaises, Fault, TypeInv, TypeOK
  <2>. QED
    BY <1>12, <2>2, <2>3, <2>4, <2>5, <2>6, <2>7
       DEF SubmitRaises, IntentDone, TypeInv, TypeOK, Steps, InHand, stores, cycle, hand, broker, budgets
<1>13. CASE SubmitDry
  BY <1>13
     DEF SubmitDry, TypeInv, TypeOK, Intent, NoIntent, Steps, InHand, stores,
         cycle, hand, broker, budgets
<1>14. CASE RecordOrder
  BY <1>14
     DEF RecordOrder, TypeInv, TypeOK, Intent, NoIntent, Key, Steps, InHand,
         stores, cycle, hand, broker, budgets
<1>15. CASE EnterSymbol
  BY <1>15
     DEF EnterSymbol, TypeInv, TypeOK, Intent, NoIntent, States, Steps, InHand,
         stores, cycle, hand, broker, budgets
<1>16. CASE ConsumeEntry
  BY <1>16
     DEF ConsumeEntry, TypeInv, TypeOK, Intent, NoIntent, Steps, InHand, stores,
         cycle, hand, broker, budgets
<1>17. CASE BookOrder
  <2>1. /\ caps_entries' \subseteq OrderIds /\ live_ledger' \subseteq OrderIds
        /\ faults' \in 0..MaxFaults
    BY <1>17 DEF BookOrder, BookLive, BookPaper, Fault, TypeInv, TypeOK
  <2>2. symbol_state' \in [Symbols -> States]
    BY <1>17
       DEF BookOrder, BookLive, BookPaper, TypeInv, TypeOK, States, InHand, Intent,
           NoIntent
  <2>. QED
    BY <1>17, <2>1, <2>2
       DEF BookOrder, IntentDone, TypeInv, TypeOK, Steps, InHand, stores, cycle,
           hand, broker, budgets
<1>18. CASE BookingRaises
  <2>1. current \in Intent
    BY <1>18 DEF BookingRaises, TypeInv, TypeOK, InHand
  <2>2. current.sym \in Symbols /\ current.qty \in Qtys
    BY <2>1 DEF Intent
  <2>3. entry_intents' \in [Symbols -> Queued \union {NoIntent}]
    BY <1>18, <2>1, RequeueType DEF BookingRaises, TypeInv, TypeOK
  <2>4. symbol_state' \in [Symbols -> States]
    BY <1>18, <2>2 DEF BookingRaises, TypeInv, TypeOK, States
  <2>5. /\ order_ledger' \subseteq Days \X Symbols \X Qtys
        /\ consumed_entries' \subseteq Days \X Symbols
    BY <1>18, <2>2 DEF BookingRaises, TypeInv, TypeOK, Key
  <2>6. live_ledger' \subseteq OrderIds /\ lost' \subseteq OrderIds
    BY <1>18 DEF BookingRaises, TypeInv, TypeOK
  <2>7. faults' \in 0..MaxFaults
    BY <1>18 DEF BookingRaises, Fault, TypeInv, TypeOK
  <2>. QED
    BY <1>18, <2>3, <2>4, <2>5, <2>6, <2>7
       DEF BookingRaises, IntentDone, TypeInv, TypeOK, Steps, InHand, stores, cycle, hand, broker, budgets
<1>19. CASE FinishCycle
  BY <1>19
     DEF FinishCycle, LeaveCycle, TypeInv, TypeOK, States, Steps, InHand, stores,
         cycle, hand, broker, budgets
<1>20. CASE Crash
  <2>1. lost' \subseteq OrderIds /\ crashes' \in 0..MaxCrashes
    BY <1>20 DEF Crash, TypeInv, TypeOK
  <2>. QED
    BY <1>20, <2>1
       DEF Crash, LeaveCycle, TypeInv, TypeOK, Steps, InHand, stores, cycle, hand,
           broker, budgets
<1>21. ASSUME NEW o \in orders, OrderMoves(o) PROVE TypeInv'
  BY <1>21
     DEF OrderMoves, TypeInv, TypeOK, Statuses, Steps, InHand, stores, cycle, hand,
         broker, budgets
<1>22. ASSUME NEW s \in Symbols, ClosePosition(s) PROVE TypeInv'
  BY <1>22
     DEF ClosePosition, TypeInv, TypeOK, Statuses, Steps, InHand, stores, cycle,
         hand, broker, budgets
<1>23. ASSUME NEW s \in Symbols, Age(s) PROVE TypeInv'
  <2>1. entry_intents[s] \in Queued
    BY <1>23 DEF Age, TypeInv, TypeOK, NoIntent
  <2>2. entry_intents' \in [Symbols -> Queued \union {NoIntent}]
    BY <1>23, <2>1 DEF Age, TypeInv, TypeOK, Queued
  <2>. QED
    BY <1>23, <2>2 DEF Age, TypeInv, TypeOK, stores, cycle, hand, broker, budgets
<1>24. CASE NextDay
  <2>1. status' \in [OrderIds -> Statuses]
    BY <1>24 DEF NextDay, TypeInv, TypeOK, Statuses
  <2>2. symbol_state' \in [Symbols -> States]
    BY <1>24 DEF NextDay, TypeInv, TypeOK, States
  <2>3. day' \in Days
    BY <1>24 DEF NextDay, TypeInv, TypeOK, Days
  <2>4. consumed_entries' \subseteq Days \X Symbols
    BY <1>24 DEF NextDay, TypeInv, TypeOK
  <2>. QED
    BY <1>24, <2>1, <2>2, <2>3, <2>4
       DEF NextDay, TypeInv, TypeOK, stores, cycle, hand, broker, budgets
<1>25. CASE UNCHANGED vars
  BY <1>25 DEF TypeInv, TypeOK, vars, stores, cycle, hand, broker, budgets
<1>. QED
  BY <1>1, <1>2, <1>3, <1>4, <1>5, <1>6, <1>7, <1>8, <1>9, <1>10, <1>11, <1>12,
     <1>13, <1>14, <1>15, <1>16, <1>17, <1>18, <1>19, <1>20, <1>21, <1>22, <1>23,
     <1>24, <1>25
     DEF Next, CycleStep

(* Every variable keeps its type, an id is left for each submission, and   *)
(* an order is in flight exactly while it is being booked.                 *)
THEOREM TypeCorrect == Spec => []TypeInv
<1>1. ASSUME Init PROVE TypeInv
  <2>1. day \in Days /\ next_id \in 1..(MaxOrders + 1)
    BY <1>1, BoundsAssumption DEF Init, Days
  <2>2. /\ crashes \in 0..MaxCrashes /\ faults \in 0..MaxFaults
        /\ read_faults \in 0..MaxReadFaults
    BY <1>1, BoundsAssumption DEF Init
  <2>3. /\ entry_intents \in [Symbols -> Queued \union {NoIntent}]
        /\ symbol_state \in [Symbols -> States]
        /\ status \in [OrderIds -> Statuses]
    BY <1>1 DEF Init, States, Statuses
  <2>. QED
    BY <1>1, <2>1, <2>2, <2>3 DEF Init, TypeInv, TypeOK, Steps, InHand
<1>2. TypeInv /\ [Next]_vars => TypeInv'
  BY TypeStep
<1>. QED
  BY <1>1, <1>2, PTL DEF Spec

(* Every variable keeps its type, for any symbols, sizes and bounds. *)
THEOREM TypesHold == Spec => []TypeOK
<1>1. TypeInv => TypeOK
  BY DEF TypeInv
<1>. QED
  BY <1>1, TypeCorrect, PTL

-----------------------------------------------------------------------------
(* Booking                                                                 *)

(* Order ids are fresh, and none is forgotten before it was given out. *)
IdInv ==
  /\ \A o \in orders : o.id < next_id
  /\ \A o, p \in orders : o.id = p.id => o = p
  /\ \A i \in lost : i < next_id
  /\ inflight \notin lost

(* What is in flight is an order of today for the intent in hand. *)
FlightInv ==
  inflight # 0 =>
    [id |-> inflight, sym |-> current.sym, day |-> day, qty |-> current.qty]
      \in orders

(* The consumed set knows every booked order, and an intent that got past  *)
(* the guards is not in it until its own booking puts it there.            *)
ConsumedInv ==
  /\ \A o \in Booked : <<o.day, o.sym>> \in consumed_entries
  /\ pc \in {"submit"} \union Unbooked => <<day, current.sym>> \notin consumed_entries

(* The key store is at least as far as the consumed set. *)
KeyInv ==
  /\ BookedOrdersAreKeyed
  /\ pc \in {"enter", "consume"} /\ inflight # 0 =>
       Key(day, current.sym, current.qty) \in order_ledger

(* No order is from the future, and only orders of today are working. *)
DayInv ==
  \A o \in orders : o.day <= day /\ (o.day < day => status[o.id] # "open")

BookInv ==
  IdInv /\ DayInv /\ FlightInv /\ ConsumedInv /\ KeyInv /\ OneBookedEntryPerDay

Booking == {"record", "enter", "consume", "book"}

(* A step away from booking that leaves the broker and the booking stores  *)
(* alone cannot disturb it.                                                *)
LEMMA QuietBook ==
  ASSUME TypeInv, BookInv, pc \notin Booking, pc' \notin {"submit"} \union Unbooked,
         UNCHANGED <<day, orders, status, next_id, lost, inflight,
                     consumed_entries, order_ledger>>
  PROVE  BookInv'
<1>1. inflight = 0
  BY DEF TypeInv, Booking
<1>2. Booked' \subseteq Booked
  BY DEF Booked, Booking, Unbooked
<1>. QED
  BY <1>1, <1>2 DEF BookInv, IdInv, DayInv, FlightInv, ConsumedInv, KeyInv,
                    BookedOrdersAreKeyed, OneBookedEntryPerDay, Unbooked

(* The order in flight was given out by the broker. *)
LEMMA FlightKnown ==
  ASSUME TypeInv, BookInv
  PROVE  inflight # 0 => inflight < next_id /\ inflight \in OrderIds
BY DEF BookInv, IdInv, FlightInv, TypeInv, TypeOK

(* Every step keeps the booking invariant. *)
LEMMA BookStep ==
  ASSUME TypeInv, TypeInv', BookInv, [Next]_vars
  PROVE  BookInv'
<1>1. CASE CycleMarketClosed
  BY <1>1, QuietBook
     DEF CycleMarketClosed, Unbooked, Booking, stores, cycle, hand, broker, budgets
<1>2. CASE CycleOpens
  BY <1>2, QuietBook
     DEF CycleOpens, Unbooked, Booking, stores, cycle, hand, broker, budgets
<1>3. ASSUME NEW s \in Symbols, NEW q \in Qtys, CreateIntent(s, q) PROVE BookInv'
  BY <1>3, QuietBook
     DEF CreateIntent, Unbooked, Booking, stores, cycle, hand, broker, budgets
<1>4. CASE EvaluatePositions
  BY <1>4, QuietBook
     DEF EvaluatePositions, Unbooked, Booking, stores, cycle, hand, broker, budgets
<1>5. CASE PopDue
  BY <1>5, QuietBook
     DEF PopDue, Unbooked, Booking, stores, cycle, hand, broker, budgets
<1>6. CASE Screen
  BY <1>6, QuietBook
     DEF Screen, Unbooked, Booking, stores, cycle, hand, broker, budgets
<1>7. ASSUME NEW i \in batch, TakeIntent(i) PROVE BookInv'
  BY <1>7, QuietBook
     DEF TakeIntent, Unbooked, Booking, stores, cycle, hand, broker, budgets
<1>8. ASSUME NEW i \in batch, SkipIntent(i) PROVE BookInv'
  BY <1>8, QuietBook
     DEF SkipIntent, Unbooked, Booking, stores, cycle, hand, broker, budgets
<1>9. CASE AdmitIntent
  BY <1>9
     DEF AdmitIntent, GuardsPass, BookInv, IdInv, DayInv, FlightInv, ConsumedInv,
         KeyInv, BookedOrdersAreKeyed, OneBookedEntryPerDay, Booked, Unbooked, TypeInv,
         stores, cycle, hand, broker, budgets
<1>10. CASE RefuseIntent
  BY <1>10, QuietBook
     DEF RefuseIntent, Unbooked, Booking, stores, cycle, hand, broker, budgets
<1>11. CASE SubmitAccepted
  <2> DEFINE new == [id |-> next_id, sym |-> current.sym, day |-> day, qty |-> current.qty]
  <2>1. /\ pc = "submit" /\ inflight = 0 /\ next_id \in OrderIds
        /\ day \in Days /\ \A o \in orders : o.id \in OrderIds
    BY <1>11 DEF SubmitAccepted, TypeInv, TypeOK, OrderIds, Order
  <2>2. /\ orders' = orders \union {new} /\ inflight' = next_id /\ pc' = "record"
        /\ UNCHANGED <<day, current, lost, consumed_entries, order_ledger>>
        /\ next_id' = next_id + 1
    BY <1>11 DEF SubmitAccepted, BrokerAccepts, stores
  <2>3. Booked' = Booked
    BY <2>1, <2>2 DEF Booked, Unbooked, BookInv, IdInv, OrderIds
  <2>4. IdInv'
    BY <2>1, <2>2 DEF BookInv, IdInv, TypeInv, TypeOK, OrderIds
  <2>5. \A o \in orders : status'[o.id] = status[o.id]
    BY <1>11, <2>1
       DEF SubmitAccepted, BrokerAccepts, BookInv, IdInv, TypeInv, TypeOK, OrderIds
  <2>6. DayInv'
    BY <2>1, <2>2, <2>5 DEF BookInv, DayInv, Days
  <2>7. FlightInv'
    BY <2>2 DEF FlightInv
  <2>8. ConsumedInv'
    BY <2>1, <2>2, <2>3 DEF BookInv, ConsumedInv, Unbooked
  <2>9. KeyInv'
    BY <2>2, <2>3 DEF BookInv, KeyInv, BookedOrdersAreKeyed, OrderKey
  <2>10. \A o \in orders : o.id \notin lost /\ o.sym = current.sym => o.day # day
    BY <2>1 DEF BookInv, ConsumedInv, Booked, Unbooked
  <2>11. OneBookedEntryPerDay'
    BY <2>2, <2>10 DEF BookInv, OneBookedEntryPerDay
  <2>. QED
    BY <2>4, <2>6, <2>7, <2>8, <2>9, <2>11 DEF BookInv
<1>12. CASE SubmitRaises
  <2> DEFINE new == [id |-> next_id, sym |-> current.sym, day |-> day, qty |-> current.qty]
  <2>1. /\ pc = "submit" /\ inflight = 0 /\ next_id \in OrderIds
        /\ day \in Days /\ \A o \in orders : o.id \in OrderIds
    BY <1>12 DEF SubmitRaises, TypeInv, TypeOK, OrderIds, Order
  <2>2. /\ inflight' = 0 /\ pc' = "next"
        /\ UNCHANGED <<day, consumed_entries, order_ledger>>
    BY <1>12 DEF SubmitRaises, IntentDone
  <2>3. CASE UNCHANGED <<broker, lost>>
    <3>1. Booked' = Booked
      BY <2>1, <2>2, <2>3 DEF Booked, Unbooked, broker
    <3>. QED
      BY <2>1, <2>2, <2>3, <3>1
         DEF BookInv, IdInv, DayInv, FlightInv, ConsumedInv, KeyInv,
             BookedOrdersAreKeyed, OneBookedEntryPerDay, Unbooked, broker
  <2>4. CASE BrokerAccepts /\ lost' = lost \union {next_id}
    <3>1. /\ orders' = orders \union {new} /\ next_id' = next_id + 1
          /\ lost' = lost \union {next_id}
      BY <2>4 DEF BrokerAccepts
    <3>2. IdInv'
      BY <2>1, <2>2, <3>1 DEF BookInv, IdInv, TypeInv, TypeOK, OrderIds
    <3>3. Booked' = Booked
      BY <2>1, <2>2, <3>1 DEF Booked, Unbooked, BookInv, IdInv, OrderIds
    <3>4. \A o \in orders : status'[o.id] = status[o.id]
      BY <2>4, <2>1 DEF BrokerAccepts, BookInv, IdInv, TypeInv, TypeOK, OrderIds
    <3>5. DayInv'
      BY <2>1, <2>2, <3>1, <3>4 DEF BookInv, DayInv, Days
    <3>6. FlightInv' /\ ConsumedInv' /\ KeyInv'
      BY <2>2, <3>3
         DEF BookInv, FlightInv, ConsumedInv, KeyInv, BookedOrdersAreKeyed,
                        OrderKey, Unbooked
    <3>7. OneBookedEntryPerDay'
      BY <3>1 DEF BookInv, OneBookedEntryPerDay
    <3>. QED
      BY <3>2, <3>5, <3>6, <3>7 DEF BookInv
  <2>. QED
    BY <1>12, <2>3, <2>4 DEF SubmitRaises
<1>13. CASE SubmitDry
  BY <1>13
     DEF SubmitDry, BookInv, IdInv, DayInv, FlightInv, ConsumedInv, KeyInv,
         BookedOrdersAreKeyed, OneBookedEntryPerDay, Booked, Unbooked, TypeInv, stores,
         cycle, hand, broker, budgets
<1>14. CASE RecordOrder
  BY <1>14
     DEF RecordOrder, BookInv, IdInv, DayInv, FlightInv, ConsumedInv, KeyInv,
         BookedOrdersAreKeyed, OneBookedEntryPerDay, Booked, Unbooked, TypeInv, stores,
         cycle, hand, broker, budgets
<1>15. CASE EnterSymbol
  BY <1>15
     DEF EnterSymbol, BookInv, IdInv, DayInv, FlightInv, ConsumedInv, KeyInv,
         BookedOrdersAreKeyed, OneBookedEntryPerDay, Booked, Unbooked, TypeInv, stores,
         cycle, hand, broker, budgets
<1>16. CASE ConsumeEntry
  <2>1. /\ pc = "consume" /\ pc' = "book"
        /\ consumed_entries' = consumed_entries \union {<<day, current.sym>>}
        /\ UNCHANGED <<day, orders, status, next_id, lost, inflight, current, order_ledger>>
    BY <1>16 DEF ConsumeEntry, hand, broker
  <2>2. \A o \in Booked' : o \in Booked \/ (inflight # 0 /\ o.id = inflight)
    BY <2>1 DEF Booked, Unbooked, TypeInv, TypeOK, Order, OrderIds
  <2>3. \A o \in orders : inflight # 0 /\ o.id = inflight =>
          o.day = day /\ o.sym = current.sym /\ o.qty = current.qty
    BY DEF BookInv, IdInv, FlightInv
  <2>4. ConsumedInv'
    BY <2>1, <2>2, <2>3 DEF BookInv, ConsumedInv, Booked, Unbooked
  <2>5. KeyInv'
    BY <2>1, <2>2, <2>3 DEF BookInv, KeyInv, BookedOrdersAreKeyed, Booked, OrderKey
  <2>. QED
    BY <2>1, <2>4, <2>5 DEF BookInv, IdInv, DayInv, FlightInv, OneBookedEntryPerDay
<1>17. CASE BookOrder
  <2>1. /\ pc = "book" /\ pc' = "next" /\ inflight' = 0
        /\ UNCHANGED <<day, orders, status, next_id, lost, consumed_entries, order_ledger>>
    BY <1>17 DEF BookOrder, IntentDone, broker
  <2>2. Booked' = Booked
    BY <2>1 DEF Booked, Unbooked
  <2>3. \A i \in lost : i # 0
    BY DEF TypeInv, TypeOK, OrderIds
  <2>. QED
    BY <2>1, <2>2, <2>3
       DEF BookInv, IdInv, DayInv, FlightInv, ConsumedInv, KeyInv, BookedOrdersAreKeyed,
           OneBookedEntryPerDay, OrderKey, Unbooked
<1>18. CASE BookingRaises
  <2>1. /\ pc \in Booking /\ pc' = "next" /\ inflight' = 0
        /\ lost \subseteq lost' /\ lost' \subseteq lost \union ({inflight} \ {0})
        /\ UNCHANGED <<day, orders, status, next_id>>
        /\ consumed_entries \subseteq consumed_entries' /\ order_ledger \subseteq order_ledger'
        /\ inflight # 0 /\ inflight \notin lost' => <<day, current.sym>> \in consumed_entries'
    BY <1>18 DEF BookingRaises, IntentDone, Booking, broker
  <2>2. \A o \in orders : inflight # 0 /\ o.id = inflight =>
          o.day = day /\ o.sym = current.sym /\ o.qty = current.qty
    BY DEF BookInv, IdInv, FlightInv
  <2>3. /\ \A i \in lost' : i \in OrderIds
        /\ \A i \in lost' : i < next_id
    BY <2>1, FlightKnown DEF BookInv, IdInv, TypeInv, TypeOK, OrderIds
  <2>4. \A o \in Booked' : o \in Booked \/ (inflight # 0 /\ o.id = inflight)
    BY <2>1 DEF Booked, Unbooked, TypeInv, TypeOK, Order, OrderIds
  <2>5. ConsumedInv'
    BY <2>1, <2>2, <2>4 DEF BookInv, ConsumedInv, Booked, Unbooked
  <2>6. inflight # 0 /\ inflight \notin lost' => Key(day, current.sym, current.qty) \in order_ledger
    <3>1. CASE pc = "book"
      BY <3>1, FlightKnown
         DEF BookInv, KeyInv, BookedOrdersAreKeyed, Booked, Unbooked,
                               FlightInv, IdInv, OrderKey
    <3>2. CASE pc \in {"enter", "consume"}
      BY <3>2 DEF BookInv, KeyInv
    <3>3. CASE pc = "record"
      BY <1>18, <3>3, <2>1 DEF BookingRaises, BookInv, ConsumedInv, Unbooked
    <3>. QED
      BY <2>1, <3>1, <3>2, <3>3 DEF Booking
  <2>7. KeyInv'
    BY <2>1, <2>2, <2>4, <2>6
       DEF BookInv, KeyInv, BookedOrdersAreKeyed, Booked, OrderKey
  <2>8. IdInv'
    BY <2>1, <2>3 DEF BookInv, IdInv, OrderIds
  <2>9. OneBookedEntryPerDay'
    BY <2>1 DEF BookInv, OneBookedEntryPerDay
  <2>. QED
    BY <2>1, <2>5, <2>7, <2>8, <2>9 DEF BookInv, DayInv, FlightInv
<1>19. CASE FinishCycle
  <2>1. inflight = 0
    BY <1>19 DEF FinishCycle, TypeInv
  <2>. QED
    BY <1>19, <2>1, QuietBook
       DEF FinishCycle, LeaveCycle, Unbooked, Booking, stores, cycle, hand, broker, budgets
<1>20. CASE Crash
  <2>1. /\ pc' = "idle" /\ inflight' = 0
        /\ lost' = IF pc \in Unbooked THEN lost \union ({inflight} \ {0}) ELSE lost
        /\ UNCHANGED <<day, orders, status, next_id, consumed_entries, order_ledger>>
    BY <1>20 DEF Crash, LeaveCycle, stores, broker
  <2>2. /\ \A i \in lost' : i \in OrderIds
        /\ \A i \in lost' : i < next_id
    BY <2>1, FlightKnown DEF BookInv, IdInv, TypeInv, TypeOK, OrderIds
  <2>3. Booked' \subseteq Booked
    BY <2>1 DEF Booked, Unbooked, TypeInv, TypeOK, Order, OrderIds
  <2>4. IdInv'
    BY <2>1, <2>2 DEF BookInv, IdInv, OrderIds
  <2>5. ConsumedInv' /\ KeyInv'
    BY <2>1, <2>3
       DEF BookInv, ConsumedInv, KeyInv, BookedOrdersAreKeyed, OrderKey, Unbooked
  <2>6. OneBookedEntryPerDay'
    BY <2>1 DEF BookInv, OneBookedEntryPerDay
  <2>. QED
    BY <2>1, <2>4, <2>5, <2>6 DEF BookInv, DayInv, FlightInv
<1>21. ASSUME NEW o \in orders, OrderMoves(o) PROVE BookInv'
  BY <1>21
     DEF OrderMoves, BookInv, IdInv, DayInv, FlightInv, ConsumedInv, KeyInv,
         BookedOrdersAreKeyed, OneBookedEntryPerDay, Booked, Unbooked, TypeInv, stores,
         cycle, hand, broker, budgets
<1>22. ASSUME NEW s \in Symbols, ClosePosition(s) PROVE BookInv'
  <2>1. /\ \A i \in OrderIds : status'[i] = status[i] \/ status'[i] = "closed"
        /\ UNCHANGED <<day, orders, next_id, lost, pc, current, inflight,
                        consumed_entries, order_ledger>>
    BY <1>22 DEF ClosePosition, stores, hand
  <2>2. Booked' = Booked
    BY <2>1 DEF Booked
  <2>3. DayInv'
    BY <2>1 DEF BookInv, DayInv, TypeInv, TypeOK, Order
  <2>. QED
    BY <2>1, <2>2, <2>3 DEF BookInv, IdInv, FlightInv, ConsumedInv, KeyInv,
                            BookedOrdersAreKeyed, OneBookedEntryPerDay
<1>23. ASSUME NEW s \in Symbols, Age(s) PROVE BookInv'
  BY <1>23
     DEF Age, BookInv, IdInv, DayInv, FlightInv, ConsumedInv, KeyInv,
         BookedOrdersAreKeyed, OneBookedEntryPerDay, Booked, Unbooked, TypeInv, stores,
         cycle, hand, broker, budgets
<1>24. CASE NextDay
  <2>1. /\ pc = "idle" /\ day' = day + 1 /\ inflight = 0
        /\ UNCHANGED <<orders, next_id, lost, pc, current, inflight,
                        consumed_entries, order_ledger>>
    BY <1>24 DEF NextDay, hand, TypeInv
  <2>2. Booked' = Booked
    BY <2>1 DEF Booked
  <2>3. \A i \in OrderIds : status'[i] # "open"
    BY <1>24 DEF NextDay
  <2>4. DayInv'
    <3>1. \A o \in orders : o.id \in OrderIds /\ o.day \in Int /\ o.day <= day /\ day \in Int
      BY DEF BookInv, DayInv, TypeInv, TypeOK, Order, Days
    <3>. QED
      BY <2>1, <2>3, <3>1 DEF DayInv
  <2>. QED
    BY <2>1, <2>2, <2>4
       DEF BookInv, IdInv, FlightInv, ConsumedInv, KeyInv, Unbooked,
                            BookedOrdersAreKeyed, OneBookedEntryPerDay
<1>25. CASE UNCHANGED vars
  BY <1>25
     DEF BookInv, IdInv, DayInv, FlightInv, ConsumedInv, KeyInv,
         BookedOrdersAreKeyed, OneBookedEntryPerDay, Booked, Unbooked, TypeInv,
         OrderKey, vars, stores, cycle, hand, broker, budgets
<1>. QED
  BY <1>1, <1>2, <1>3, <1>4, <1>5, <1>6, <1>7, <1>8, <1>9, <1>10, <1>11, <1>12,
     <1>13, <1>14, <1>15, <1>16, <1>17, <1>18, <1>19, <1>20, <1>21, <1>22, <1>23,
     <1>24, <1>25
     DEF Next, CycleStep

(* The booking invariant holds always. *)
THEOREM BookingSafe == Spec => []BookInv
<1>1. Init => BookInv
  BY DEF Init, BookInv, IdInv, DayInv, FlightInv, ConsumedInv, KeyInv, Booked,
         BookedOrdersAreKeyed, OneBookedEntryPerDay, Unbooked
<1>2. TypeInv /\ TypeInv' /\ BookInv /\ [Next]_vars => BookInv'
  BY BookStep
<1>. QED
  BY <1>1, <1>2, TypeCorrect, PTL DEF Spec

(* However the process crashes, and whichever calls raise, the orders it   *)
(* did not lose track of are at most one per symbol and day.               *)
THEOREM OneEntry == Spec => []OneBookedEntryPerDay
<1>1. BookInv => OneBookedEntryPerDay
  BY DEF BookInv
<1>. QED
  BY <1>1, BookingSafe, PTL

(* Every booked order is in order_ledger under its idempotency key. *)
THEOREM Keyed == Spec => []BookedOrdersAreKeyed
<1>1. BookInv => BookedOrdersAreKeyed
  BY DEF BookInv, KeyInv
<1>. QED
  BY <1>1, BookingSafe, PTL

-----------------------------------------------------------------------------
(* Stacking                                                                *)

(* A position of s left over from an earlier day. *)
HeldOver(s) == \E o \in orders : o.sym = s /\ o.day < day /\ status[o.id] = "filled"

(* The consumed set protects a symbol within the day; from one day to the  *)
(* next it is protected by two reads of the positions, the refresh of the  *)
(* symbol states and the read before the submit, and one may fail.         *)
ScreenInv ==
  /\ pc \in {"next"} \union InHand /\ read_faults = 0 =>
       \A s \in Symbols : HeldOver(s) => symbol_state[s] # "FLAT"
  /\ pc = "guard" /\ read_faults <= 1 =>
       (HeldOver(current.sym) => symbol_state[current.sym] # "FLAT")
  /\ pc \in {"submit"} \union Unbooked /\ read_faults <= 1 => ~HeldOver(current.sym)

StackInv == ScreenInv /\ BookedEntriesDoNotStack

(* Within a day no position becomes a left-over one. *)
LEMMA HeldOverKept ==
  ASSUME day' = day,
         \A o \in orders' : o.day < day =>
           o \in orders /\ (status'[o.id] = "filled" => status[o.id] = "filled")
  PROVE  \A s : HeldOver(s)' => HeldOver(s)
BY DEF HeldOver

(* A step that brings no live order of its own keeps the orders unstacked. *)
LEMMA UnstackedKept ==
  ASSUME BookedEntriesDoNotStack, read_faults <= read_faults',
         read_faults \in Nat, read_faults' \in Nat,
         \A o \in orders' : Alive(o)' /\ o.id \notin lost' =>
           o \in orders /\ Alive(o) /\ o.id \notin lost
  PROVE  BookedEntriesDoNotStack'
BY DEF BookedEntriesDoNotStack

(* What most steps of a cycle do to the screened symbols: nothing. *)
LEMMA ScreenKept ==
  ASSUME TypeInv, ScreenInv, day' = day, UNCHANGED <<current, read_faults>>,
         \A s : HeldOver(s)' => HeldOver(s),
         \A s \in Symbols : symbol_state[s] # "FLAT" => symbol_state'[s] # "FLAT",
         pc' \in {"next"} \union InHand => pc \in {"next"} \union InHand,
         pc' = "guard" => pc = "guard",
         pc' \in {"submit"} \union Unbooked => pc \in {"submit"} \union Unbooked
  PROVE  ScreenInv'
<1>1. pc = "guard" => current.sym \in Symbols
  BY DEF TypeInv, TypeOK, InHand, Intent
<1>. QED
  BY <1>1 DEF ScreenInv

(* Every step keeps the orders unstacked. *)
LEMMA StackStep ==
  ASSUME TypeInv, BookInv, StackInv, [Next]_vars
  PROVE  StackInv'
<1>1. CASE CycleMarketClosed
  <2>1. /\ UNCHANGED <<day, orders, status, lost>> /\ pc' \notin {"next"} \union InHand
        /\ read_faults \in Nat /\ read_faults' \in Nat /\ read_faults <= read_faults'
    BY <1>1
       DEF CycleMarketClosed, InHand, TypeInv, TypeOK, stores, cycle, hand, broker,
           budgets
  <2>. QED
    BY <2>1, UnstackedKept DEF StackInv, ScreenInv, InHand, Unbooked, Alive
<1>2. CASE CycleOpens
  <2>1. /\ UNCHANGED <<day, orders, status, lost>> /\ pc' \notin {"next"} \union InHand
        /\ read_faults \in Nat /\ read_faults' \in Nat /\ read_faults <= read_faults'
    BY <1>2
       DEF CycleOpens, ReadCapsLedger, ReadFault, InHand, TypeInv, TypeOK, stores,
           cycle, hand, broker, budgets
  <2>. QED
    BY <2>1, UnstackedKept DEF StackInv, ScreenInv, InHand, Unbooked, Alive
<1>3. ASSUME NEW s \in Symbols, NEW q \in Qtys, CreateIntent(s, q) PROVE StackInv'
  <2>1. /\ UNCHANGED <<day, orders, status, lost>> /\ pc' \notin {"next"} \union InHand
        /\ read_faults \in Nat /\ read_faults' \in Nat /\ read_faults <= read_faults'
    BY <1>3
       DEF CreateIntent, InHand, TypeInv, TypeOK, stores, cycle, hand, broker,
           budgets
  <2>. QED
    BY <2>1, UnstackedKept DEF StackInv, ScreenInv, InHand, Unbooked, Alive
<1>4. CASE EvaluatePositions
  <2>1. /\ UNCHANGED <<day, orders, status, lost>> /\ pc' \notin {"next"} \union InHand
        /\ read_faults \in Nat /\ read_faults' \in Nat /\ read_faults <= read_faults'
    BY <1>4
       DEF EvaluatePositions, InHand, TypeInv, TypeOK, stores, cycle, hand, broker,
           budgets
  <2>. QED
    BY <2>1, UnstackedKept DEF StackInv, ScreenInv, InHand, Unbooked, Alive
<1>5. CASE PopDue
  <2>1. /\ UNCHANGED <<day, orders, status, lost>> /\ pc' \notin {"next"} \union InHand
        /\ read_faults \in Nat /\ read_faults' \in Nat /\ read_faults <= read_faults'
    BY <1>5
       DEF PopDue, InHand, TypeInv, TypeOK, stores, cycle, hand, broker, budgets
  <2>. QED
    BY <2>1, UnstackedKept DEF StackInv, ScreenInv, InHand, Unbooked, Alive
<1>6. CASE Screen
  <2>1. /\ UNCHANGED <<day, orders, status, lost>> /\ pc' = "next" /\ read_faults \in Nat /\ read_faults' \in Nat /\ read_faults <= read_faults'
    BY <1>6 DEF Screen, ReadFault, TypeInv, TypeOK, broker
  <2>2. ASSUME read_faults' = 0, NEW s \in Symbols, HeldOver(s)' PROVE symbol_state'[s] # "FLAT"
    <3>1. symbol_state' = ApplyOpenPositions(symbol_state)
      BY <1>6, <2>1, <2>2 DEF Screen, ReadFault
    <3>2. Held(s)
      BY <2>1, <2>2 DEF HeldOver, Held
    <3>. QED
      BY <3>1, <3>2 DEF ApplyOpenPositions
  <2>3. ScreenInv'
    BY <2>1, <2>2 DEF ScreenInv, Unbooked
  <2>. QED
    BY <2>1, <2>3, UnstackedKept DEF StackInv, Alive
<1>7. ASSUME NEW i \in batch, TakeIntent(i) PROVE StackInv'
  <2>1. /\ UNCHANGED <<day, orders, status, lost, symbol_state>> /\ pc = "next" /\ pc' = "guard"
        /\ current' = i /\ i.sym \in Symbols /\ read_faults \in Nat /\ read_faults' \in Nat /\ read_faults <= read_faults'
    BY <1>7 DEF TakeIntent, ReadFault, TypeInv, TypeOK, Intent, stores, broker
  <2>2. \A s : HeldOver(s)' <=> HeldOver(s)
    BY <2>1 DEF HeldOver
  <2>3. read_faults' <= 1 => (HeldOver(i.sym) => symbol_state[i.sym] # "FLAT")
    <3>1. CASE ~Held(i.sym)
      BY <3>1 DEF HeldOver, Held
    <3>2. CASE Held(i.sym) /\ ReadFault
      BY <2>1, <3>2 DEF ReadFault, StackInv, ScreenInv
    <3>. QED
      BY <1>7, <3>1, <3>2 DEF TakeIntent
  <2>4. ScreenInv'
    BY <2>1, <2>2, <2>3 DEF StackInv, ScreenInv, InHand, Unbooked
  <2>. QED
    BY <2>1, <2>4, UnstackedKept DEF StackInv, Alive
<1>8. ASSUME NEW i \in batch, SkipIntent(i) PROVE StackInv'
  <2>1. /\ UNCHANGED <<day, orders, status, lost, read_faults>> /\ read_faults \in Nat
        /\ pc \in {"next"} \union InHand /\ pc' = "next"
        /\ \A s \in Symbols : symbol_state[s] # "FLAT" => symbol_state'[s] # "FLAT"
    BY <1>8 DEF SkipIntent, InHand, TypeInv, TypeOK, stores, hand, broker, budgets
  <2>2. \A s : HeldOver(s)' => HeldOver(s)
    BY <2>1, HeldOverKept
  <2>3. ScreenInv'
    BY <2>1, <2>2 DEF StackInv, ScreenInv, Unbooked
  <2>. QED
    BY <2>1, <2>3, UnstackedKept DEF StackInv, Alive
<1>9. CASE AdmitIntent
  <2>1. /\ UNCHANGED <<day, orders, status, lost, symbol_state, current, read_faults>>
        /\ pc = "guard" /\ pc' = "submit" /\ symbol_state[current.sym] = "FLAT" /\ read_faults \in Nat
    BY <1>9
       DEF AdmitIntent, GuardsPass, TypeInv, TypeOK, stores, hand, broker, budgets
  <2>2. ScreenInv'
    BY <2>1 DEF StackInv, ScreenInv, HeldOver, InHand
  <2>. QED
    BY <2>1, <2>2, UnstackedKept DEF StackInv, Alive
<1>10. CASE RefuseIntent
  <2>1. /\ UNCHANGED <<day, orders, status, lost, read_faults>> /\ read_faults \in Nat
        /\ pc \in {"next"} \union InHand /\ pc' = "next"
        /\ \A s \in Symbols : symbol_state[s] # "FLAT" => symbol_state'[s] # "FLAT"
    BY <1>10
       DEF RefuseIntent, InHand, TypeInv, TypeOK, stores, hand, broker, budgets
  <2>2. \A s : HeldOver(s)' => HeldOver(s)
    BY <2>1, HeldOverKept
  <2>3. ScreenInv'
    BY <2>1, <2>2 DEF StackInv, ScreenInv, Unbooked
  <2>. QED
    BY <2>1, <2>3, UnstackedKept DEF StackInv, Alive
<1>11. CASE SubmitAccepted
  <2> DEFINE new == [id |-> next_id, sym |-> current.sym, day |-> day, qty |-> current.qty]
  <2>1. /\ pc = "submit" /\ pc' = "record" /\ next_id \in OrderIds /\ read_faults \in Nat
        /\ orders' = orders \union {new} /\ status' = [status EXCEPT ![next_id] = "open"]
        /\ UNCHANGED <<day, lost, symbol_state, current, read_faults>>
    BY <1>11
       DEF SubmitAccepted, BrokerAccepts, TypeInv, TypeOK, OrderIds, stores,
           budgets
  <2>2. \A o \in orders : status'[o.id] = status[o.id] /\ o.id # next_id
    BY <2>1 DEF BookInv, IdInv, TypeInv, TypeOK, Order, OrderIds
  <2>3. \A s : HeldOver(s)' => HeldOver(s)
    BY <2>1, <2>2 DEF HeldOver, TypeInv, TypeOK, Days
  <2>4. ScreenInv'
    BY <2>1, <2>3, ScreenKept DEF StackInv, Unbooked, InHand
  <2>5. ASSUME read_faults <= 1, NEW o \in orders, Alive(o), o.id \notin lost, o.sym = current.sym
        PROVE  FALSE
    <3>1. CASE o.day = day
      BY <2>1, <2>5, <3>1 DEF BookInv, ConsumedInv, Booked, Unbooked
    <3>2. CASE o.day < day
      BY <2>1, <2>5, <3>2 DEF StackInv, ScreenInv, HeldOver, Alive, BookInv, DayInv
    <3>. QED
      BY <3>1, <3>2 DEF BookInv, DayInv, TypeInv, TypeOK, Order, Days
  <2>6. BookedEntriesDoNotStack'
    BY <2>1, <2>2, <2>5 DEF StackInv, BookedEntriesDoNotStack, Alive
  <2>. QED
    BY <2>4, <2>6 DEF StackInv
<1>12. CASE SubmitRaises
  <2>1. /\ pc = "submit" /\ pc' = "next" /\ next_id \in OrderIds /\ read_faults \in Nat
        /\ UNCHANGED <<day, symbol_state, read_faults>>
    BY <1>12 DEF SubmitRaises, IntentDone, TypeInv, TypeOK, OrderIds
  <2>2. /\ \A o \in orders : status'[o.id] = status[o.id]
        /\ \A o \in orders' : o \in orders \/ (o.day = day /\ o.id \in lost')
        /\ lost \subseteq lost'
    <3>1. CASE UNCHANGED <<broker, lost>>
      BY <3>1 DEF broker
    <3>2. CASE BrokerAccepts /\ lost' = lost \union {next_id}
      <4>1. \A o \in orders : o.id # next_id /\ o.id \in OrderIds
        BY <2>1 DEF BookInv, IdInv, TypeInv, TypeOK, Order, OrderIds
      <4>2. \A o \in orders : status'[o.id] = status[o.id]
        BY <3>2, <4>1 DEF BrokerAccepts, TypeInv, TypeOK
      <4>3. \A o \in orders' : o \in orders \/ (o.day = day /\ o.id = next_id)
        BY <3>2 DEF BrokerAccepts
      <4>. QED
        BY <3>2, <4>2, <4>3
    <3>. QED
      BY <1>12, <3>1, <3>2 DEF SubmitRaises
  <2>3. \A s : HeldOver(s)' => HeldOver(s)
    BY <2>1, <2>2 DEF HeldOver, TypeInv, TypeOK, Days
  <2>4. ScreenInv'
    BY <2>1, <2>3 DEF StackInv, ScreenInv, Unbooked, InHand
  <2>. QED
    BY <2>1, <2>2, <2>4, UnstackedKept DEF StackInv, Alive
<1>13. CASE SubmitDry
  <2>1. /\ UNCHANGED <<day, orders, status, lost, current, read_faults>> /\ read_faults \in Nat
        /\ pc \in {"submit"} \union Unbooked /\ pc' \in {"book"} \union Unbooked
        /\ \A s \in Symbols : symbol_state[s] # "FLAT" => symbol_state'[s] # "FLAT"
    BY <1>13 DEF SubmitDry, Unbooked, TypeInv, TypeOK, stores, hand, broker, budgets
  <2>2. \A s : HeldOver(s)' => HeldOver(s)
    BY <2>1, HeldOverKept
  <2>3. ScreenInv'
    BY <2>1, <2>2, ScreenKept DEF StackInv, Unbooked, InHand
  <2>. QED
    BY <2>1, <2>3, UnstackedKept DEF StackInv, Alive
<1>14. CASE RecordOrder
  <2>1. /\ UNCHANGED <<day, orders, status, lost, current, read_faults>> /\ read_faults \in Nat
        /\ pc \in {"submit"} \union Unbooked /\ pc' \in {"book"} \union Unbooked
        /\ \A s \in Symbols : symbol_state[s] # "FLAT" => symbol_state'[s] # "FLAT"
    BY <1>14
       DEF RecordOrder, Unbooked, TypeInv, TypeOK, stores, hand, broker, budgets
  <2>2. \A s : HeldOver(s)' => HeldOver(s)
    BY <2>1, HeldOverKept
  <2>3. ScreenInv'
    BY <2>1, <2>2, ScreenKept DEF StackInv, Unbooked, InHand
  <2>. QED
    BY <2>1, <2>3, UnstackedKept DEF StackInv, Alive
<1>15. CASE EnterSymbol
  <2>1. /\ UNCHANGED <<day, orders, status, lost, current, read_faults>> /\ read_faults \in Nat
        /\ pc \in {"submit"} \union Unbooked /\ pc' \in {"book"} \union Unbooked
        /\ \A s \in Symbols : symbol_state[s] # "FLAT" => symbol_state'[s] # "FLAT"
    BY <1>15
       DEF EnterSymbol, Unbooked, TypeInv, TypeOK, stores, hand, broker, budgets
  <2>2. \A s : HeldOver(s)' => HeldOver(s)
    BY <2>1, HeldOverKept
  <2>3. ScreenInv'
    BY <2>1, <2>2, ScreenKept DEF StackInv, Unbooked, InHand
  <2>. QED
    BY <2>1, <2>3, UnstackedKept DEF StackInv, Alive
<1>16. CASE ConsumeEntry
  <2>1. /\ UNCHANGED <<day, orders, status, lost, current, read_faults>> /\ read_faults \in Nat
        /\ pc \in {"submit"} \union Unbooked /\ pc' \in {"book"} \union Unbooked
        /\ \A s \in Symbols : symbol_state[s] # "FLAT" => symbol_state'[s] # "FLAT"
    BY <1>16
       DEF ConsumeEntry, Unbooked, TypeInv, TypeOK, stores, hand, broker, budgets
  <2>2. \A s : HeldOver(s)' => HeldOver(s)
    BY <2>1, HeldOverKept
  <2>3. ScreenInv'
    BY <2>1, <2>2, ScreenKept DEF StackInv, Unbooked, InHand
  <2>. QED
    BY <2>1, <2>3, UnstackedKept DEF StackInv, Alive
<1>17. CASE BookOrder
  <2>1. /\ UNCHANGED <<day, orders, status, lost, read_faults>> /\ read_faults \in Nat
        /\ pc \in {"next"} \union InHand /\ pc' = "next"
        /\ \A s \in Symbols : symbol_state[s] # "FLAT" => symbol_state'[s] # "FLAT"
    BY <1>17
       DEF BookOrder, BookLive, BookPaper, IntentDone, InHand, TypeInv, TypeOK,
           stores, hand, broker, budgets
  <2>2. \A s : HeldOver(s)' => HeldOver(s)
    BY <2>1, HeldOverKept
  <2>3. ScreenInv'
    BY <2>1, <2>2 DEF StackInv, ScreenInv, Unbooked
  <2>. QED
    BY <2>1, <2>3, UnstackedKept DEF StackInv, Alive
<1>18. CASE BookingRaises
  <2>1. /\ UNCHANGED <<day, orders, status, read_faults>> /\ read_faults \in Nat
        /\ pc \in InHand /\ pc' = "next" /\ lost \subseteq lost'
        /\ \A s \in Symbols : symbol_state[s] # "FLAT" => symbol_state'[s] # "FLAT"
    BY <1>18 DEF BookingRaises, IntentDone, InHand, TypeInv, TypeOK, broker
  <2>2. \A s : HeldOver(s)' => HeldOver(s)
    BY <2>1, HeldOverKept
  <2>3. ScreenInv'
    BY <2>1, <2>2 DEF StackInv, ScreenInv, Unbooked
  <2>. QED
    BY <2>1, <2>3, UnstackedKept DEF StackInv, Alive
<1>19. CASE FinishCycle
  <2>1. /\ UNCHANGED <<orders, status, read_faults>> /\ read_faults \in Nat
        /\ pc' = "idle" /\ lost \subseteq lost'
    BY <1>19 DEF FinishCycle, LeaveCycle, TypeInv, TypeOK, broker, budgets
  <2>. QED
    BY <2>1, UnstackedKept DEF StackInv, ScreenInv, InHand, Unbooked, Alive
<1>20. CASE Crash
  <2>1. /\ UNCHANGED <<orders, status, read_faults>> /\ read_faults \in Nat
        /\ pc' = "idle" /\ lost \subseteq lost'
    BY <1>20 DEF Crash, LeaveCycle, TypeInv, TypeOK, broker, budgets
  <2>. QED
    BY <2>1, UnstackedKept DEF StackInv, ScreenInv, InHand, Unbooked, Alive
<1>21. ASSUME NEW o \in orders, OrderMoves(o) PROVE StackInv'
  <2>1. /\ UNCHANGED <<day, orders, lost, read_faults, pc, current, symbol_state>>
        /\ read_faults \in Nat
        /\ \A p \in orders : p.day < day /\ status'[p.id] = "filled" => status[p.id] = "filled"
    BY <1>21
       DEF OrderMoves, BookInv, IdInv, DayInv, TypeInv, TypeOK, Order, Statuses,
           stores, hand, broker, budgets
  <2>2. \A s : HeldOver(s)' => HeldOver(s)
    BY <2>1, HeldOverKept
  <2>3. ScreenInv'
    BY <2>1, <2>2, ScreenKept DEF StackInv
  <2>4. \A p \in orders : Alive(p)' => Alive(p)
    BY <1>21, <2>1 DEF OrderMoves, Alive, BookInv, IdInv, TypeInv, TypeOK, Order
  <2>. QED
    BY <2>1, <2>3, <2>4, UnstackedKept DEF StackInv
<1>22. ASSUME NEW t \in Symbols, ClosePosition(t) PROVE StackInv'
  <2>1. /\ UNCHANGED <<day, orders, lost, read_faults, pc, current, symbol_state>>
        /\ read_faults \in Nat
        /\ \A p \in orders : status'[p.id] = "filled" => status[p.id] = "filled"
    BY <1>22
       DEF ClosePosition, BookInv, IdInv, DayInv, TypeInv, TypeOK, Order, Statuses,
           stores, hand, broker, budgets
  <2>2. \A s : HeldOver(s)' => HeldOver(s)
    BY <2>1, HeldOverKept
  <2>3. ScreenInv'
    BY <2>1, <2>2, ScreenKept DEF StackInv
  <2>4. \A p \in orders : Alive(p)' => Alive(p)
    BY <1>22, <2>1 DEF ClosePosition, Alive, BookInv, IdInv, TypeInv, TypeOK, Order
  <2>. QED
    BY <2>1, <2>3, <2>4, UnstackedKept DEF StackInv
<1>23. ASSUME NEW t \in Symbols, Age(t) PROVE StackInv'
  <2>1. /\ UNCHANGED <<day, orders, lost, read_faults, pc, current, symbol_state>>
        /\ read_faults \in Nat
        /\ UNCHANGED status
    BY <1>23
       DEF Age, BookInv, IdInv, DayInv, TypeInv, TypeOK, Order, Statuses, stores,
           hand, broker, budgets
  <2>2. \A s : HeldOver(s)' => HeldOver(s)
    BY <2>1, HeldOverKept
  <2>3. ScreenInv'
    BY <2>1, <2>2, ScreenKept DEF StackInv
  <2>4. \A p \in orders : Alive(p)' => Alive(p)
    BY <1>23, <2>1 DEF Age, Alive, BookInv, IdInv, TypeInv, TypeOK, Order
  <2>. QED
    BY <2>1, <2>3, <2>4, UnstackedKept DEF StackInv
<1>24. CASE NextDay
  <2>1. /\ pc' = "idle" /\ UNCHANGED <<orders, lost, read_faults>> /\ read_faults \in Nat
        /\ \A i \in OrderIds : status'[i] \in {"open", "filled"} => status'[i] = status[i]
        /\ \A o \in orders : o.id \in OrderIds
    BY <1>24 DEF NextDay, TypeInv, TypeOK, Order, budgets
  <2>. QED
    BY <2>1, UnstackedKept DEF StackInv, ScreenInv, InHand, Unbooked, Alive, NextDay
<1>25. CASE UNCHANGED vars
  <2>1. /\ UNCHANGED <<day, orders, status, lost, read_faults, pc, current, symbol_state>>
        /\ read_faults \in Nat
    BY <1>25 DEF vars, TypeInv, TypeOK, stores, cycle, hand, broker, budgets
  <2>. QED
    BY <2>1, UnstackedKept DEF StackInv, ScreenInv, HeldOver, Alive
<1>. QED
  BY <1>1, <1>2, <1>3, <1>4, <1>5, <1>6, <1>7, <1>8, <1>9, <1>10, <1>11, <1>12,
     <1>13, <1>14, <1>15, <1>16, <1>17, <1>18, <1>19, <1>20, <1>21, <1>22, <1>23,
     <1>24, <1>25
     DEF Next, CycleStep

(* The stacking invariant holds always. *)
THEOREM StackSafe == Spec => []StackInv
<1>1. Init => StackInv
  BY DEF Init, StackInv, ScreenInv, BookedEntriesDoNotStack, InHand, Unbooked
<1>2. TypeInv /\ BookInv /\ StackInv /\ [Next]_vars => StackInv'
  BY StackStep
<1>. QED
  BY <1>1, <1>2, TypeCorrect, BookingSafe, PTL DEF Spec

(* With at most one failing position read, no symbol has two live entries  *)
(* that the process knows of, within a day or from one day to the next.    *)
THEOREM Unstacked == Spec => []BookedEntriesDoNotStack
<1>1. StackInv => BookedEntriesDoNotStack
  BY DEF StackInv
<1>. QED
  BY <1>1, StackSafe, PTL

-----------------------------------------------------------------------------
(***************************************************************************)
(* What the stores of the entry side promise each other: the queue and the *)
(* hands of the cycle, the symbol states and the broker, the caps ledger   *)
(* and the day's orders; and the refinement of EntrySlot, which needs them *)
(* all to agree.                                                           *)
(***************************************************************************)

-----------------------------------------------------------------------------
(* The queue                                                               *)

(* An intent is in the hands of a cycle only from its pop on. *)
QueueInv ==
  /\ QueuedOrInHand
  /\ batch # {} => pc \in {"screen", "next"} \union InHand

(* A step that queues nothing and takes nothing from the table keeps what  *)
(* is in hand out of the table, however much of it it drops.               *)
LEMMA QueueSame ==
  ASSUME TypeInv, QueueInv, UNCHANGED entry_intents, batch' \subseteq batch,
         current' \in {current, NoIntent},
         batch' # {} => pc' \in {"screen", "next"} \union InHand
  PROVE  QueueInv'
<1>1. \A i \in batch : i # NoIntent
  BY DEF TypeInv, TypeOK, Intent, NoIntent
<1>. QED
  BY <1>1 DEF QueueInv, QueuedOrInHand

(* With empty hands the table may change in any way. *)
LEMMA QueueFree ==
  ASSUME batch' = {}, current' = NoIntent
  PROVE  QueueInv'
BY DEF QueueInv, QueuedOrInHand

(* What is put in the table for the intent in hand, which is then let go,  *)
(* is not one of the rest of the batch.                                    *)
LEMMA QueueRequeue ==
  ASSUME TypeInv, QueueInv, pc \in InHand, Requeue, UNCHANGED batch,
         pc' = "next", current' = NoIntent
  PROVE  QueueInv'
<1>1. /\ current \in Intent /\ current # NoIntent
      /\ \A i \in batch : i \in Intent /\ i # NoIntent
  BY DEF TypeInv, TypeOK, InHand, Intent, NoIntent
<1>2. \A i \in batch : i.sym # current.sym
  BY <1>1 DEF QueueInv, QueuedOrInHand
<1>3. \A i \in batch : entry_intents'[i.sym] = NoIntent
  BY <1>1, <1>2 DEF Requeue, QueueInv, QueuedOrInHand, TypeInv, TypeOK, Intent
<1>4. \A i, j \in batch : i.sym = j.sym => i = j
  BY <1>1 DEF QueueInv, QueuedOrInHand
<1>. QED
  BY <1>1, <1>3, <1>4 DEF QueueInv, QueuedOrInHand

(* Every step keeps what is queued and what is in hand apart. *)
LEMMA QueueStep ==
  ASSUME TypeInv, QueueInv, [Next]_vars
  PROVE  QueueInv'
<1>1. CASE CycleMarketClosed \/ CycleOpens \/ (\E s \in Symbols, q \in Qtys : CreateIntent(s, q))
  <2>1. batch = {} /\ current = NoIntent
    BY <1>1 DEF CycleMarketClosed, CycleOpens, CreateIntent, QueueInv, TypeInv,
                TypeOK, InHand
  <2>2. UNCHANGED hand
    BY <1>1 DEF CycleMarketClosed, CycleOpens, CreateIntent
  <2>. QED
    BY <2>1, <2>2, QueueFree DEF hand
<1>2. CASE EvaluatePositions
  BY <1>2, QueueSame DEF EvaluatePositions, hand, QueueInv, InHand
<1>3. CASE PopDue
  <2>1. /\ pc' = "screen" /\ current' = NoIntent
        /\ batch' = {[sym |-> s, qty |-> entry_intents[s].qty] : s \in DueSymbols}
        /\ \A s \in DueSymbols : entry_intents'[s] = NoIntent
    BY <1>3 DEF PopDue, TypeInv, TypeOK, InHand, DueSymbols
  <2>2. \A i \in batch' : i.sym \in DueSymbols /\ i = [sym |-> i.sym, qty |-> entry_intents[i.sym].qty]
    BY <2>1
  <2>3. \A i \in batch' : i # NoIntent
    BY <2>2 DEF NoIntent
  <2>. QED
    BY <2>1, <2>2, <2>3 DEF QueueInv, QueuedOrInHand
<1>4. CASE Screen
  <2>1. batch' \subseteq batch
    BY <1>4 DEF Screen, Approvable
  <2>. QED
    BY <1>4, <2>1, QueueSame DEF Screen
<1>5. ASSUME NEW i \in batch, TakeIntent(i) PROVE QueueInv'
  <2>1. /\ pc' = "guard" /\ batch' = batch \ {i} /\ current' = i /\ entry_intents' = entry_intents
    BY <1>5 DEF TakeIntent, stores
  <2>2. \A j \in batch : j # NoIntent /\ entry_intents[j.sym] = NoIntent
    BY DEF QueueInv, QueuedOrInHand, TypeInv, TypeOK, Intent, NoIntent
  <2>3. \A j, k \in batch : j.sym = k.sym => j = k
    BY <2>2 DEF QueueInv, QueuedOrInHand
  <2>. QED
    BY <2>1, <2>2, <2>3 DEF QueueInv, QueuedOrInHand, InHand
<1>6. ASSUME NEW i \in batch, SkipIntent(i) PROVE QueueInv'
  BY <1>6, QueueSame DEF SkipIntent, stores
<1>7. CASE AdmitIntent \/ RefuseIntent
  BY <1>7, QueueSame DEF AdmitIntent, RefuseIntent, stores, hand, InHand
<1>8. CASE SubmitAccepted \/ SubmitDry \/ RecordOrder \/ EnterSymbol \/ ConsumeEntry
  BY <1>8, QueueSame
     DEF SubmitAccepted, SubmitDry, RecordOrder, EnterSymbol, ConsumeEntry, stores,
         hand, InHand
<1>9. CASE SubmitRaises
  BY <1>9, QueueRequeue DEF SubmitRaises, IntentDone, InHand
<1>10. CASE BookOrder
  BY <1>10, QueueSame DEF BookOrder, IntentDone, InHand
<1>11. CASE BookingRaises
  BY <1>11, QueueRequeue DEF BookingRaises, IntentDone, InHand
<1>12. CASE FinishCycle \/ Crash
  BY <1>12, QueueFree DEF FinishCycle, Crash, LeaveCycle
<1>13. CASE (\E o \in orders : OrderMoves(o)) \/ (\E s \in Symbols : ClosePosition(s)) \/ NextDay
  BY <1>13, QueueSame DEF OrderMoves, ClosePosition, NextDay, stores, hand, QueueInv
<1>14. ASSUME NEW s \in Symbols, Age(s) PROVE QueueInv'
  <2>1. entry_intents[s] # NoIntent /\ UNCHANGED <<pc, batch, current>>
    BY <1>14 DEF Age, NoIntent, hand
  <2>2. \A t \in Symbols : t # s => entry_intents'[t] = entry_intents[t]
    BY <1>14 DEF Age, TypeInv, TypeOK
  <2>3. \A i \in batch \union {current} : i # NoIntent => i.sym # s /\ i.sym \in Symbols
    BY <2>1 DEF QueueInv, QueuedOrInHand, TypeInv, TypeOK, Intent, NoIntent
  <2>4. \A i \in batch : i # NoIntent
    BY DEF TypeInv, TypeOK, Intent, NoIntent
  <2>. QED
    BY <2>1, <2>2, <2>3, <2>4 DEF QueueInv, QueuedOrInHand
<1>15. CASE UNCHANGED vars
  BY <1>15, QueueSame DEF vars, stores, hand, QueueInv
<1>. QED
  BY <1>1, <1>2, <1>3, <1>4, <1>5, <1>6, <1>7, <1>8, <1>9, <1>10, <1>11, <1>12,
     <1>13, <1>14, <1>15 DEF Next, CycleStep

(* Popping, requeueing after a failed booking, creating and ageing never   *)
(* leave an intent both in the table and in the hands of the cycle, nor    *)
(* twice in its hands.                                                     *)
THEOREM IntentsNotDuplicated == Spec => []QueuedOrInHand
<1>1. Init => QueueInv
  BY DEF Init, QueueInv, QueuedOrInHand
<1>2. TypeInv /\ QueueInv /\ [Next]_vars => QueueInv'
  BY QueueStep
<1>3. QueueInv => QueuedOrInHand
  BY DEF QueueInv
<1>. QED
  BY <1>1, <1>2, <1>3, TypeCorrect, PTL DEF Spec

-----------------------------------------------------------------------------
(* The symbol states                                                       *)

(* A live entry of today is never FLAT.  To survive the refresh from the   *)
(* positions a working one must not be EXITING either, and the state must  *)
(* be right one step before the order counts as booked.                    *)
ShownInv ==
  lost = {} /\ read_faults = 0 =>
    /\ \A o \in Booked : o.day = day /\ Alive(o) => symbol_state[o.sym] # "FLAT"
    /\ \A o \in Booked : o.day = day /\ status[o.id] = "open" =>
         symbol_state[o.sym] # "EXITING"
    /\ pc = "consume" => symbol_state[current.sym] = "ENTERING"

(* A step that books nothing, revives nothing and moves no symbol to FLAT  *)
(* or EXITING leaves the states showing what they showed.                  *)
LEMMA ShownSame ==
  ASSUME ShownInv, day' = day, Booked' \subseteq Booked,
         \A o \in Booked : status'[o.id] \in {"open", "filled"} =>
           status[o.id] = status'[o.id] \/ (status[o.id] = "open" /\ status'[o.id] = "filled"),
         \A o \in Booked : symbol_state'[o.sym] \notin {"FLAT", "EXITING"}
           \/ symbol_state'[o.sym] = symbol_state[o.sym],
         lost' = {} => lost = {}, read_faults' = 0 => read_faults = 0,
         pc' = "consume" => symbol_state'[current'.sym] = "ENTERING"
  PROVE  ShownInv'
BY DEF ShownInv, Alive

(* What is in flight while it is not booked is not among the booked.       *)
LEMMA NotYetBooked ==
  ASSUME TypeInv, BookInv, pc \in {"submit"} \union Unbooked,
         NEW o \in Booked, o.sym = current.sym, o.day = day
  PROVE  FALSE
BY DEF BookInv, ConsumedInv, Unbooked

(* Every step keeps the live entries of today shown. *)
LEMMA ShownStep ==
  ASSUME TypeInv, TypeInv', BookInv, StackInv, ShownInv, [Next]_vars
  PROVE  ShownInv'
<1>0. read_faults \in Nat /\ \A o \in Booked : o \in orders /\ o.sym \in Symbols /\ o.id \in OrderIds
  BY DEF TypeInv, TypeOK, Booked, Order
<1>1. CASE CycleMarketClosed \/ CycleOpens \/ (\E s \in Symbols, q \in Qtys : CreateIntent(s, q))
           \/ EvaluatePositions \/ PopDue
  <2>1. /\ UNCHANGED <<day, orders, status, lost, symbol_state, inflight>>
        /\ pc \notin Unbooked /\ pc' \notin Unbooked
        /\ read_faults' = 0 => read_faults = 0
    BY <1>1, <1>0
       DEF CycleMarketClosed, CycleOpens, ReadCapsLedger, ReadFault, CreateIntent,
           EvaluatePositions, PopDue, stores, hand, broker, budgets, Unbooked
  <2>2. Booked' = Booked
    BY <2>1 DEF Booked
  <2>. QED
    BY <2>1, <2>2, ShownSame DEF Unbooked
<1>2. CASE Screen
  <2>1. /\ UNCHANGED <<day, orders, status, lost>> /\ pc = "screen" /\ pc' = "next"
        /\ read_faults' = 0 =>
             read_faults = 0 /\ symbol_state' = ApplyOpenPositions(symbol_state)
    BY <1>2, <1>0 DEF Screen, ReadFault, broker
  <2>2. Booked' = Booked
    BY <2>1 DEF Booked, Unbooked
  <2>3. ASSUME lost = {}, read_faults' = 0, NEW o \in Booked, o.day = day, Alive(o)
        PROVE  /\ symbol_state'[o.sym] # "FLAT"
               /\ status[o.id] = "open" => symbol_state'[o.sym] # "EXITING"
    <3>1. /\ symbol_state'[o.sym] =
               IF Held(o.sym) /\ symbol_state[o.sym] \in {"FLAT", "ENTERING"} THEN "OPEN"
               ELSE IF ~Held(o.sym) /\ symbol_state[o.sym] = "EXITING" THEN "FLAT"
               ELSE symbol_state[o.sym]
          /\ symbol_state[o.sym] # "FLAT"
          /\ status[o.id] = "open" => symbol_state[o.sym] # "EXITING"
      BY <2>1, <2>3, <1>0 DEF ApplyOpenPositions, ShownInv
    <3>2. status[o.id] = "filled" => Held(o.sym)
      BY <1>0 DEF Held
    <3>. QED
      BY <3>1, <3>2, <2>3 DEF Alive
  <2>. QED
    BY <2>1, <2>2, <2>3 DEF ShownInv, Alive
<1>3. CASE (\E i \in batch : TakeIntent(i) \/ SkipIntent(i)) \/ AdmitIntent \/ RefuseIntent
  <2>1. /\ UNCHANGED <<day, orders, status, lost, symbol_state, inflight>>
        /\ pc \notin Unbooked /\ pc' \notin Unbooked
        /\ read_faults' = 0 => read_faults = 0
    BY <1>3, <1>0
       DEF TakeIntent, SkipIntent, AdmitIntent, RefuseIntent, ReadFault,
           stores, hand, broker, budgets, Unbooked
  <2>2. Booked' = Booked
    BY <2>1 DEF Booked
  <2>. QED
    BY <2>1, <2>2, ShownSame DEF Unbooked
<1>4. CASE SubmitAccepted
  <2>1. /\ pc = "submit" /\ pc' = "record" /\ inflight' = next_id
        /\ UNCHANGED <<day, lost, symbol_state, read_faults>>
        /\ BrokerAccepts
    BY <1>4 DEF SubmitAccepted, stores, budgets
  <2>2. \A o \in orders : o.id # next_id
    BY DEF BookInv, IdInv, TypeInv, TypeOK, Order, OrderIds
  <2>3. Booked' = Booked
    BY <2>1, <2>2 DEF Booked, Unbooked, BrokerAccepts
  <2>4. \A o \in orders : status'[o.id] = status[o.id]
    BY <2>1, <2>2 DEF BrokerAccepts, TypeInv, TypeOK, Order
  <2>. QED
    BY <2>1, <2>3, <2>4, <1>0, ShownSame
<1>5. CASE SubmitRaises
  <2>1. pc = "submit" /\ pc' = "next" /\ UNCHANGED <<day, symbol_state, read_faults>>
    BY <1>5 DEF SubmitRaises, IntentDone
  <2>2. CASE UNCHANGED <<broker, lost>>
    <3>1. Booked' = Booked
      BY <2>1, <2>2 DEF Booked, Unbooked, broker
    <3>. QED
      BY <2>1, <2>2, <3>1, ShownSame DEF broker
  <2>3. CASE lost' = lost \union {next_id}
    BY <2>3 DEF ShownInv
  <2>. QED
    BY <1>5, <2>2, <2>3 DEF SubmitRaises
<1>6. CASE SubmitDry \/ RecordOrder
  <2>1. /\ UNCHANGED <<day, orders, status, lost, symbol_state, inflight, read_faults>>
        /\ pc \in {"submit", "record"} /\ pc' \in {"enter", "book"}
        /\ pc' = "book" => ~live_active
    BY <1>6 DEF SubmitDry, RecordOrder, stores, hand, broker, budgets
  <2>2. Booked' \subseteq Booked
    BY <2>1 DEF Booked, Unbooked, TypeInv, TypeOK, Order, OrderIds
  <2>. QED
    BY <2>1, <2>2, <1>0, ShownSame
<1>7. CASE EnterSymbol
  <2>1. /\ UNCHANGED <<day, orders, status, lost, inflight, current, read_faults>>
        /\ pc = "enter" /\ pc' = "consume"
        /\ symbol_state' = [symbol_state EXCEPT ![current.sym] = "ENTERING"]
        /\ current.sym \in Symbols
    BY <1>7
       DEF EnterSymbol, hand, broker, budgets, TypeInv, TypeOK, InHand, Intent
  <2>2. Booked' = Booked
    BY <2>1 DEF Booked, Unbooked
  <2>3. \A s \in Symbols :
          symbol_state'[s] = IF s = current.sym THEN "ENTERING" ELSE symbol_state[s]
    BY <2>1 DEF TypeInv, TypeOK
  <2>. QED
    BY <2>1, <2>2, <2>3, <1>0, ShownSame
<1>8. CASE ConsumeEntry
  <2>1. /\ UNCHANGED <<day, orders, status, lost, symbol_state, inflight, current, read_faults>>
        /\ pc = "consume" /\ pc' = "book"
    BY <1>8 DEF ConsumeEntry, hand, broker, budgets
  <2>2. \A o \in Booked' : o \in Booked \/ o.sym = current.sym
    BY <2>1 DEF Booked, Unbooked, BookInv, IdInv, FlightInv, TypeInv, TypeOK, Order, OrderIds
  <2>. QED
    BY <2>1, <2>2 DEF ShownInv, Alive
<1>9. CASE BookOrder
  <2>1. /\ UNCHANGED <<day, orders, status, lost, read_faults>>
        /\ pc = "book" /\ pc' = "next" /\ current.sym \in Symbols
    BY <1>9
       DEF BookOrder, IntentDone, broker, TypeInv, TypeOK, InHand, Intent
  <2>2. Booked' = Booked
    BY <2>1 DEF Booked, Unbooked
  <2>3. \A s \in Symbols : symbol_state'[s] = "OPEN" \/ symbol_state'[s] = symbol_state[s]
    BY <1>9 DEF BookOrder, BookLive, BookPaper, TypeInv, TypeOK
  <2>. QED
    BY <2>1, <2>2, <2>3, <1>0, ShownSame
<1>10. CASE BookingRaises
  <2>1. /\ UNCHANGED <<day, orders, status, read_faults>>
        /\ pc \in {"record", "enter", "consume", "book"} /\ pc' = "next"
        /\ current.sym \in Symbols /\ inflight' = 0
    BY <1>10
       DEF BookingRaises, IntentDone, broker, TypeInv, TypeOK, InHand, Intent
  <2>2. \A s \in Symbols : symbol_state'[s] = "ENTERING" \/ symbol_state'[s] = symbol_state[s]
    BY <1>10 DEF BookingRaises, TypeInv, TypeOK
  <2>3. lost' = lost \/ lost' # {}
    BY <1>10 DEF BookingRaises
  <2>4. ASSUME lost' = lost, lost = {}, read_faults = 0,
               NEW o \in Booked', o \notin Booked, o.day = day
        PROVE  symbol_state'[o.sym] = "ENTERING"
    <3>1. pc \in Unbooked /\ inflight # 0 /\ o.id = inflight
      BY <2>1, <2>4 DEF Booked, TypeInv, TypeOK, Order, OrderIds
    <3>2. o.sym = current.sym
      BY <3>1, <2>1, <2>4 DEF Booked, BookInv, IdInv, FlightInv
    <3>3. pc = "consume" /\ symbol_state' = symbol_state
      BY <1>10, <3>1, <2>4 DEF BookingRaises, BookInv, ConsumedInv, Unbooked
    <3>. QED
      BY <3>2, <3>3, <2>4 DEF ShownInv
  <2>5. \A o \in Booked' : o \in orders /\ o.sym \in Symbols
    BY <2>1 DEF Booked, TypeInv, TypeOK, Order
  <2>6. SUFFICES ASSUME lost' = lost, lost = {}, read_faults = 0 PROVE ShownInv'
    BY <2>1, <2>3 DEF ShownInv
  <2>7. ASSUME NEW o \in Booked', o.day = day
        PROVE  /\ Alive(o)' => symbol_state'[o.sym] # "FLAT"
               /\ status'[o.id] = "open" => symbol_state'[o.sym] # "EXITING"
    <3>1. CASE o \in Booked
      BY <2>1, <2>2, <2>5, <2>6, <2>7, <3>1 DEF ShownInv, Alive
    <3>. QED
      BY <2>4, <2>6, <2>7, <3>1
  <2>. QED
    BY <2>1, <2>7 DEF ShownInv
<1>11. CASE FinishCycle
  <2>1. PICK trimmed \in SUBSET HeldSymbols :
          symbol_state' = [s \in Symbols |->
            IF s \in trimmed THEN "EXITING" ELSE symbol_state[s]]
    BY <1>11 DEF FinishCycle
  <2>2. /\ UNCHANGED <<day, orders, status, lost, read_faults>>
        /\ pc = "next" /\ pc' = "idle"
    BY <1>11 DEF FinishCycle, LeaveCycle, broker, budgets
  <2>3. Booked' = Booked
    BY <2>2 DEF Booked, Unbooked
  <2>4. ASSUME lost = {}, read_faults = 0, NEW o \in Booked, status[o.id] = "open"
        PROVE  o.sym \notin trimmed
    <3>1. o.sym \in trimmed => \E p \in orders : p.sym = o.sym /\ status[p.id] = "filled"
      BY DEF HeldSymbols, Held
    <3>2. \A p \in orders : p.sym = o.sym /\ status[p.id] = "filled" => p = o
      BY <2>4 DEF StackInv, BookedEntriesDoNotStack, Alive, Booked
    <3>. QED
      BY <3>1, <3>2, <2>4
  <2>. QED
    BY <2>1, <2>2, <2>3, <2>4, <1>0 DEF ShownInv, Alive
<1>12. CASE Crash
  <2>1. /\ UNCHANGED <<day, orders, status, symbol_state, read_faults>>
        /\ pc' = "idle" /\ inflight' = 0
        /\ lost' = IF pc \in Unbooked THEN lost \union ({inflight} \ {0}) ELSE lost
    BY <1>12 DEF Crash, LeaveCycle, stores, broker
  <2>2. Booked' \subseteq Booked
    BY <2>1 DEF Booked, Unbooked, TypeInv, TypeOK, Order, OrderIds
  <2>. QED
    BY <2>1, <2>2, ShownSame
<1>13. CASE (\E o \in orders : OrderMoves(o)) \/ (\E s \in Symbols : ClosePosition(s))
  <2>1. /\ UNCHANGED <<day, orders, lost, symbol_state, inflight, current, read_faults, pc>>
    BY <1>13 DEF OrderMoves, ClosePosition, stores, hand, budgets
  <2>2. \A i \in OrderIds : status'[i] \in {"open", "filled"} =>
          status[i] = status'[i] \/ (status[i] = "open" /\ status'[i] = "filled")
    BY <1>13 DEF OrderMoves, ClosePosition, TypeInv, TypeOK, Order
  <2>3. Booked' = Booked
    BY <2>1 DEF Booked
  <2>4. SUFFICES ASSUME lost = {}, read_faults = 0 PROVE ShownInv'
    BY <2>1 DEF ShownInv
  <2>. QED
    BY <2>1, <2>2, <2>3, <2>4, <1>0 DEF ShownInv, Alive
<1>14. CASE (\E s \in Symbols : Age(s)) \/ UNCHANGED vars
  <2>1. UNCHANGED <<day, orders, status, lost, symbol_state, inflight, current, read_faults, pc>>
    BY <1>14 DEF Age, vars, stores, hand, broker, budgets
  <2>2. Booked' = Booked
    BY <2>1 DEF Booked
  <2>. QED
    BY <2>1, <2>2 DEF ShownInv, Alive
<1>15. CASE NextDay
  <2>1. /\ pc = "idle" /\ pc' = "idle" /\ day' = day + 1 /\ UNCHANGED <<orders, lost>>
    BY <1>15 DEF NextDay
  <2>2. \A o \in Booked' : o.day # day'
    BY <2>1 DEF Booked, BookInv, DayInv, TypeInv, TypeOK, Order, Days
  <2>. QED
    BY <2>1, <2>2 DEF ShownInv
<1>. QED
  BY <1>1, <1>2, <1>3, <1>4, <1>5, <1>6, <1>7, <1>8, <1>9, <1>10, <1>11, <1>12,
     <1>13, <1>14, <1>15 DEF Next, CycleStep

(* While nothing was lost and every position was read, a symbol with a     *)
(* live entry of today is not FLAT: neither the refresh of the states nor  *)
(* the trims, nor a crash between the state and the consumed mark, hide it. *)
THEOREM ExposureShown == Spec => []FlatMeansNoExposure
<1>1. Init => ShownInv
  BY DEF Init, ShownInv, Booked, Unbooked
<1>2. TypeInv /\ TypeInv' /\ BookInv /\ StackInv /\ ShownInv /\ [Next]_vars => ShownInv'
  BY ShownStep
<1>3. ShownInv => FlatMeansNoExposure
  BY DEF ShownInv, FlatMeansNoExposure
<1>. QED
  BY <1>1, <1>2, <1>3, TypeCorrect, BookingSafe, StackSafe, PTL DEF Spec

-----------------------------------------------------------------------------
(* The caps ledger                                                         *)

OfDay(d) == {o \in orders : o.day = d}

(* The orders of today that a set of ids does not know, but for the one    *)
(* that is just being booked.                                              *)
Uncounted(ids) == {o \in orders : o.day = day /\ o.id \notin ids /\ o.id # inflight}

(* The cap is compared with what the cycle read from the ledger, which     *)
(* lacks at most one order per crash and per raising call; what the cycle  *)
(* adds in memory follows.  The cap itself is inductive with these.        *)
CapsInv ==
  /\ IsFiniteSet(orders)
  /\ Cardinality(Uncounted(live_ledger)) <= crashes + faults
  /\ read_faults = 0 /\ pc # "idle" =>
       Cardinality(Uncounted(caps_entries)) <= crashes + faults
  /\ read_faults = 0 /\ pc = "submit" /\ live_active =>
       Cardinality(caps_entries) + 1 <= MaxOrdersPerDay
  /\ DailyOrderCap

(* A set with one element more, at most, has one element more, at most. *)
LEMMA AtMostOneMore ==
  ASSUME NEW S, NEW T, NEW x, IsFiniteSet(S), T \subseteq S \union {x}
  PROVE  /\ IsFiniteSet(T) /\ Cardinality(T) \in Nat /\ Cardinality(S) \in Nat
         /\ Cardinality(T) <= Cardinality(S) + 1
<1>0. Cardinality(S) \in Nat
  BY FS_CardinalityType
<1>1. /\ IsFiniteSet(S \union {x}) /\ Cardinality(S) \in Nat
      /\ Cardinality(S \union {x}) <= Cardinality(S) + 1
  BY <1>0, FS_AddElement
<1>2. /\ IsFiniteSet(T) /\ Cardinality(T) <= Cardinality(S \union {x})
      /\ Cardinality(S \union {x}) \in Nat
  BY <1>1, FS_Subset, FS_CardinalityType
<1>3. Cardinality(T) \in Nat
  BY <1>2, FS_CardinalityType
<1>. QED
  BY <1>1, <1>2, <1>3

(* A subset of a finite set is finite, and not larger. *)
LEMMA NoMore ==
  ASSUME NEW S, NEW T, IsFiniteSet(S), T \subseteq S
  PROVE  /\ IsFiniteSet(T) /\ Cardinality(T) \in Nat /\ Cardinality(S) \in Nat
         /\ Cardinality(T) <= Cardinality(S)
BY FS_Subset, FS_CardinalityType

(* The orders of today are those the cycle has counted, at most one per id *)
(* in its memory, and the uncounted ones.                                  *)
LEMMA TodayCounted ==
  ASSUME TypeInv, BookInv, CapsInv, inflight = 0
  PROVE  /\ Cardinality(caps_entries) \in Nat /\ Cardinality(Uncounted(caps_entries)) \in Nat
         /\ Cardinality(OfDay(day)) \in Nat
         /\ Cardinality(OfDay(day)) <=
              Cardinality(caps_entries) + Cardinality(Uncounted(caps_entries))
<1> DEFINE Counted == {o \in orders : o.day = day /\ o.id \in caps_entries}
           f == [o \in Counted |-> o.id]
<1>1. IsFiniteSet(caps_entries)
  <2>1. IsFiniteSet(OrderIds)
    BY FS_Interval, BoundsAssumption DEF OrderIds
  <2>. QED
    BY <2>1, FS_Subset DEF TypeInv, TypeOK
<1>2. f \in Injection(Counted, caps_entries)
  <2>1. \A o, p \in Counted : f[o] = f[p] => o = p
    BY DEF BookInv, IdInv
  <2>2. f \in [Counted -> caps_entries]
    OBVIOUS
  <2>. QED
    BY <2>1, <2>2 DEF Injection, IsInjective
<1>3. IsFiniteSet(Counted) /\ Cardinality(Counted) <= Cardinality(caps_entries)
  BY <1>1, <1>2, FS_Injection
<1>4. IsFiniteSet(Uncounted(caps_entries))
  BY NoMore, Uncounted(caps_entries) \subseteq orders DEF CapsInv, Uncounted
<1>5. OfDay(day) = Counted \union Uncounted(caps_entries)
  BY DEF OfDay, Uncounted, TypeInv, TypeOK, Order, OrderIds
<1> HIDE DEF Counted
<1>6. /\ IsFiniteSet(OfDay(day))
      /\ Cardinality(OfDay(day)) =
           Cardinality(Counted) + Cardinality(Uncounted(caps_entries))
             - Cardinality(Counted \cap Uncounted(caps_entries))
  BY <1>3, <1>4, <1>5, FS_Union
<1>7. /\ Cardinality(Counted \cap Uncounted(caps_entries)) \in Nat
      /\ Cardinality(Counted) \in Nat /\ Cardinality(caps_entries) \in Nat
      /\ Cardinality(Uncounted(caps_entries)) \in Nat
      /\ Cardinality(OfDay(day)) \in Nat
  BY <1>1, <1>3, <1>4, <1>6, FS_CardinalityType, FS_Intersection
<1>. QED
  BY <1>3, <1>6, <1>7

(* Arithmetic of two growing counters: what the smaller sum bounds, alone  *)
(* or with a cap, the larger one bounds.                                   *)
LEMMA Allowance ==
  ASSUME NEW a \in Nat, NEW b \in Nat, NEW c \in Nat, NEW e \in Nat, NEW m \in Nat,
         a + b <= c + e
  PROVE  /\ \A n \in Nat : n <= a + b => n <= c + e
         /\ \A n \in Nat : n <= m + a + b => n <= m + c + e
OBVIOUS

(* A step without an order, and with the ledger and what is in flight as   *)
(* they were, keeps the counts.                                            *)
LEMMA CapsQuiet ==
  ASSUME TypeInv, TypeInv', CapsInv, UNCHANGED <<orders, day, inflight, live_ledger>>,
         crashes + faults <= crashes' + faults',
         read_faults' = 0 => read_faults = 0,
         read_faults' = 0 /\ pc' # "idle" =>
           caps_entries' = live_ledger \/ (pc # "idle" /\ caps_entries' = caps_entries),
         read_faults' = 0 /\ pc' = "submit" /\ live_active' =>
           Cardinality(caps_entries') + 1 <= MaxOrdersPerDay
  PROVE  CapsInv'
<1>1. /\ \A n \in Nat : n <= crashes + faults => n <= crashes' + faults'
      /\ \A n \in Nat : n <= MaxOrdersPerDay + crashes + faults =>
                          n <= MaxOrdersPerDay + crashes' + faults'
  <2>1. /\ crashes \in Nat /\ faults \in Nat /\ crashes' \in Nat /\ faults' \in Nat
        /\ MaxOrdersPerDay \in Nat
    BY BoundsAssumption DEF TypeInv, TypeOK
  <2>. QED
    BY <2>1, Allowance
<1>3. /\ Uncounted(live_ledger)' = Uncounted(live_ledger)
      /\ caps_entries' = live_ledger => Uncounted(caps_entries)' = Uncounted(live_ledger)
      /\ caps_entries' = caps_entries => Uncounted(caps_entries)' = Uncounted(caps_entries)
  BY DEF Uncounted
<1>4. \A d \in Days : /\ {o \in orders' : o.day = d} = {o \in orders : o.day = d}
                      /\ Cardinality({o \in orders : o.day = d}) \in Nat
  BY NoMore DEF CapsInv
<1>5. \A ids : Cardinality(Uncounted(ids)) \in Nat
  BY NoMore, \A ids : Uncounted(ids) \subseteq orders DEF CapsInv, Uncounted
<1>6. DailyOrderCap'
  BY <1>1, <1>4 DEF CapsInv, DailyOrderCap
<1>7. Cardinality(Uncounted(live_ledger)') <= crashes' + faults'
  BY <1>1, <1>3, <1>5 DEF CapsInv
<1>8. read_faults' = 0 /\ pc' # "idle" =>
        Cardinality(Uncounted(caps_entries)') <= crashes' + faults'
  BY <1>1, <1>3, <1>5 DEF CapsInv
<1>. QED
  BY <1>6, <1>7, <1>8 DEF CapsInv

(* Every step of ALPACA_PAPER keeps the counts. *)
LEMMA CapsStep ==
  ASSUME Mode = "ALPACA_PAPER", TypeInv, TypeInv', BookInv, CapsInv, [Next]_vars
  PROVE  CapsInv'
<1>0. /\ crashes \in Nat /\ faults \in Nat /\ read_faults \in Nat /\ MaxOrdersPerDay \in Nat
      /\ day \in Days /\ next_id \in Nat /\ inflight \in Nat
      /\ \A o \in orders : o.id \in OrderIds /\ o.id # 0 /\ o.id # next_id
      /\ \A d : Cardinality(OfDay(d)) \in Nat /\ IsFiniteSet(OfDay(d))
      /\ \A ids : Cardinality(Uncounted(ids)) \in Nat /\ IsFiniteSet(Uncounted(ids))
  <2>1. \A d : Cardinality(OfDay(d)) \in Nat /\ IsFiniteSet(OfDay(d))
    BY NoMore, \A d : OfDay(d) \subseteq orders DEF CapsInv, OfDay
  <2>2. \A ids : Cardinality(Uncounted(ids)) \in Nat /\ IsFiniteSet(Uncounted(ids))
    BY NoMore, \A ids : Uncounted(ids) \subseteq orders DEF CapsInv, Uncounted
  <2>3. /\ crashes \in Nat /\ faults \in Nat /\ read_faults \in Nat /\ MaxOrdersPerDay \in Nat
        /\ day \in Days /\ next_id \in Nat /\ inflight \in Nat
    BY BoundsAssumption DEF TypeInv, TypeOK, OrderIds
  <2>4. \A o \in orders : o.id \in OrderIds /\ o.id # 0 /\ o.id # next_id
    BY BoundsAssumption DEF TypeInv, TypeOK, Order, OrderIds, BookInv, IdInv
  <2>. QED
    BY <2>1, <2>2, <2>3, <2>4
<1>1. CASE CycleMarketClosed \/ (\E s \in Symbols, q \in Qtys : CreateIntent(s, q))
           \/ EvaluatePositions \/ PopDue \/ (\E i \in batch : SkipIntent(i))
           \/ RefuseIntent \/ SubmitDry \/ RecordOrder \/ EnterSymbol \/ ConsumeEntry
  <2>1. /\ UNCHANGED <<orders, day, inflight, live_ledger, crashes, faults, read_faults, caps_entries>>
        /\ pc' # "idle" => pc # "idle"
        /\ pc' # "submit"
    BY <1>1
       DEF CycleMarketClosed, CreateIntent, EvaluatePositions, PopDue, SkipIntent,
           RefuseIntent, SubmitDry, RecordOrder, EnterSymbol, ConsumeEntry,
           stores, hand, broker, budgets, cycle
  <2>. QED
    BY <2>1, <1>0, CapsQuiet
<1>2. CASE CycleOpens
  <2>1. /\ UNCHANGED <<orders, day, inflight, live_ledger, crashes, faults>>
        /\ pc' # "submit"
        /\ read_faults' = 0 => read_faults = 0 /\ caps_entries' = live_ledger
    BY <1>2, <1>0
       DEF CycleOpens, ReadCapsLedger, ReadFault, LoadCaps, hand, broker
  <2>. QED
    BY <2>1, <1>0, CapsQuiet
<1>3. CASE Screen \/ \E i \in batch : TakeIntent(i)
  <2>1. /\ UNCHANGED <<orders, day, inflight, live_ledger, crashes, faults, caps_entries>>
        /\ pc # "idle" /\ pc' # "submit"
        /\ read_faults' = 0 => read_faults = 0
    BY <1>3, <1>0 DEF Screen, TakeIntent, ReadFault, stores, broker, cycle
  <2>. QED
    BY <2>1, <1>0, CapsQuiet
<1>4. CASE AdmitIntent
  <2>1. /\ UNCHANGED <<orders, day, inflight, live_ledger, crashes, faults, caps_entries,
                       read_faults, live_active>>
        /\ pc = "guard" /\ pc' = "submit"
        /\ live_active => Cardinality(caps_entries) + 1 <= MaxOrdersPerDay
    BY <1>4 DEF AdmitIntent, GuardsPass, CapsAllow, stores, hand, broker, cycle, budgets
  <2>. QED
    BY <2>1, <1>0, CapsQuiet
<1>5. CASE SubmitAccepted \/ SubmitRaises
  <2> DEFINE new == [id |-> next_id, sym |-> current.sym, day |-> day, qty |-> current.qty]
  <2>1. /\ pc = "submit" /\ live_active /\ inflight = 0
        /\ UNCHANGED <<day, live_ledger, caps_entries, crashes, read_faults>>
        /\ orders' = orders \/ orders' = orders \union {new}
    BY <1>5
       DEF SubmitAccepted, SubmitRaises, BrokerAccepts, stores, cycle, broker,
           budgets, TypeInv
  <2>2. \/ faults' = faults /\ inflight' = next_id /\ pc' = "record"
        \/ faults' = faults + 1 /\ inflight' = 0 /\ pc' = "next"
    BY <1>5 DEF SubmitAccepted, SubmitRaises, Fault, IntentDone, budgets
  <2>3. IsFiniteSet(orders')
    BY <2>1, AtMostOneMore DEF CapsInv
  <2>4. ASSUME NEW ids
        PROVE  Cardinality({o \in orders' : o.day = day /\ o.id \notin ids /\ o.id # inflight'})
                 <= Cardinality(Uncounted(ids)) + (faults' - faults)
    <3> DEFINE later == {o \in orders' : o.day = day /\ o.id \notin ids /\ o.id # inflight'}
    <3>1. CASE inflight' = next_id /\ faults' = faults
      <4>1. later \subseteq Uncounted(ids)
        BY <2>1, <3>1, <1>0 DEF Uncounted
      <4>. QED
        BY <3>1, <4>1, <1>0, NoMore
    <3>2. CASE inflight' = 0 /\ faults' = faults + 1
      <4>1. later \subseteq Uncounted(ids) \union {new}
        BY <2>1, <3>2, <1>0 DEF Uncounted
      <4> HIDE DEF later, new
      <4>2. Cardinality(later) <= Cardinality(Uncounted(ids)) + 1
        BY <4>1, <1>0, AtMostOneMore
      <4>. QED
        BY <3>2, <4>2, <1>0 DEF later
    <3>. QED
      BY <2>2, <3>1, <3>2
  <2>5. \A ids : Cardinality(Uncounted(ids)) <= crashes + faults =>
          Cardinality({o \in orders' : o.day = day /\ o.id \notin ids /\ o.id # inflight'})
            <= crashes + faults'
    <3>1. TAKE ids
    <3> DEFINE later == {o \in orders' : o.day = day /\ o.id \notin ids /\ o.id # inflight'}
    <3>2. Cardinality(later) \in Nat
      BY <2>3, NoMore
    <3>3. Cardinality(later) <= Cardinality(Uncounted(ids)) + (faults' - faults)
      BY <2>4
    <3>4. faults' \in Nat
      BY <2>2, <1>0
    <3> HIDE DEF later
    <3>5. Cardinality(Uncounted(ids)) <= crashes + faults => Cardinality(later) <= crashes + faults'
      BY <3>2, <3>3, <3>4, <1>0
    <3>. QED
      BY <3>5 DEF later
  <2>6. read_faults = 0 => Cardinality(OfDay(day)) + 1 <= MaxOrdersPerDay + crashes + faults
    BY <2>1, <1>0, TodayCounted DEF CapsInv
  <2>7. ASSUME read_faults = 0, NEW d \in Days
        PROVE  Cardinality({o \in orders' : o.day = d}) <= MaxOrdersPerDay + crashes + faults'
    <3> DEFINE later == {o \in orders' : o.day = d}
    <3>0. faults' \in Nat /\ faults <= faults'
      BY <2>2, <1>0
    <3>1. faults' \in Nat /\ faults <= faults' /\ Cardinality(later) \in Nat
      BY <2>3, <3>0, NoMore
    <3>2. CASE d = day
      <4>1. later \subseteq OfDay(day) \union {new}
        BY <2>1, <3>2 DEF OfDay
      <4> HIDE DEF later, new
      <4>2. Cardinality(later) <= Cardinality(OfDay(day)) + 1
        BY <4>1, <1>0, AtMostOneMore
      <4>. QED
        BY <2>6, <2>7, <3>1, <4>2, <1>0 DEF later
    <3>3. CASE d # day
      <4>1. later = OfDay(d)
        BY <2>1, <3>3 DEF OfDay
      <4>2. Cardinality(OfDay(d)) <= MaxOrdersPerDay + crashes + faults
        BY <2>7 DEF CapsInv, DailyOrderCap, OfDay
      <4>3. Cardinality(OfDay(d)) <= MaxOrdersPerDay + crashes + faults'
        BY <3>1, <4>2, <1>0
      <4>. QED
        BY <4>1, <4>3
    <3>. QED
      BY <3>2, <3>3
  <2>8. DailyOrderCap'
    BY <2>1, <2>7 DEF DailyOrderCap
  <2>9. Cardinality(Uncounted(live_ledger)') <= crashes + faults'
    BY <2>1, <2>5 DEF CapsInv, Uncounted
  <2>10. read_faults = 0 => Cardinality(Uncounted(caps_entries)') <= crashes + faults'
    BY <2>1, <2>5 DEF CapsInv, Uncounted
  <2>. QED
    BY <2>1, <2>2, <2>3, <2>8, <2>9, <2>10 DEF CapsInv
<1>6. CASE BookOrder
  <2>1. /\ pc = "book" /\ pc' = "next" /\ inflight' = 0
        /\ UNCHANGED <<orders, day, crashes, read_faults, faults>>
        /\ \/ /\ caps_entries' = caps_entries \union {inflight}
              /\ live_ledger' = live_ledger \union {inflight}
           \/ inflight = 0 /\ UNCHANGED <<caps_entries, live_ledger>>
    BY <1>6 DEF BookOrder, BookLive, BookPaper, IntentDone, broker, TypeInv
  <2>2. /\ Uncounted(caps_entries)' = Uncounted(caps_entries)
        /\ Uncounted(live_ledger)' = Uncounted(live_ledger)
    BY <2>1, <1>0 DEF Uncounted
  <2>. QED
    BY <2>1, <2>2 DEF CapsInv, DailyOrderCap
<1>7. CASE BookingRaises \/ Crash
  <2>1. /\ inflight' = 0 /\ pc' \in {"next", "idle"}
        /\ UNCHANGED <<orders, day, read_faults>>
        /\ live_ledger \subseteq live_ledger'
        /\ pc' # "idle" => pc # "idle" /\ caps_entries' = caps_entries
    BY <1>7 DEF BookingRaises, Crash, LeaveCycle, IntentDone, broker, stores, cycle, budgets
  <2>2. /\ crashes' + faults' = crashes + faults + 1
        /\ crashes' \in Nat /\ faults' \in Nat
    BY <1>7, <1>0 DEF BookingRaises, Crash, Fault
  <2>8. /\ \A n \in Nat : n <= crashes + faults => n + 1 <= crashes' + faults'
        /\ \A n \in Nat : n <= MaxOrdersPerDay + crashes + faults =>
                            n <= MaxOrdersPerDay + crashes' + faults'
    <3>1. CASE crashes' = crashes + 1 /\ faults' = faults
      BY <3>1, <1>0
    <3>2. CASE crashes' = crashes /\ faults' = faults + 1
      BY <3>2, <1>0
    <3>. QED
      BY <1>7, <3>1, <3>2 DEF BookingRaises, Crash, Fault
  <2>3. ASSUME NEW ids, NEW more, ids \subseteq more,
               Cardinality(Uncounted(ids)) <= crashes + faults
        PROVE  Cardinality({o \in orders : o.day = day /\ o.id \notin more /\ o.id # 0})
                 <= crashes' + faults'
    <3> DEFINE later == {o \in orders : o.day = day /\ o.id \notin more /\ o.id # 0}
    <3>1. PICK x : \A o \in orders : o.id = inflight => o = x
      BY DEF BookInv, IdInv
    <3>2. later \subseteq Uncounted(ids) \union {x}
      BY <2>3, <3>1 DEF Uncounted
    <3> HIDE DEF later
    <3>3. Cardinality(later) \in Nat /\ Cardinality(later) <= Cardinality(Uncounted(ids)) + 1
      BY <3>2, <1>0, AtMostOneMore
    <3>5. Cardinality(Uncounted(ids)) \in Nat /\ Cardinality(Uncounted(ids)) <= crashes + faults
      BY <2>3, <1>0
    <3>4. Cardinality(later) <= crashes' + faults'
      <4>1. Cardinality(Uncounted(ids)) + 1 <= crashes' + faults'
        BY <2>8, <3>5
      <4>. QED
        BY <2>2, <3>3, <3>5, <4>1
    <3>. QED
      BY <3>4 DEF later
  <2>4. Cardinality(Uncounted(live_ledger)') <= crashes' + faults'
    BY <2>1, <2>3 DEF CapsInv, Uncounted
  <2>5. read_faults' = 0 /\ pc' # "idle" =>
          Cardinality(Uncounted(caps_entries)') <= crashes' + faults'
    BY <2>1, <2>3 DEF CapsInv, Uncounted
  <2>6. ASSUME read_faults = 0, NEW d \in Days
        PROVE  Cardinality({o \in orders : o.day = d}) <= MaxOrdersPerDay + crashes' + faults'
    <3>1. Cardinality(OfDay(d)) <= MaxOrdersPerDay + crashes + faults
      BY <2>6 DEF CapsInv, DailyOrderCap, OfDay
    <3>3. Cardinality(OfDay(d)) \in Nat
      BY <1>0
    <3>2. Cardinality(OfDay(d)) <= MaxOrdersPerDay + crashes' + faults'
      BY <2>8, <3>1, <3>3
    <3>. QED
      BY <3>2 DEF OfDay
  <2>7. DailyOrderCap'
    BY <2>1, <2>6 DEF DailyOrderCap
  <2>. QED
    BY <2>1, <2>4, <2>5, <2>7 DEF CapsInv
<1>8. CASE FinishCycle
  <2>1. /\ UNCHANGED <<orders, day, live_ledger, crashes, faults, read_faults>>
        /\ inflight' = inflight /\ pc' = "idle"
    BY <1>8 DEF FinishCycle, LeaveCycle, broker, budgets, TypeInv
  <2>. QED
    BY <2>1, <1>0, CapsQuiet
<1>9. CASE \/ \E o \in orders : OrderMoves(o)
           \/ \E s \in Symbols : ClosePosition(s) \/ Age(s)
           \/ UNCHANGED vars
  <2>1. UNCHANGED <<orders, day, inflight, live_ledger, crashes, faults, read_faults,
                    caps_entries, pc, live_active>>
    BY <1>9
       DEF OrderMoves, ClosePosition, Age, vars, stores, hand, broker, budgets, cycle
  <2>. QED
    BY <2>1, <1>0, CapsQuiet DEF CapsInv
<1>10. CASE NextDay
  <2>1. /\ UNCHANGED <<orders, crashes, faults, read_faults>> /\ pc' = "idle"
        /\ day' = day + 1
    BY <1>10 DEF NextDay, budgets
  <2>2. Uncounted(live_ledger)' = {}
    BY <2>1 DEF Uncounted, BookInv, DayInv, TypeInv, TypeOK, Order, Days
  <2>3. Cardinality(Uncounted(live_ledger)') <= crashes' + faults'
    BY <2>1, <2>2, <1>0, FS_EmptySet
  <2>. QED
    BY <2>1, <2>3 DEF CapsInv, DailyOrderCap
<1>. QED
  BY <1>1, <1>2, <1>3, <1>4, <1>5, <1>6, <1>7, <1>8, <1>9, <1>10 DEF Next, CycleStep

(* In ALPACA_PAPER the orders of a day stay within max_orders_per_day and  *)
(* one more for every crash and every raising call, as long as the ledger  *)
(* could be read.  LIVE has no such theorem: its ledger of one line loads  *)
(* as empty.                                                               *)
THEOREM PaperOrdersCapped ==
  ASSUME Mode = "ALPACA_PAPER"
  PROVE  Spec => []DailyOrderCap
<1>1. Init => CapsInv
  <2>1. SUFFICES ASSUME Init PROVE CapsInv
    OBVIOUS
  <2>2. /\ IsFiniteSet(orders) /\ Uncounted(live_ledger) = {} /\ pc = "idle"
        /\ crashes = 0 /\ faults = 0
        /\ \A d \in Days : {o \in orders : o.day = d} = {}
    BY <2>1, FS_EmptySet DEF Init, Uncounted
  <2>. QED
    BY <2>2, FS_EmptySet, BoundsAssumption DEF CapsInv, DailyOrderCap
<1>2. TypeInv /\ TypeInv' /\ BookInv /\ CapsInv /\ [Next]_vars => CapsInv'
  BY CapsStep
<1>3. CapsInv => DailyOrderCap
  BY DEF CapsInv
<1>. QED
  BY <1>1, <1>2, <1>3, TypeCorrect, BookingSafe, PTL DEF Spec

-----------------------------------------------------------------------------
(* The slots                                                               *)

(* A step that leaves the day, the booked orders and their lives as they   *)
(* are leaves the slots as they are.                                       *)
LEMMA SlotsSame ==
  ASSUME UNCHANGED day, Booked' = Booked,
         \A o \in Booked : status'[o.id] = status[o.id]
  PROVE  /\ day' = day /\ EnteredMap' = EnteredMap /\ SlotMap' = SlotMap
BY DEF EnteredMap, SlotMap, BookedIn

(* Of the booked orders of one symbol at most one is alive. *)
LEMMA OneAlive ==
  ASSUME TypeInv, StackInv, MaxReadFaults <= 1,
         NEW o \in Booked, NEW p \in Booked, o.sym = p.sym, Alive(o), Alive(p)
  PROVE  o = p
<1>1. read_faults <= 1
  BY BoundsAssumption DEF TypeInv, TypeOK
<1>. QED
  BY <1>1 DEF StackInv, BookedEntriesDoNotStack, Booked

(* The slot of a symbol, by the booked order of it that is alive. *)
LEMMA SlotFacts ==
  ASSUME TypeInv, StackInv, MaxReadFaults <= 1, NEW s \in Symbols
  PROVE  /\ SlotMap[s] \in {"free", "working", "held"}
         /\ SlotMap[s] = "working" <=> BookedIn(s, "open")
         /\ SlotMap[s] = "held" <=> BookedIn(s, "filled")
         /\ ~(BookedIn(s, "open") /\ BookedIn(s, "filled"))
<1>1. ~(BookedIn(s, "open") /\ BookedIn(s, "filled"))
  BY OneAlive DEF BookedIn, Alive
<1>. QED
  BY <1>1 DEF SlotMap

(* The booking of the order in flight takes the slot of its symbol, which  *)
(* nothing booked occupied: not today, by the consumed set, and not from   *)
(* an earlier day, by the reads of the positions.                          *)
LEMMA BookingEnters ==
  ASSUME TypeInv, BookInv, StackInv, MaxReadFaults <= 1,
         pc \in Unbooked, inflight # 0, UNCHANGED <<day, orders, status, lost>>,
         pc' \notin Unbooked, NEW s, s = current.sym
  PROVE  Slot!Enter(s)
<1> DEFINE now == IF BookedIn(s, "open")' THEN "working"
                  ELSE IF BookedIn(s, "filled")' THEN "held" ELSE "free"
<1>1. read_faults <= 1 /\ s \in Symbols
  BY BoundsAssumption DEF TypeInv, TypeOK, Unbooked, InHand, Intent
<1>2. \A p \in Booked : p.sym = s => ~Alive(p)
  <2>1. SUFFICES ASSUME NEW p \in Booked, p.sym = s, Alive(p) PROVE FALSE
    OBVIOUS
  <2>2. CASE p.day = day
    BY <2>1, <2>2, NotYetBooked
  <2>3. CASE p.day < day
    BY <1>1, <2>1, <2>3 DEF Booked, Alive, BookInv, DayInv, StackInv, ScreenInv, HeldOver
  <2>. QED
    BY <2>2, <2>3 DEF Booked, BookInv, DayInv, TypeInv, TypeOK, Order, Days
<1>3. SlotMap[s] = "free"
  BY <1>1, <1>2 DEF SlotMap, BookedIn, Alive
<1>4. <<day, s>> \notin EnteredMap
  BY NotYetBooked DEF EnteredMap
<1>5. PICK o \in orders : /\ o.id = inflight /\ o.sym = s /\ o.day = day
                          /\ Booked' = Booked \union {o}
  <2>1. PICK o \in orders : o.id = inflight /\ o.sym = s /\ o.day = day
    BY DEF BookInv, FlightInv
  <2>2. \A p \in orders : p.id = inflight => p = o
    BY <2>1 DEF BookInv, IdInv
  <2>3. o.id \notin lost
    BY <2>1 DEF BookInv, IdInv
  <2>4. Booked' = Booked \union {o}
    BY <2>1, <2>2, <2>3 DEF Booked
  <2>. QED
    BY <2>1, <2>4
<1>6. EnteredMap' = EnteredMap \union {<<day, s>>}
  BY <1>5 DEF EnteredMap
<1>7. \A t \in Symbols, w \in {"open", "filled"} : t # s => (BookedIn(t, w)' <=> BookedIn(t, w))
  BY <1>5 DEF BookedIn
<1>8. SlotMap' = [SlotMap EXCEPT ![s] = now]
  <2>1. ASSUME NEW t \in Symbols
        PROVE  SlotMap'[t] = IF t = s THEN now ELSE SlotMap[t]
    <3>1. CASE t = s
      BY <3>1 DEF SlotMap
    <3>2. CASE t # s
      BY <3>2, <1>7 DEF SlotMap
    <3>. QED
      BY <3>1, <3>2
  <2> HIDE DEF now
  <2>. QED
    BY <2>1 DEF SlotMap
<1>9. now \in {"free", "working", "held"}
  OBVIOUS
<1>. QED
  BY <1>3, <1>4, <1>6, <1>8, <1>9 DEF Slot!Enter

(* Every step of the pipeline is a step of a slot, or none. *)
LEMMA SlotStep ==
  ASSUME TypeInv, BookInv, StackInv, MaxReadFaults <= 1, [Next]_vars
  PROVE  Slot!Next \/ (day' = day /\ EnteredMap' = EnteredMap /\ SlotMap' = SlotMap)
<1>0. /\ \A o \in orders : o.sym \in Symbols /\ o.id \in OrderIds /\ o.id # 0 /\ o.id # next_id
      /\ Booked \subseteq orders
  BY DEF TypeInv, TypeOK, Order, OrderIds, BookInv, IdInv, Booked
<1>1. CASE CycleMarketClosed \/ CycleOpens \/ (\E s \in Symbols, q \in Qtys : CreateIntent(s, q))
           \/ EvaluatePositions \/ PopDue \/ Screen
           \/ (\E i \in batch : TakeIntent(i) \/ SkipIntent(i)) \/ AdmitIntent \/ RefuseIntent
           \/ BookOrder \/ FinishCycle
  <2>1. /\ UNCHANGED <<day, orders, status, lost>>
        /\ pc \notin Unbooked /\ pc' \notin Unbooked
    BY <1>1
       DEF CycleMarketClosed, CycleOpens, CreateIntent, EvaluatePositions, PopDue,
           Screen, TakeIntent, SkipIntent, AdmitIntent, RefuseIntent, BookOrder,
           IntentDone, FinishCycle, LeaveCycle, stores, hand, broker, budgets, Unbooked
  <2>2. Booked' = Booked
    BY <2>1 DEF Booked
  <2>. QED
    BY <2>1, <2>2, SlotsSame
<1>2. CASE SubmitAccepted \/ SubmitRaises
  <2>1. /\ pc = "submit" /\ UNCHANGED day
        /\ \/ UNCHANGED <<orders, status, lost>> /\ pc' = "next"
           \/ BrokerAccepts /\ lost' = lost \union {next_id} /\ pc' = "next"
           \/ BrokerAccepts /\ lost' = lost /\ pc' = "record" /\ inflight' = next_id
    BY <1>2 DEF SubmitAccepted, SubmitRaises, IntentDone, broker
  <2>2. Booked' = Booked
    BY <2>1, <1>0 DEF Booked, Unbooked, BrokerAccepts
  <2>3. \A o \in Booked : status'[o.id] = status[o.id]
    BY <2>1, <1>0 DEF BrokerAccepts, TypeInv, TypeOK
  <2>. QED
    BY <2>1, <2>2, <2>3, SlotsSame
<1>3. CASE SubmitDry \/ RecordOrder \/ EnterSymbol
  <2>1. /\ UNCHANGED <<day, orders, status, lost, inflight>>
        /\ pc \in {"submit", "record", "enter"} /\ pc' \in {"enter", "consume", "book"}
        /\ pc = "submit" => inflight = 0
        /\ pc' = "book" => pc = "submit"
    BY <1>3
       DEF SubmitDry, RecordOrder, EnterSymbol, hand, broker, TypeInv
  <2>2. Booked' = Booked
    BY <2>1, <1>0 DEF Booked, Unbooked
  <2>. QED
    BY <2>1, <2>2, SlotsSame
<1>4. CASE ConsumeEntry \/ BookingRaises
  <2>1. /\ UNCHANGED <<day, orders, status>> /\ pc \in {"book"} \union Unbooked
        /\ pc' \in {"book", "next"}
    BY <1>4 DEF ConsumeEntry, BookingRaises, IntentDone, broker, Unbooked
  <2>2. CASE pc = "book" \/ inflight = 0
    <3>1. Booked' = Booked
      <4>1. lost' = lost
        <5>1. CASE ConsumeEntry
          BY <5>1 DEF ConsumeEntry
        <5>2. CASE BookingRaises /\ inflight = 0
          BY <5>2 DEF BookingRaises
        <5>3. CASE BookingRaises /\ pc = "book" /\ inflight # 0
          <6>1. <<day, current.sym>> \in consumed_entries
            BY <5>3 DEF BookInv, FlightInv, ConsumedInv, IdInv, Booked, Unbooked
          <6>. QED
            BY <5>3, <6>1 DEF BookingRaises
        <5>. QED
          BY <1>4, <2>2, <5>1, <5>2, <5>3 DEF ConsumeEntry
      <4>2. pc \in Unbooked => inflight = 0
        BY <2>2 DEF Unbooked
      <4>3. pc' \notin Unbooked
        BY <2>1 DEF Unbooked
      <4>. QED
        BY <4>1, <4>2, <4>3, <2>1, <1>0 DEF Booked
    <3>. QED
      BY <2>1, <3>1, SlotsSame
  <2>3. CASE pc \in Unbooked /\ inflight # 0 /\ lost' = lost
    <3>1. Slot!Enter(current.sym)
      BY <2>1, <2>3, BookingEnters DEF Unbooked
    <3>2. current.sym \in Symbols
      BY <2>3 DEF TypeInv, TypeOK, InHand, Unbooked, Intent
    <3>. QED
      BY <3>1, <3>2 DEF Slot!Next
  <2>4. CASE pc \in Unbooked /\ inflight # 0 /\ lost' = lost \union {inflight}
    <3>1. pc' \notin Unbooked
      BY <2>1 DEF Unbooked
    <3>2. Booked' = Booked
      BY <2>1, <2>4, <3>1, <1>0 DEF Booked
    <3>. QED
      BY <2>1, <3>2, SlotsSame
  <2>5. inflight # 0 => lost' = lost \/ lost' = lost \union {inflight}
    BY <1>4 DEF ConsumeEntry, BookingRaises
  <2>. QED
    BY <2>1, <2>2, <2>3, <2>4, <2>5
<1>5. CASE Crash
  <2>1. /\ UNCHANGED <<day, orders, status>> /\ pc' = "idle" /\ inflight' = 0
        /\ lost' = IF pc \in Unbooked THEN lost \union ({inflight} \ {0}) ELSE lost
    BY <1>5 DEF Crash, LeaveCycle, broker
  <2>2. pc' \notin Unbooked
    BY <2>1 DEF Unbooked
  <2>3. Booked' = Booked
    BY <2>1, <2>2, <1>0 DEF Booked
  <2>. QED
    BY <2>1, <2>3, SlotsSame
<1>6. ASSUME NEW o \in orders, OrderMoves(o)
      PROVE  Slot!Next \/ (day' = day /\ EnteredMap' = EnteredMap /\ SlotMap' = SlotMap)
  <2>1. /\ UNCHANGED <<day, orders, lost, pc, inflight>> /\ status[o.id] = "open"
        /\ status'[o.id] \in {"filled", "dead"}
        /\ \A p \in orders : p # o => status'[p.id] = status[p.id]
    BY <1>6, <1>0 DEF OrderMoves, hand, BookInv, IdInv, TypeInv, TypeOK
  <2>2. Booked' = Booked
    BY <2>1 DEF Booked
  <2>3. CASE o \notin Booked
    BY <2>1, <2>2, <2>3, <1>0, SlotsSame
  <2>4. CASE o \in Booked
    <3>1. o.sym \in Symbols /\ EnteredMap' = EnteredMap
      BY <2>2, <1>0 DEF EnteredMap
    <3>2. BookedIn(o.sym, "open") /\ \A p \in Booked : p.sym = o.sym /\ Alive(p) => p = o
      BY <2>1, <2>4, OneAlive DEF BookedIn, Alive
    <3>3. SlotMap[o.sym] = "working"
      BY <3>1, <3>2, SlotFacts
    <3>4. \A t \in Symbols, w \in {"open", "filled"} : t # o.sym => (BookedIn(t, w)' <=> BookedIn(t, w))
      BY <2>1, <2>2, <1>0 DEF BookedIn
    <3>5. \A t \in Symbols : t # o.sym => SlotMap'[t] = SlotMap[t]
      BY <3>4 DEF SlotMap
    <3>6. ~BookedIn(o.sym, "open")'
      BY <2>1, <2>2, <3>2, <1>0 DEF BookedIn, Alive
    <3>7. BookedIn(o.sym, "filled")' <=> status'[o.id] = "filled"
      BY <2>1, <2>2, <2>4, <3>2, <1>0 DEF BookedIn, Alive
    <3>8. SlotMap'[o.sym] = IF status'[o.id] = "filled" THEN "held" ELSE "free"
      BY <3>1, <3>6, <3>7 DEF SlotMap
    <3>9. Slot!Fill(o.sym) \/ Slot!Leave(o.sym)
      <4>1. CASE status'[o.id] = "filled"
        <5>1. SlotMap' = [SlotMap EXCEPT ![o.sym] = "held"]
          BY <3>1, <3>5, <3>8, <4>1 DEF SlotMap
        <5>. QED
          BY <5>1, <3>1, <3>3, <2>1 DEF Slot!Fill
      <4>2. CASE status'[o.id] # "filled"
        <5>1. SlotMap' = [SlotMap EXCEPT ![o.sym] = "free"]
          BY <3>1, <3>5, <3>8, <4>2 DEF SlotMap
        <5>. QED
          BY <5>1, <3>1, <3>3, <2>1 DEF Slot!Leave
      <4>. QED
        BY <4>1, <4>2
    <3>. QED
      BY <3>1, <3>9 DEF Slot!Next
  <2>. QED
    BY <2>3, <2>4
<1>7. ASSUME NEW s \in Symbols, ClosePosition(s)
      PROVE  Slot!Next \/ (day' = day /\ EnteredMap' = EnteredMap /\ SlotMap' = SlotMap)
  <2>1. /\ UNCHANGED <<day, orders, lost, pc, inflight>>
        /\ \A p \in orders : status'[p.id] =
             IF status[p.id] = "filled" /\ p.sym = s THEN "closed" ELSE status[p.id]
    BY <1>7, <1>0 DEF ClosePosition, hand, BookInv, IdInv, TypeInv, TypeOK
  <2>2. Booked' = Booked
    BY <2>1 DEF Booked
  <2>3. EnteredMap' = EnteredMap
    BY <2>2 DEF EnteredMap
  <2>4. \A t \in Symbols, w \in {"open", "filled"} : t # s => (BookedIn(t, w)' <=> BookedIn(t, w))
    BY <2>1, <2>2, <1>0 DEF BookedIn
  <2>5. /\ BookedIn(s, "open")' <=> BookedIn(s, "open")
        /\ ~BookedIn(s, "filled")'
    BY <2>1, <2>2, <1>0 DEF BookedIn
  <2>6. \A t \in Symbols : t # s => SlotMap'[t] = SlotMap[t]
    BY <2>4 DEF SlotMap
  <2>7. CASE BookedIn(s, "filled")
    <3>1. SlotMap[s] = "held" /\ ~BookedIn(s, "open")
      BY <2>7, SlotFacts
    <3>2. SlotMap'[s] = "free"
      BY <2>5, <3>1 DEF SlotMap
    <3>3. SlotMap' = [SlotMap EXCEPT ![s] = "free"]
      BY <2>6, <3>2 DEF SlotMap
    <3>4. Slot!Leave(s)
      BY <2>1, <2>3, <3>1, <3>3 DEF Slot!Leave
    <3>. QED
      BY <3>4 DEF Slot!Next
  <2>8. CASE ~BookedIn(s, "filled")
    <3>1. SlotMap'[s] = SlotMap[s]
      BY <2>5, <2>8 DEF SlotMap
    <3>2. SlotMap' = SlotMap
      BY <2>6, <3>1 DEF SlotMap
    <3>. QED
      BY <2>1, <2>3, <3>2
  <2>. QED
    BY <2>7, <2>8
<1>8. CASE (\E s \in Symbols : Age(s)) \/ UNCHANGED vars
  <2>1. UNCHANGED <<day, orders, status, lost, pc, inflight>>
    BY <1>8 DEF Age, vars, stores, hand, broker
  <2>2. Booked' = Booked
    BY <2>1 DEF Booked
  <2>. QED
    BY <2>1, <2>2, SlotsSame
<1>9. CASE NextDay
  <2>1. /\ pc = "idle" /\ pc' = "idle" /\ day < MaxDay /\ day' = day + 1
        /\ UNCHANGED <<orders, lost, inflight>>
        /\ \A p \in orders : status'[p.id] =
             IF status[p.id] = "open" THEN "dead" ELSE status[p.id]
    BY <1>9, <1>0 DEF NextDay, hand
  <2>2. Booked' = Booked
    BY <2>1 DEF Booked
  <2>3. EnteredMap' = EnteredMap
    BY <2>2 DEF EnteredMap
  <2>5. ASSUME NEW s \in Symbols
        PROVE  SlotMap'[s] = IF SlotMap[s] = "working" THEN "free" ELSE SlotMap[s]
    <3>1. ~BookedIn(s, "open")' /\ (BookedIn(s, "filled")' <=> BookedIn(s, "filled"))
      BY <2>1, <2>2, <1>0 DEF BookedIn
    <3>2. SlotMap'[s] = IF BookedIn(s, "filled") THEN "held" ELSE "free"
      BY <3>1 DEF SlotMap
    <3>. QED
      BY <3>2, SlotFacts
  <2>6. SlotMap' = [s \in Symbols |-> IF SlotMap[s] = "working" THEN "free" ELSE SlotMap[s]]
    BY <2>5 DEF SlotMap
  <2>. QED
    BY <2>1, <2>3, <2>6 DEF Slot!Next, Slot!NextDay
<1>. QED
  BY <1>1, <1>2, <1>3, <1>4, <1>5, <1>6, <1>7, <1>8, <1>9 DEF Next, CycleStep

(* With at most one failing position read, the pipeline with its stores,   *)
(* crashes, lost answers and requeued intents implements the slots: every  *)
(* step is a booked entry taking a free slot once a day, the slot filling  *)
(* or being left, a new day, or nothing a slot can see.                    *)
THEOREM PipelineImplementsSlots ==
  ASSUME MaxReadFaults <= 1
  PROVE  Spec => ImplementsSlots
<1>1. Init => Slot!Init
  BY DEF Init, Slot!Init, EnteredMap, SlotMap, BookedIn, Booked
<1>2. TypeInv /\ BookInv /\ StackInv /\ [Next]_vars => [Slot!Next]_(Slot!svars)
  BY SlotStep DEF Slot!svars
<1>. QED
  BY <1>1, <1>2, TypeCorrect, BookingSafe, StackSafe, PTL
     DEF Spec, ImplementsSlots, Slot!Spec

=============================================================================
