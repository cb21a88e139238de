--------------------------- MODULE EntryPipeline ---------------------------
(***************************************************************************)
(* The entry side of one execution_v2 process in the modes LIVE and        *)
(* ALPACA_PAPER: scan candidates become entry intents, due intents are     *)
(* popped, screened and guarded one by one, submitted to the broker and    *)
(* booked in the stores that stop the next cycle from doing it again.      *)
(*                                                                         *)
(* execution_main.run_once is one pass of this module from pc = "idle"     *)
(* back to "idle"; main() repeats it forever.  There is one process, so    *)
(* every interleaving is between its steps and the broker's, the clock's   *)
(* and a crash's.  Each store commits on its own (SQLite autocommit, one   *)
(* JSON file per store), which is why the booking of an accepted order is  *)
(* four steps: a crash or an exception can fall between any two of them.   *)
(***************************************************************************)
EXTENDS Naturals, FiniteSets

CONSTANTS
  Symbols,          \* symbols the scan may propose
  Qtys,             \* sizes the sizing step may compute for an intent
  Mode,             \* "LIVE" or "ALPACA_PAPER" (EXECUTION_MODE)
  MaxOrdersPerDay,  \* CapsConfig.max_orders_per_day
  MaxPositions,     \* CapsConfig.max_positions
  MaxDay,           \* bound: sessions explored
  MaxOrders,        \* bound: orders the broker accepts in a behaviour
  MaxCrashes,       \* bound: process crashes
  MaxFaults,        \* bound: calls on the booking path that raise
  MaxReadFaults     \* bound: broker position reads that raise

ASSUME ModeAssumption == Mode \in {"LIVE", "ALPACA_PAPER"}

ASSUME SymbolsAssumption == IsFiniteSet(Symbols)

ASSUME BoundsAssumption ==
  /\ MaxDay \in Nat /\ MaxDay >= 1
  /\ MaxOrders \in Nat /\ MaxOrdersPerDay \in Nat /\ MaxPositions \in Nat
  /\ MaxCrashes \in Nat /\ MaxFaults \in Nat /\ MaxReadFaults \in Nat

VARIABLES
  (* durable: survives a crash *)
  day,              \* the New York date, which names the per-day files
  entry_intents,    \* table entry_intents, primary key symbol
  order_ledger,     \* table order_ledger: idempotency keys
  consumed_entries, \* consumed_entries_<date>.json
  symbol_state,     \* symbol_execution_state_<date>.json of today
  live_ledger,      \* order ids in today's caps ledger file
  ledger_exists,    \* whether that file is there
  dry_run_ledger,   \* dry_run_ledger.json
  position_rows,    \* symbols with a row in table positions
  (* volatile: local to one call of run_once *)
  pc,
  live_active,      \* live_active / paper_active of this cycle
  gated,            \* settle delay, entry delay or stale candidates
  caps_entries,     \* LiveLedger.entries in memory
  projected_open_positions,
  batch,            \* popped, then approved intents still to be handled
  current,          \* the intent being submitted or booked
  inflight,         \* id of its accepted order, 0 if there is none
  (* broker *)
  orders,           \* every entry order the broker accepted
  status,           \* order id -> its life at the broker
  next_id,
  (* history and budgets *)
  lost,             \* accepted orders that never reached consumed_entries
  crashes, faults, read_faults

stores   == <<entry_intents, order_ledger, consumed_entries, symbol_state,
              live_ledger, ledger_exists, dry_run_ledger, position_rows>>
cycle    == <<live_active, gated, caps_entries, projected_open_positions>>
hand     == <<batch, current, inflight>>
broker   == <<orders, status, next_id>>
budgets  == <<crashes, faults, read_faults>>
vars     == <<day, stores, pc, cycle, hand, broker, lost, budgets>>

-----------------------------------------------------------------------------
(* Data                                                                    *)

Days     == 1..MaxDay
OrderIds == 1..MaxOrders
States   == {"FLAT", "ENTERING", "OPEN", "EXITING"}
Statuses == {"none", "open", "filled", "closed", "dead"}
Intent   == [sym : Symbols, qty : Qtys]
Queued   == [qty : Qtys, age : {"waiting", "due", "stale"}]
NoIntent == [age |-> "none"]
Order    == [id : OrderIds, sym : Symbols, day : Days, qty : Qtys]
Steps    == {"idle", "create", "pop", "screen", "next", "guard", "submit",
             "record", "enter", "consume", "book"}

(* Steps at which `current` is an intent taken from the batch. *)
InHand == {"guard", "submit", "record", "enter", "consume", "book"}

(* Steps at which an accepted order is not yet in consumed_entries. *)
Unbooked == {"record", "enter", "consume"}

(* generate_idempotency_key: date|strategy|symbol|side|qty, here with the  *)
(* one strategy and the one side this module is about.                     *)
Key(d, s, q)   == <<d, s, q>>
OrderKey(o)    == Key(o.day, o.sym, o.qty)
Alive(o)       == status[o.id] \in {"open", "filled"}

Working(s)  == \E o \in orders : o.sym = s /\ status[o.id] = "open"
Held(s)     == \E o \in orders : o.sym = s /\ status[o.id] = "filled"
HeldSymbols == {s \in Symbols : Held(s)}

(* LiveLedger.load tries json.load on the whole file first.  A file of one *)
(* JSON line IS a JSON object, without an "entries" field: it loads as a   *)
(* ledger without entries.  Only from two lines on does it fall back to    *)
(* _load_jsonl.  alpaca_paper.load_caps_ledger reads line by line.         *)
LoadCaps(file) ==
  IF Mode = "LIVE" /\ Cardinality(file) = 1 THEN {} ELSE file

(* Plausible bugs are kept beside the definition they would replace, under *)
(* its name and a suffix; PROJECT.json says which property catches each.   *)

(* Mutant: the order count compared before this order is added to it. *)
CapsAllow_OffByOne ==
  /\ projected_open_positions < MaxPositions
  /\ Cardinality(caps_entries) <= MaxOrdersPerDay

(* live_gate.enforce_caps, for the order count and the position count.     *)
CapsAllow ==
  /\ projected_open_positions < MaxPositions
  /\ Cardinality(caps_entries) + 1 <= MaxOrdersPerDay

(* Mutant: a symbol without a position is FLAT, also while its entry is working. *)
ApplyOpenPositions_Reset(st) ==
  [s \in Symbols |-> IF Held(s) THEN "OPEN" ELSE "FLAT"]

(* Mutant: a position found for a FLAT symbol is not adopted. *)
ApplyOpenPositions_OwnOnly(st) ==
  [s \in Symbols |->
     IF Held(s) /\ st[s] = "ENTERING" THEN "OPEN"
     ELSE IF ~Held(s) /\ st[s] = "EXITING" THEN "FLAT"
     ELSE st[s]]

(* SymbolExecutionStateStore.apply_open_positions.                         *)
ApplyOpenPositions(st) ==
  [s \in Symbols |->
     IF Held(s) /\ st[s] \in {"FLAT", "ENTERING"} THEN "OPEN"
     ELSE IF ~Held(s) /\ st[s] = "EXITING" THEN "FLAT"
     ELSE st[s]]

(* A call that raises spends one unit of its budget. *)
Fault     == faults < MaxFaults /\ faults' = faults + 1
ReadFault == read_faults < MaxReadFaults /\ read_faults' = read_faults + 1

-----------------------------------------------------------------------------
Init ==
  /\ day = 1
  /\ entry_intents = [s \in Symbols |-> NoIntent]
  /\ order_ledger = {} /\ consumed_entries = {} /\ dry_run_ledger = {}
  /\ symbol_state = [s \in Symbols |-> "FLAT"]
  /\ live_ledger = {} /\ ledger_exists = FALSE
  /\ position_rows = {}
  /\ pc = "idle" /\ live_active = FALSE /\ gated = FALSE
  /\ caps_entries = {} /\ projected_open_positions = 0
  /\ batch = {} /\ current = NoIntent /\ inflight = 0
  /\ orders = {} /\ status = [i \in OrderIds |-> "none"] /\ next_id = 1
  /\ lost = {} /\ crashes = 0 /\ faults = 0 /\ read_faults = 0

(* run_once returns, or the process dies: its locals are gone. *)
LeaveCycle ==
  /\ pc' = "idle"
  /\ live_active' = FALSE /\ gated' = FALSE
  /\ caps_entries' = {} /\ projected_open_positions' = 0
  /\ batch' = {} /\ current' = NoIntent /\ inflight' = 0

-----------------------------------------------------------------------------
(* One cycle of run_once                                                   *)

(* Mutant: the TTL compared the wrong way round: nothing is stale. *)
PurgeStale_Never == entry_intents

(* purge_stale_entry_intents, before any gate. *)
PurgeStale ==
  [s \in Symbols |->
     IF entry_intents[s].age = "stale" THEN NoIntent ELSE entry_intents[s]]

(* reschedule_due_entry_intents, behind the settle and entry-delay gates.  *)
RescheduleDue(queue) ==
  [s \in Symbols |->
     IF queue[s].age = "due" THEN [queue[s] EXCEPT !.age = "waiting"]
                             ELSE queue[s]]

(* Broker clock says closed, or it cannot be read (fail closed): return.   *)
CycleMarketClosed ==
  /\ pc = "idle"
  /\ entry_intents' = PurgeStale
  /\ UNCHANGED <<day, order_ledger, consumed_entries, symbol_state, live_ledger,
                 ledger_exists, dry_run_ledger, position_rows,
                 pc, cycle, hand, broker, lost, budgets>>

(* The caps ledger as the cycle reads it.  A paper ledger that cannot be   *)
(* read counts as empty; a live one that cannot be read closes the gate.   *)
ReadCapsLedger ==
  \/ caps_entries' = LoadCaps(live_ledger) /\ UNCHANGED read_faults
  \/ Mode = "ALPACA_PAPER" /\ ReadFault /\ caps_entries' = {}

(* The mode's gate: the two keys, the kill switch and the positions read   *)
(* (gate), then in LIVE the ledger; a missing one is created and leaves    *)
(* this cycle not live.                                                    *)
CycleOpens ==
  /\ pc = "idle"
  /\ \E gate \in BOOLEAN :
       /\ live_active' = (gate /\ (Mode = "LIVE" => ledger_exists))
       /\ ledger_exists' = (ledger_exists \/ (Mode = "LIVE" /\ gate))
  /\ gated' \in BOOLEAN
  /\ entry_intents' \in
       {PurgeStale} \union (IF gated' THEN {RescheduleDue(PurgeStale)} ELSE {})
  /\ projected_open_positions' =
       IF live_active' THEN Cardinality(HeldSymbols) ELSE 0
  /\ ReadCapsLedger
  /\ pc' = "create"
  /\ UNCHANGED <<day, order_ledger, consumed_entries, symbol_state, live_ledger,
                 dry_run_ledger, position_rows, hand, broker, lost,
                 crashes, faults>>

(* buy_loop: one put_entry_intent, for a candidate that has no intent.     *)
CreateIntent(s, q) ==
  /\ pc = "create" /\ ~gated
  /\ entry_intents[s] = NoIntent
  /\ entry_intents' = [entry_intents EXCEPT ![s] = [qty |-> q, age |-> "waiting"]]
  /\ UNCHANGED <<day, order_ledger, consumed_entries, symbol_state, live_ledger,
                 ledger_exists, dry_run_ledger, position_rows,
                 pc, cycle, hand, broker, lost, budgets>>

(* sell_loop.evaluate_positions upserts a row for each held candidate; no  *)
(* code path deletes one.                                                  *)
EvaluatePositions ==
  /\ pc = "create"
  /\ \E seen \in SUBSET HeldSymbols : position_rows' = position_rows \union seen
  /\ pc' = "pop"
  /\ UNCHANGED <<day, entry_intents, order_ledger, consumed_entries, symbol_state,
                 live_ledger, ledger_exists, dry_run_ledger,
                 cycle, hand, broker, lost, budgets>>

(* pop_due_entry_intents, unless the cycle is gated: whatever is due, in   *)
(* one transaction.  From here the popped intents exist in memory only.    *)
DueSymbols ==
  {s \in Symbols : ~gated /\ entry_intents[s].age \in {"due", "stale"}}

PopDue ==
  /\ pc = "pop"
  /\ batch' = {[sym |-> s, qty |-> entry_intents[s].qty] : s \in DueSymbols}
  /\ entry_intents' = [s \in Symbols |->
       IF s \in DueSymbols THEN NoIntent ELSE entry_intents[s]]
  /\ pc' = "screen"
  /\ UNCHANGED <<day, order_ledger, consumed_entries, symbol_state, live_ledger,
                 ledger_exists, dry_run_ledger, position_rows,
                 cycle, current, inflight, broker, lost, budgets>>

(* What arbitrate_intents can approve: no symbol with a position row, and  *)
(* no more than the position limit leaves room for.  Sleeves, one-shot     *)
(* suppression and an exception can only remove more, so any such subset.  *)
Approvable ==
  LET open == IF live_active THEN projected_open_positions
                             ELSE Cardinality(position_rows)
  IN {keep \in SUBSET {i \in batch : i.sym \notin position_rows} :
        keep = {} \/ open + Cardinality(keep) <= MaxPositions}

(* Arbitration, then the refresh of the symbol states from the broker's    *)
(* positions; a failing read is swallowed and leaves the states alone.     *)
Screen ==
  /\ pc = "screen"
  /\ batch' \in Approvable
  /\ \/ symbol_state' = ApplyOpenPositions(symbol_state) /\ UNCHANGED read_faults
     \/ ReadFault /\ UNCHANGED symbol_state
  /\ pc' = "next"
  /\ UNCHANGED <<day, entry_intents, order_ledger, consumed_entries, live_ledger,
                 ledger_exists, dry_run_ledger, position_rows,
                 cycle, current, inflight, broker, lost, crashes, faults>>

(* The loop takes an intent and reads its position, the first half of      *)
(* _has_open_order_or_position: an exception reads as "no position".  The  *)
(* arbiter fixes an order; it is left open here.                           *)
TakeIntent(i) ==
  /\ pc = "next"
  /\ i \in batch
  /\ Mode = "ALPACA_PAPER" => live_active
  /\ \/ ~Held(i.sym) /\ UNCHANGED read_faults
     \/ Held(i.sym) /\ ReadFault
  /\ batch' = batch \ {i}
  /\ current' = i
  /\ pc' = "guard"
  /\ UNCHANGED <<day, stores, cycle, inflight, broker, lost, crashes, faults>>

(* The position exists, or the mode is off: the intent is dropped.         *)
SkipIntent(i) ==
  /\ pc = "next"
  /\ i \in batch
  /\ Held(i.sym) \/ (Mode = "ALPACA_PAPER" /\ ~live_active)
  /\ batch' = batch \ {i}
  /\ UNCHANGED <<day, stores, pc, cycle, current, inflight, broker, lost, budgets>>

(* Mutant: neither the consumed set nor the key consulted, the symbol state only. *)
GuardsPass_StateOnly ==
  /\ ~Working(current.sym)
  /\ symbol_state[current.sym] = "FLAT"
  /\ live_active => CapsAllow

(* The other guards of the loop body.  LIVE without live_active goes on as *)
(* a dry run and skips the last two.                                       *)
GuardsPass ==
  /\ ~Working(current.sym)
  /\ <<day, current.sym>> \notin consumed_entries
  /\ symbol_state[current.sym] = "FLAT"
  /\ live_active => Key(day, current.sym, current.qty) \notin order_ledger
  /\ live_active => CapsAllow

AdmitIntent ==
  /\ pc = "guard"
  /\ GuardsPass
  /\ live_active => next_id <= MaxOrders
  /\ pc' = "submit"
  /\ UNCHANGED <<day, stores, cycle, hand, broker, lost, budgets>>

(* A guard fails.  The decision file and the quote-quality check, read at  *)
(* the same place, may refuse any intent, so this needs no guard itself.   *)
RefuseIntent ==
  /\ pc = "guard"
  /\ current' = NoIntent
  /\ pc' = "next"
  /\ UNCHANGED <<day, stores, cycle, batch, inflight, broker, lost, budgets>>

-----------------------------------------------------------------------------
(* Submission and booking of `current`                                     *)

(* The loop body ends. *)
IntentDone == pc' = "next" /\ current' = NoIntent /\ inflight' = 0

(* _requeue_entry_intent: INSERT OR REPLACE, scheduled in the future; its  *)
(* own failure is only warned about.                                       *)
Requeue ==
  \/ entry_intents' = [entry_intents EXCEPT ![current.sym] =
                         [qty |-> current.qty, age |-> "waiting"]]
  \/ UNCHANGED entry_intents

BrokerAccepts ==
  /\ orders' = orders \union
       {[id |-> next_id, sym |-> current.sym, day |-> day, qty |-> current.qty]}
  /\ status' = [status EXCEPT ![next_id] = "open"]
  /\ next_id' = next_id + 1

(* submit_order returns the order id. *)
SubmitAccepted ==
  /\ pc = "submit" /\ live_active
  /\ BrokerAccepts
  /\ inflight' = next_id
  /\ pc' = "record"
  /\ UNCHANGED <<day, stores, cycle, batch, current, lost, budgets>>

(* submit_order raises: the broker refused it, or accepted it and the      *)
(* answer was lost.  The code cannot tell which and requeues the intent.   *)
SubmitRaises ==
  /\ pc = "submit" /\ live_active
  /\ Fault
  /\ \/ UNCHANGED <<broker, lost>>
     \/ BrokerAccepts /\ lost' = lost \union {next_id}
  /\ Requeue
  /\ IntentDone
  /\ UNCHANGED <<day, order_ledger, consumed_entries, symbol_state, live_ledger,
                 ledger_exists, dry_run_ledger, position_rows,
                 cycle, batch, crashes, read_faults>>

(* _submit_market_entry(dry_run=True): once per day and symbol; a repeat   *)
(* goes to the end of the body without touching the other stores.          *)
SubmitDry ==
  /\ pc = "submit" /\ ~live_active
  /\ dry_run_ledger' = dry_run_ledger \union {<<day, current.sym>>}
  /\ pc' = IF <<day, current.sym>> \in dry_run_ledger THEN "book" ELSE "enter"
  /\ UNCHANGED <<day, entry_intents, order_ledger, consumed_entries, symbol_state,
                 live_ledger, ledger_exists, position_rows,
                 cycle, hand, broker, lost, budgets>>

(* record_order_once and record_order_submission. *)
RecordOrder ==
  /\ pc = "record"
  /\ order_ledger' = order_ledger \union {Key(day, current.sym, current.qty)}
  /\ pc' = "enter"
  /\ UNCHANGED <<day, entry_intents, consumed_entries, symbol_state, live_ledger,
                 ledger_exists, dry_run_ledger, position_rows,
                 cycle, hand, broker, lost, budgets>>

(* transition(symbol, "ENTERING") and save(). *)
EnterSymbol ==
  /\ pc = "enter"
  /\ symbol_state' = [symbol_state EXCEPT ![current.sym] = "ENTERING"]
  /\ pc' = "consume"
  /\ UNCHANGED <<day, entry_intents, order_ledger, consumed_entries, live_ledger,
                 ledger_exists, dry_run_ledger, position_rows,
                 cycle, hand, broker, lost, budgets>>

(* Mutant: marked in memory only. *)
ConsumeEntry_NotSaved ==
  /\ pc = "consume"
  /\ projected_open_positions' = projected_open_positions + 1
  /\ pc' = "book"
  /\ UNCHANGED <<day, stores, live_active, gated, caps_entries, hand, broker,
                 lost, budgets>>

(* ConsumedEntriesStore.mark, which saves. *)
ConsumeEntry ==
  /\ pc = "consume"
  /\ consumed_entries' = consumed_entries \union {<<day, current.sym>>}
  /\ projected_open_positions' = projected_open_positions + 1
  /\ pc' = "book"
  /\ UNCHANGED <<day, entry_intents, order_ledger, symbol_state, live_ledger,
                 ledger_exists, dry_run_ledger, position_rows,
                 live_active, gated, caps_entries, hand, broker, lost, budgets>>

(* LIVE adds to the ledger in memory and rewrites the file from it; a      *)
(* failing save is only warned about.                                      *)
BookLive ==
  /\ live_active /\ Mode = "LIVE"
  /\ caps_entries' = caps_entries \union {inflight}
  /\ \/ live_ledger' = caps_entries' /\ UNCHANGED faults
     \/ Fault /\ UNCHANGED live_ledger
  /\ UNCHANGED symbol_state

(* ALPACA_PAPER appends one line, polls the order for a few seconds, and   *)
(* marks the symbol OPEN when it has seen the fill.                        *)
BookPaper ==
  /\ live_active /\ Mode = "ALPACA_PAPER"
  /\ caps_entries' = caps_entries \union {inflight}
  /\ live_ledger' = live_ledger \union {inflight}
  /\ \/ UNCHANGED symbol_state
     \/ /\ status[inflight] = "filled"
        /\ symbol_state' = [symbol_state EXCEPT ![current.sym] = "OPEN"]
  /\ UNCHANGED faults

(* The caps ledger; a dry run counts nothing. *)
BookOrder ==
  /\ pc = "book"
  /\ \/ BookLive
     \/ BookPaper
     \/ ~live_active /\ UNCHANGED <<caps_entries, live_ledger, symbol_state, faults>>
  /\ IntentDone
  /\ UNCHANGED <<day, entry_intents, order_ledger, consumed_entries, ledger_exists,
                 dry_run_ledger, position_rows, live_active, gated,
                 projected_open_positions, batch, broker,
                 lost, crashes, read_faults>>

(* A booking step raises after submit_order returned.  The except clause   *)
(* requeues the intent as if nothing had been sent.  The store the step    *)
(* was writing may or may not have been written when it raised: marks and  *)
(* transitions change memory first, and the next save of the cycle writes  *)
(* them too.                                                               *)
BookingRaises ==
  /\ pc \in {"record", "enter", "consume", "book"}
  /\ Fault
  /\ \/ UNCHANGED <<order_ledger, symbol_state, consumed_entries, live_ledger>>
     \/ /\ pc = "record"
        /\ order_ledger' = order_ledger \union {Key(day, current.sym, current.qty)}
        /\ UNCHANGED <<symbol_state, consumed_entries, live_ledger>>
     \/ /\ pc = "enter"
        /\ symbol_state' = [symbol_state EXCEPT ![current.sym] = "ENTERING"]
        /\ UNCHANGED <<order_ledger, consumed_entries, live_ledger>>
     \/ /\ pc = "consume"
        /\ consumed_entries' = consumed_entries \union {<<day, current.sym>>}
        /\ UNCHANGED <<order_ledger, symbol_state, live_ledger>>
     \/ /\ pc = "book" /\ live_active /\ Mode = "ALPACA_PAPER"
        /\ live_ledger' = live_ledger \union {inflight}
        /\ UNCHANGED <<order_ledger, symbol_state, consumed_entries>>
  /\ lost' = IF <<day, current.sym>> \in consumed_entries'
               THEN lost ELSE lost \union ({inflight} \ {0})
  /\ Requeue
  /\ IntentDone
  /\ UNCHANGED <<day, ledger_exists, dry_run_ledger, position_rows,
                 cycle, batch, broker, crashes, read_faults>>

(* End of the loop.  In LIVE, and when live, partial trims follow: a trim  *)
(* marks its symbol EXITING.  ALPACA_PAPER returns before its trims.       *)
FinishCycle ==
  /\ pc = "next" /\ batch = {}
  /\ \E trimmed \in SUBSET HeldSymbols :
       /\ trimmed # {} => Mode = "LIVE" /\ live_active
       /\ symbol_state' = [s \in Symbols |->
            IF s \in trimmed THEN "EXITING" ELSE symbol_state[s]]
  /\ LeaveCycle
  /\ UNCHANGED <<day, entry_intents, order_ledger, consumed_entries, live_ledger,
                 ledger_exists, dry_run_ledger, position_rows,
                 broker, lost, budgets>>

-----------------------------------------------------------------------------
(* The rest of the world                                                   *)

(* The process dies between two steps of a cycle and is started again, or  *)
(* an exception nobody catches ends run_once and main() calls it again.    *)
Crash ==
  /\ pc # "idle"
  /\ crashes < MaxCrashes
  /\ crashes' = crashes + 1
  /\ lost' = IF pc \in Unbooked THEN lost \union ({inflight} \ {0}) ELSE lost
  /\ LeaveCycle
  /\ UNCHANGED <<day, stores, broker, faults, read_faults>>

(* A working entry order fills, or is cancelled or rejected. *)
OrderMoves(o) ==
  /\ status[o.id] = "open"
  /\ \E outcome \in {"filled", "dead"} :
       status' = [status EXCEPT ![o.id] = outcome]
  /\ UNCHANGED <<day, stores, pc, cycle, hand, orders, next_id, lost, budgets>>

(* The position in s is closed: its stop fires or it is sold. *)
ClosePosition(s) ==
  /\ Held(s)
  /\ status' = [i \in OrderIds |->
       IF status[i] = "filled" /\ (\E o \in orders : o.id = i /\ o.sym = s)
         THEN "closed" ELSE status[i]]
  /\ UNCHANGED <<day, stores, pc, cycle, hand, orders, next_id, lost, budgets>>

(* Time passes scheduled_entry_at, then scheduled_entry_at plus the TTL. *)
Age(s) ==
  /\ entry_intents[s].age \in {"waiting", "due"}
  /\ entry_intents' = [entry_intents EXCEPT ![s].age =
       IF @ = "waiting" THEN "due" ELSE "stale"]
  /\ UNCHANGED <<day, order_ledger, consumed_entries, symbol_state, live_ledger,
                 ledger_exists, dry_run_ledger, position_rows,
                 pc, cycle, hand, broker, lost, budgets>>

(* Overnight: DAY orders expire and the per-date files of the new date do  *)
(* not exist yet.  The SQLite tables and the broker's positions stay.      *)
NextDay ==
  /\ pc = "idle" /\ day < MaxDay
  /\ day' = day + 1
  /\ status' = [i \in OrderIds |-> IF status[i] = "open" THEN "dead" ELSE status[i]]
  /\ symbol_state' = [s \in Symbols |-> "FLAT"]
  /\ live_ledger' = {} /\ ledger_exists' = FALSE
  /\ UNCHANGED <<entry_intents, order_ledger, consumed_entries, dry_run_ledger,
                 position_rows, pc, cycle, hand, orders, next_id, lost, budgets>>

-----------------------------------------------------------------------------
(* The steps of a cycle once it has begun. *)
CycleStep ==
  \/ \E s \in Symbols, q \in Qtys : CreateIntent(s, q)
  \/ EvaluatePositions \/ PopDue \/ Screen
  \/ \E i \in batch : TakeIntent(i) \/ SkipIntent(i)
  \/ AdmitIntent \/ RefuseIntent
  \/ SubmitAccepted \/ SubmitRaises \/ SubmitDry
  \/ RecordOrder \/ EnterSymbol \/ ConsumeEntry \/ BookOrder
  \/ BookingRaises \/ FinishCycle

Next ==
  \/ CycleMarketClosed \/ CycleOpens
  \/ CycleStep
  \/ Crash
  \/ \E o \in orders : OrderMoves(o)
  \/ \E s \in Symbols : ClosePosition(s) \/ Age(s)
  \/ NextDay

Spec == Init /\ [][Next]_vars

(* main() calls run_once forever, and every call in it returns or raises.  *)
(* Nothing is assumed of the market, the broker or the clock: a cycle may  *)
(* find the market closed every time.                                      *)
Fairness == WF_vars(CycleMarketClosed) /\ WF_vars(CycleStep)

LiveSpec == Spec /\ Fairness

-----------------------------------------------------------------------------
(* Properties                                                              *)

(* Every variable stays in its type. *)
TypeOK ==
  /\ day \in Days
  /\ entry_intents \in [Symbols -> Queued \union {NoIntent}]
  /\ order_ledger \subseteq Days \X Symbols \X Qtys
  /\ consumed_entries \subseteq Days \X Symbols
  /\ dry_run_ledger \subseteq Days \X Symbols
  /\ symbol_state \in [Symbols -> States]
  /\ live_ledger \subseteq OrderIds /\ ledger_exists \in BOOLEAN
  /\ position_rows \subseteq Symbols
  /\ pc \in Steps /\ live_active \in BOOLEAN /\ gated \in BOOLEAN
  /\ caps_entries \subseteq OrderIds /\ projected_open_positions \in Nat
  /\ batch \subseteq Intent
  /\ current \in Intent \union {NoIntent}
  /\ pc \in InHand <=> current # NoIntent
  /\ inflight \in OrderIds \union {0}
  /\ orders \subseteq Order /\ status \in [OrderIds -> Statuses]
  /\ next_id \in 1..(MaxOrders + 1)
  /\ lost \subseteq OrderIds
  /\ crashes \in 0..MaxCrashes /\ faults \in 0..MaxFaults
  /\ read_faults \in 0..MaxReadFaults

(* Orders whose booking got as far as consumed_entries. *)
Booked == {o \in orders : o.id \notin lost /\ (pc \in Unbooked => o.id # inflight)}

(* Whatever is cancelled, closed or requeued in between, a symbol gets at  *)
(* most one booked entry per day; only orders the process lost track of    *)
(* (crash or exception between submit and mark) can add to it.             *)
OneBookedEntryPerDay ==
  \A o, p \in orders \ {x \in orders : x.id \in lost} :
    o.sym = p.sym /\ o.day = p.day => o = p

(* Two entries of one symbol are never at the broker together, working or  *)
(* held, unless the process lost track of one of them: the position read,  *)
(* the open-order read, the consumed set and the overnight expiry together *)
(* leave no other way, also from one day to the next.  One failing         *)
(* position read is survived, because the symbol state was refreshed by    *)
(* another read; two are not.                                              *)
BookedEntriesDoNotStack ==
  read_faults <= 1 => \A o, p \in {x \in orders : Alive(x) /\ x.id \notin lost} :
    o.sym = p.sym => o = p

(* An order that is booked can be found by its idempotency key: the key    *)
(* store is never behind the consumed set.                                 *)
BookedOrdersAreKeyed ==
  \A o \in Booked : OrderKey(o) \in order_ledger

(* An intent is queued in the table or in the hands of the cycle, never    *)
(* both: popping, requeueing and creating cannot duplicate it.             *)
QueuedOrInHand ==
  /\ \A i \in batch : entry_intents[i.sym] = NoIntent
  /\ \A i \in batch : \A j \in batch \union {current} :
       (j # NoIntent /\ i.sym = j.sym) => (i = j /\ i # current)
  /\ current # NoIntent => entry_intents[current.sym] = NoIntent

(* While nothing was lost, a symbol with a live entry of today is never    *)
(* FLAT in symbol_execution_state, whatever the refresh from the broker's  *)
(* positions and the trims did to it since.                                *)
FlatMeansNoExposure ==
  lost = {} /\ read_faults = 0 =>
    \A o \in Booked : o.day = day /\ Alive(o) => symbol_state[o.sym] # "FLAT"

(* max_orders_per_day holds for the broker's orders of each day, but for   *)
(* those a crash or a raising call kept out of the caps ledger, as long as *)
(* the ledger could be read.                                               *)
DailyOrderCap ==
  read_faults = 0 => \A d \in Days :
    Cardinality({o \in orders : o.day = d}) <= MaxOrdersPerDay + crashes + faults

(* An intent past its TTL leaves the table, whatever the gates say. *)
StaleIntentsLeave ==
  \A s \in Symbols : entry_intents[s].age = "stale" ~> entry_intents[s].age # "stale"

=============================================================================
