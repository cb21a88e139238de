----------------------------- MODULE EntryGates -----------------------------
(***************************************************************************)
(* What stands between a candidate and an order: the buy loop sizes the    *)
(* candidates of a pass one after the other under the risk controls of the *)
(* date; the intents that are due go through the portfolio arbiter, the    *)
(* strategy sleeves and the decision file of the date; and what is bought  *)
(* becomes, when the sell loop next sees it, a row of the positions table, *)
(* which is all that the sizing, the arbiter and the sleeves know of the   *)
(* book.  EntryPipeline models what happens to an approved intent on its   *)
(* way to the broker; here it is bought whole or not at all.               *)
(*                                                                         *)
(* A share costs one unit, so a size is also a notional; symbols and       *)
(* strategies are numbers in the order of their names.                     *)
(***************************************************************************)
EXTENDS Integers, FiniteSets, FiniteSetsExt

CONSTANTS
  Candidates,
  Strategies,            \* 1 is the default strategy
  StrategyOf,            \* Strategy_ID of the candidates file, by symbol
  MaxBase,               \* largest size before the risk controls
  BasePositions, BaseGross, BaseCap,  \* the limits at full risk
  MaxLive,               \* MAX_LIVE_POSITIONS as the arbiter and caps read it
  SleevePositions, SleeveGross, \* by strategy
  Labels                \* bound: the regime labels explored

ASSUME EntryGatesConstants ==
  /\ Candidates \subseteq Nat /\ IsFiniteSet(Candidates)
  /\ Strategies \subseteq Nat /\ IsFiniteSet(Strategies) /\ 1 \in Strategies
  /\ StrategyOf \in [Candidates -> Strategies]
  /\ {MaxBase, BasePositions, BaseGross, BaseCap, MaxLive} \subseteq Nat \ {0}
  /\ SleevePositions \in [Strategies -> Nat] /\ SleeveGross \in [Strategies -> Nat]
  /\ Labels \subseteq {"RISK_ON", "NEUTRAL", "RISK_OFF", "missing"}

VARIABLES
  g_pc,     \* "idle", "create", "evaluate", "pop", "arbitrate", "sleeves", "submit"
  rows,     \* positions table, by symbol; None when there is no row
  intents,  \* entry_intents: size by symbol, 0 if none
  held,     \* the broker's positions: size by symbol, 0 if none
  open,     \* positions_count of the cycle, plus what the cycle bought
  pass,     \* of the buy loop: controls, counters, symbols left
  batch,    \* the popped intents still in the gates, one a symbol at most
  decisions \* symbols of the batch the decision file lets through

g_vars == <<g_pc, rows, intents, held, open, pass, batch, decisions>>

-----------------------------------------------------------------------------
None  == [strategy |-> 0, size |-> 0]
Rowed == {s \in Candidates : rows[s] # None}
Held  == {s \in Candidates : held[s] > 0}

(* What the positions table says of a set of symbols. *)
RowsGross(S) == MapThenSumSet(LAMBDA s : rows[s].size, S)
RowsOf(k)    == {s \in Rowed : rows[s].strategy = k}

NoPass == [on |-> FALSE, risk |-> 0, slots |-> 0, projected |-> 0, gross |-> 0,
           created |-> 0, todo |-> {}]

GatesInit ==
  /\ g_pc = "idle" /\ open = 0 /\ pass = NoPass /\ batch = {} /\ decisions = {}
  /\ rows = [s \in Candidates |-> None]
  /\ intents = [s \in Candidates |-> 0]
  /\ held = [s \in Candidates |-> 0]

-----------------------------------------------------------------------------
(* The risk controls of the date.  The latest throttle record, else the    *)
(* latest regime record, else none: a label, halved at low confidence.     *)
(* Multipliers in twentieths.                                              *)
Scale == 20
Full == [RISK_ON |-> <<20, 20>>, NEUTRAL |-> <<12, 14>>, RISK_OFF |-> <<4, 6>>,
         missing |-> <<0, 0>>]

ReadThrottle(label, low) ==
  [j \in 1..2 |-> IF low THEN Full[label][j] \div 2 ELSE Full[label][j]]

(* The drawdown guardrail would take the multiplier to zero, too, but no   *)
(* drawdown the snapshots hold reaches its limit: see PortfolioBook.       *)
Controls(label, low) ==
  [risk  |-> ReadThrottle(label, low)[1],
   slots |-> (BasePositions * ReadThrottle(label, low)[2]) \div Scale]

(* adjust_order_quantity: scaled, capped, and never below one share unless *)
(* the multiplier is zero.                                                 *)
Adjusted(base, risk, gross) ==
  LET room == Max({0, BaseGross * risk - Scale * gross}) \div Scale
  IN IF risk = 0 THEN 0
     ELSE Max({1, Min({(base * risk) \div Scale, (BaseCap * risk) \div Scale, room})})

(* A cycle: the gate counts the positions; the buy loop, if it runs, takes *)
(* its counters from the positions table and its controls from the ledgers.*)
BeginCycle ==
  /\ g_pc = "idle"
  /\ open' = Cardinality(Held)
  /\ \E todo \in SUBSET Candidates, on \in BOOLEAN, label \in Labels,
        low \in BOOLEAN :
       LET c == Controls(label, low) IN
       pass' = [on |-> on, risk |-> IF on THEN c.risk ELSE Scale,
                slots |-> IF on THEN c.slots ELSE 0, created |-> 0, todo |-> todo,
                projected |-> Cardinality(Rowed), gross |-> RowsGross(Rowed)]
  /\ g_pc' = "create"
  /\ UNCHANGED <<rows, intents, held, batch, decisions>>

(* An intent is there, the slots are used up, the bars do not confirm, the *)
(* risk is refused, ... : the candidate is passed over.                    *)
PassOver(s) ==
  /\ g_pc = "create" /\ s \in pass.todo
  /\ pass' = [pass EXCEPT !.todo = @ \ {s}]
  /\ UNCHANGED <<g_pc, rows, intents, held, open, batch, decisions>>

(* Mutant: the counters of the pass left as they were read. *)
Create_NotCounted(s) ==
  /\ g_pc = "create" /\ s \in pass.todo
  /\ intents[s] = 0
  /\ pass.on => pass.projected < pass.slots
  /\ \E base \in 1..MaxBase :
       LET size == IF pass.on THEN Adjusted(base, pass.risk, pass.gross) ELSE base
       IN /\ size > 0
          /\ intents' = [intents EXCEPT ![s] = size]
          /\ pass' = [pass EXCEPT !.todo = @ \ {s}, !.created = @ + 1]
  /\ UNCHANGED <<g_pc, rows, held, open, batch, decisions>>

(* A confirmed candidate becomes an intent; the pass counts it. *)
Create(s) ==
  /\ g_pc = "create" /\ s \in pass.todo
  /\ intents[s] = 0
  /\ pass.on => pass.projected < pass.slots
  /\ \E base \in 1..MaxBase :
       LET size == IF pass.on THEN Adjusted(base, pass.risk, pass.gross) ELSE base
       IN /\ size > 0
          /\ intents' = [intents EXCEPT ![s] = size]
          /\ pass' = [pass EXCEPT !.todo = @ \ {s}, !.created = @ + 1,
                                  !.projected = @ + 1, !.gross = @ + size]
  /\ UNCHANGED <<g_pc, rows, held, open, batch, decisions>>

EndPass ==
  /\ g_pc = "create" /\ pass.todo = {}
  /\ pass' = NoPass
  /\ g_pc' = "evaluate"
  /\ UNCHANGED <<rows, intents, held, open, batch, decisions>>

(* The sell loop upserts a row for each held symbol that is a candidate: a *)
(* new row is the default strategy's, whoever opened the position; a row   *)
(* that is there keeps its strategy.  No code deletes a row.               *)
EvaluatePositions ==
  /\ g_pc = "evaluate"
  /\ \E seen \in SUBSET Held :
       rows' = [s \in Candidates |->
         IF s \notin seen THEN rows[s]
         ELSE [strategy |-> IF rows[s] = None THEN 1 ELSE rows[s].strategy,
               size |-> held[s]]]
  /\ g_pc' = "pop"
  /\ UNCHANGED <<intents, held, open, pass, batch, decisions>>

(* Whatever is due leaves the store, in one transaction; some of it may be *)
(* past its validity.                                                      *)
PopDue ==
  /\ g_pc = "pop"
  /\ \E due \in SUBSET {s \in Candidates : intents[s] > 0} : \E late \in SUBSET due :
       /\ batch' = {[sym |-> s, size |-> intents[s], late |-> s \in late] : s \in due}
       /\ intents' = [s \in Candidates |-> IF s \in due THEN 0 ELSE intents[s]]
  /\ g_pc' = "arbitrate"
  /\ UNCHANGED <<rows, held, open, pass, decisions>>

-----------------------------------------------------------------------------
(* Every intent goes to the arbiter twice, as itself and as the clone of a *)
(* shadow strategy, whose name sorts after the names of the strategies.    *)
TradeIntents ==
  {[sym |-> i.sym, size |-> i.size, late |-> i.late,
    strategy |-> StrategyOf[i.sym], shadow |-> x] : i \in batch, x \in BOOLEAN}

(* The sort key of two intents for one symbol, both to buy. *)
Before(t, u) ==
  \/ t.size > u.size
  \/ t.size = u.size /\ ~t.shadow /\ u.shadow
  \/ t.size = u.size /\ t.shadow = u.shadow /\ t.strategy < u.strategy

(* One winner a symbol, none for a symbol with a row, and the first of     *)
(* them, by symbol, that the position limit has room for.                  *)
ApprovedOrders ==
  LET valid    == {t \in TradeIntents : ~t.late}
      winners  == {t \in valid : \A u \in valid : u.sym = t.sym => ~Before(u, t)}
      filtered == {t \in winners : t.sym \notin Rowed}
  IN {t \in filtered :
        open + Cardinality({u \in filtered : u.sym < t.sym}) < MaxLive}

(* arbitrate_intents, then the entry intents of the approved orders: a     *)
(* clone's order finds none.                                               *)
Arbitrate ==
  /\ g_pc = "arbitrate"
  /\ LET orders == ApprovedOrders IN
     batch' = {i \in batch : \E t \in orders : t.sym = i.sym /\ ~t.shadow}
  /\ g_pc' = "sleeves"
  /\ UNCHANGED <<rows, intents, held, open, pass, decisions>>

(* An exception in the arbiter blocks the batch, and skips the sleeves.    *)
ArbiterFails ==
  /\ g_pc = "arbitrate"
  /\ batch' = {}
  /\ g_pc' = "submit"
  /\ UNCHANGED <<rows, intents, held, open, pass, decisions>>

(* Mutant: what a strategy has used of its sleeve by the table alone. *)
Used_RowsOnly(k, ok) ==
  [positions |-> Cardinality(RowsOf(k)), gross |-> RowsGross(RowsOf(k))]

(* What a strategy has used of its sleeve: by the table, and by what the   *)
(* batch was already granted.                                              *)
Used(k, ok) ==
  LET mine == {i \in ok : StrategyOf[i.sym] = k}
  IN [positions |-> Cardinality(RowsOf(k)) + Cardinality(mine),
      gross |-> RowsGross(RowsOf(k)) + MapThenSumSet(LAMBDA i : i.size, mine)]

(* The reasons to block an intent.  A strategy whose loss of the day is    *)
(* unknown or past its limit is paused.                                    *)
SleeveAllows(i, ok, paused) ==
  LET k == StrategyOf[i.sym] IN
  /\ i.sym \in Rowed => rows[i.sym].strategy = k
  /\ k \notin paused
  /\ Used(k, ok).positions < SleevePositions[k]
  /\ Used(k, ok).gross + i.size <= SleeveGross[k]

(* enforce_sleeves: one strategy without a sleeve, in the batch or in the  *)
(* table, blocks everything; else the intents are taken by symbol, each    *)
(* against those before it that were granted.                              *)
Enforced(sleeved, paused) ==
  IF {StrategyOf[i.sym] : i \in batch} \cup {rows[s].strategy : s \in Rowed} \subseteq sleeved
  THEN CHOOSE ok \in SUBSET batch : \A i \in batch :
         i \in ok <=> SleeveAllows(i, {j \in ok : j.sym < i.sym}, paused)
  ELSE {}

(* The sleeve configuration of the environment, and then the decision file *)
(* of the date: everything passes when it is not enforced, nothing when it *)
(* is missing, malformed or of another date, else what it allows.          *)
ApplySleeves ==
  /\ g_pc = "sleeves"
  /\ \/ \E sleeved \in SUBSET Strategies : \E paused \in SUBSET sleeved :
          batch' = Enforced(sleeved, paused)
     \/ batch' = {}
  /\ decisions' \in SUBSET {i.sym : i \in batch'}
  /\ g_pc' = "submit"
  /\ UNCHANGED <<rows, intents, held, open, pass>>

-----------------------------------------------------------------------------
(* The intents are submitted by symbol, too. *)
IsNext(i) == \A j \in batch : i.sym <= j.sym

(* The order is placed and fills. *)
Buy(i) ==
  /\ g_pc = "submit" /\ IsNext(i)
  /\ i.sym \in decisions
  /\ held[i.sym] = 0
  /\ open < MaxLive
  /\ held' = [held EXCEPT ![i.sym] = i.size]
  /\ open' = open + 1
  /\ batch' = batch \ {i}
  /\ UNCHANGED <<g_pc, rows, intents, pass, decisions>>

(* The decision file, the broker's state, a cap or any other guard of the  *)
(* submission stops the order.                                             *)
Refuse(i) ==
  /\ g_pc = "submit" /\ IsNext(i)
  /\ batch' = batch \ {i}
  /\ UNCHANGED <<g_pc, rows, intents, held, open, pass, decisions>>

EndCycle ==
  /\ g_pc = "submit" /\ batch = {}
  /\ g_pc' = "idle" /\ open' = 0 /\ decisions' = {}
  /\ UNCHANGED <<rows, intents, held, pass, batch>>

(* A stop or a manual exit closes a position, at any time. *)
Close(s) ==
  /\ held[s] > 0
  /\ held' = [held EXCEPT ![s] = 0]
  /\ UNCHANGED <<g_pc, rows, intents, open, pass, batch, decisions>>

GatesNext ==
  \/ BeginCycle \/ EndPass \/ EvaluatePositions \/ PopDue
  \/ Arbitrate \/ ArbiterFails \/ ApplySleeves \/ EndCycle
  \/ \E i \in batch : Buy(i) \/ Refuse(i)
  \/ \E s \in Candidates : PassOver(s) \/ Create(s) \/ Close(s)

GatesSpec == GatesInit /\ [][GatesNext]_g_vars

-----------------------------------------------------------------------------
(* A pass of the buy loop stays within the slots of the date, and its      *)
(* gross exposure within the limit of the date but for one share per       *)
(* intent: the minimum order size is not subject to the caps.              *)
PassWithinBudgets ==
  pass.on /\ pass.created > 0 =>
    /\ pass.projected <= pass.slots
    /\ pass.projected = Cardinality(Rowed) + pass.created
    /\ RowsGross(Rowed) + MapThenSumSet(LAMBDA s : intents[s],
                                        {s \in Candidates : intents[s] > 0})
         >= pass.gross
    /\ pass.gross <= Max({(BaseGross * pass.risk) \div Scale, RowsGross(Rowed)})
                       + pass.created

(* What the sleeves let through keeps every strategy that is granted       *)
(* something within its limits, by the positions table.                    *)
SleevesHoldByTheTable ==
  g_pc = "submit" =>
    \A k \in {StrategyOf[i.sym] : i \in batch} :
      LET granted == {i \in batch : StrategyOf[i.sym] = k}
      IN /\ Cardinality(RowsOf(k)) + Cardinality(granted) <= SleevePositions[k]
         /\ RowsGross(RowsOf(k)) + MapThenSumSet(LAMBDA i : i.size, granted)
              <= SleeveGross[k]

=============================================================================
