---------------------------- MODULE StopManager ----------------------------
(***************************************************************************)
(* exits.manage_positions for one symbol, in the modes LIVE and            *)
(* ALPACA_PAPER: once per cycle the protective stop order of a position is *)
(* read back from the broker, ratcheted to the structural stop and         *)
(* replaced by cancel and submit.  Nothing is stored: the broker's order   *)
(* IS the state of the ratchet.  Reads, cancels and the submission are     *)
(* separate calls, and the market, the entry order and the broker's own    *)
(* cancellation go on between them.                                        *)
(*                                                                         *)
(* Prices and stop levels are small numbers.  Symbols do not interact:     *)
(* manage_positions handles them one after the other, and an exception of  *)
(* one does not reach the next.                                            *)
(***************************************************************************)
EXTENDS Naturals, FiniteSets, FiniteSetsExt

CONSTANTS
  MaxQty,     \* bound: shares of the position
  MaxLevel,   \* bound: stop levels 1..MaxLevel, all below the entry price
  MaxDay,     \* bound: sessions explored
  MaxFills,   \* bound: fills of entry orders
  MaxFaults   \* bound: calls that raise, and process crashes

ASSUME StopBounds ==
  /\ MaxQty \in Nat /\ MaxLevel \in Nat /\ MaxDay \in Nat /\ MaxDay >= 1
  /\ MaxFills \in Nat /\ MaxFaults \in Nat

VARIABLES
  day, phase,  \* SessionPhase of the clock
  price,       \* the market price
  structure,   \* the structural stop the bars give, 0 if none
  position,    \* shares held at the broker
  orders,      \* slot -> working sell order of the symbol, or Free
  pc,
  delay,       \* entry_delay_active, as the cycle began
  qty, seen_price,  \* the position as get_all_positions returned it
  existing,    \* _read_existing_stop, 0 for None
  desired,     \* desired_stop
  to_cancel,   \* mismatched_stops still to be cancelled
  best,        \* history: the highest level since protection last broke
  fills, faults

market == <<day, phase, price, structure>>
local  == <<delay, qty, seen_price, existing, desired, to_cancel>>
vars   == <<market, position, orders, pc, local, best, fills, faults>>

-----------------------------------------------------------------------------
Levels == 1..MaxLevel
Prices == 1..(MaxLevel + 1)
Slots  == 1..MaxQty
Phases == {"OPEN_NOISE", "EARLY_TREND", "NORMAL_SESSION", "CLOSE_PROTECT"}
Steps  == {"idle", "existing", "decide", "reconcile", "cancel", "reread", "submit"}

Free      == [type |-> "free"]
StopOrder == [type : {"stop"}, qty : Slots, level : Levels,
              status : {"open", "pending_cancel"}]
SellOrder == [type : {"other"}, qty : Slots]

OpenStops  == {i \in Slots : orders[i].type = "stop" /\ orders[i].status = "open"}
OtherSells == {i \in Slots : orders[i].type = "other"}

(* Mutant: the quantity is not compared. *)
Matches_AnyQty(i) == i \in OpenStops /\ orders[i].level = desired

(* _matching_stop_order. *)
Matches(i) == i \in OpenStops /\ orders[i].qty = qty /\ orders[i].level = desired

(* The broker holds the shares of every sell order until it is really gone; *)
(* an order for more than the rest is refused: "insufficient qty available". *)
HeldShares == MapThenSumSet(LAMBDA i : orders[i].qty,
                            {i \in Slots : orders[i] # Free})
Available  == IF HeldShares >= position THEN 0 ELSE position - HeldShares

Fault == faults < MaxFaults /\ faults' = faults + 1

(* The symbol is done, or the process died: the locals are gone. *)
Done ==
  /\ pc' = "idle"
  /\ delay' = FALSE /\ qty' = 0 /\ seen_price' = 0 /\ existing' = 0 /\ desired' = 0
  /\ to_cancel' = {}

Init ==
  /\ day = 1 /\ phase = "OPEN_NOISE" /\ price = MaxLevel + 1 /\ structure = 0
  /\ position = 0 /\ orders = [i \in Slots |-> Free]
  /\ pc = "idle" /\ delay = FALSE /\ qty = 0 /\ seen_price = 0
  /\ existing = 0 /\ desired = 0
  /\ to_cancel = {} /\ best = 0 /\ fills = 0 /\ faults = 0

-----------------------------------------------------------------------------
(* manage_positions                                                        *)

(* get_all_positions: quantity and price of this moment.  The entry delay, *)
(* by default 20 minutes from the open, was looked up before; it ends in   *)
(* EARLY_TREND, and OPEN_NOISE is also the phase of the closed market.     *)
ReadPosition ==
  /\ pc = "idle" /\ position > 0
  /\ delay' \in {FALSE, (phase \in {"OPEN_NOISE", "EARLY_TREND"})}
  /\ qty' = position /\ seen_price' = price
  /\ pc' = "existing"
  /\ UNCHANGED <<market, position, orders, existing, desired, to_cancel,
                 best, fills, faults>>

(* _read_existing_stop: the level of one of the open stops.  When the      *)
(* order read fails, and the unfiltered one after it, there is none.       *)
ReadExisting ==
  /\ pc = "existing"
  /\ \/ /\ existing' \in (IF OpenStops = {} THEN {0}
                          ELSE {orders[i].level : i \in OpenStops})
        /\ UNCHANGED faults
     \/ Fault /\ existing' = 0
  /\ pc' = "decide"
  /\ UNCHANGED <<market, position, orders, delay, qty, seen_price, desired, to_cancel,
                 best, fills>>

(* In the entry delay after the open a symbol with a stop is left alone. *)
LeftAlone == delay /\ existing > 0

DelaySkips ==
  /\ pc = "decide" /\ LeftAlone
  /\ Done
  /\ UNCHANGED <<market, position, orders, best, fills, faults>>

(* select_stop_candidate: no candidate before the close, and the ratchet   *)
(* works between the opening noise and then.                               *)
Candidate     == IF phase = "CLOSE_PROTECT" THEN 0 ELSE structure
AllowTrailing == phase \in {"EARLY_TREND", "NORMAL_SESSION"}

(* Mutant: the stop follows the structure down as well as up. *)
Desired_Follows ==
  IF AllowTrailing /\ Candidate > 0 THEN Candidate
  ELSE IF existing > 0 THEN existing ELSE Candidate

(* apply_trailing_stop, or the existing stop, or the first one. *)
Desired ==
  IF AllowTrailing THEN Max({existing, Candidate})
  ELSE IF existing > 0 THEN existing ELSE Candidate

(* main() sets cfg.dry_run to False in both modes, and manage_positions    *)
(* gets that flag and not the verdict of the live gate.                    *)
DryRun == FALSE

(* There is a stop to want, and it is below the price that was read.       *)
DecideStop ==
  /\ pc = "decide" /\ ~LeftAlone /\ ~DryRun
  /\ Desired > 0 /\ Desired < seen_price
  /\ desired' = Desired
  /\ pc' = "reconcile"
  /\ UNCHANGED <<market, position, orders, delay, qty, seen_price, existing,
                 to_cancel, best, fills, faults>>

(* No stop wanted, guardrail A, or no market data. *)
DecideNothing ==
  /\ pc = "decide" /\ ~LeftAlone
  /\ \/ (Desired = 0 \/ Desired >= seen_price) /\ UNCHANGED faults
     \/ Fault
  /\ Done
  /\ UNCHANGED <<market, position, orders, best, fills>>

(* A sell order for the whole quantity: STOP_SKIP_HELD. *)
HoldsAll(i) == i \in OpenStops \union OtherSells /\ orders[i].qty >= qty

(* History: the symbol is left, perhaps without a working stop. *)
Protection == IF OpenStops = {} THEN 0 ELSE best

(* reconcile_stop_order reads the open orders: a matching one ends it, and *)
(* so does, if there is no stop to cancel, one that holds the shares.      *)
Reconcile ==
  /\ pc = "reconcile"
  /\ \/ /\ \/ \E i \in Slots : Matches(i)
           \/ OpenStops = {} /\ \E i \in Slots : HoldsAll(i)
        /\ Done /\ best' = Protection
     \/ /\ OpenStops # {} /\ ~ \E i \in Slots : Matches(i)
        /\ to_cancel' = OpenStops /\ pc' = "cancel"
        /\ UNCHANGED <<delay, qty, seen_price, existing, desired, best>>
     \/ /\ OpenStops = {} /\ ~ \E i \in Slots : HoldsAll(i)
        /\ pc' = "submit"
        /\ UNCHANGED <<local, best>>
  /\ UNCHANGED <<market, position, orders, fills, faults>>

(* The read fails: an empty list, so nothing to cancel. *)
ReconcileBlind ==
  /\ pc = "reconcile" /\ Fault
  /\ pc' = "submit"
  /\ UNCHANGED <<market, position, orders, local, best, fills>>

(* Mutant: every stop in sight is left working. *)
CancelStop_Skips(i) ==
  /\ pc = "cancel" /\ i \in to_cancel
  /\ to_cancel' = to_cancel \ {i}
  /\ pc' = IF to_cancel' = {} THEN "submit" ELSE "cancel"
  /\ UNCHANGED <<market, position, orders, delay, qty, seen_price, existing, desired,
                 best, fills, faults>>

(* cancel_order_by_id: the broker accepts the request; an exception, also  *)
(* because the order is gone by now, goes on to the next one.              *)
CancelStop(i) ==
  /\ pc = "cancel" /\ i \in to_cancel
  /\ \/ /\ orders' = IF i \in OpenStops
                       THEN [orders EXCEPT ![i].status = "pending_cancel"]
                       ELSE orders
        /\ UNCHANGED faults
     \/ Fault /\ UNCHANGED orders
  /\ to_cancel' = to_cancel \ {i}
  /\ pc' = IF to_cancel' = {} THEN "reread" ELSE "cancel"
  /\ UNCHANGED <<market, position, delay, qty, seen_price, existing, desired,
                 best, fills>>

(* After the cancels the orders are read again: a matching one, or one     *)
(* that holds the shares, ends it.  A read that fails shows no order.      *)
Reread ==
  /\ pc = "reread"
  /\ IF \E i \in Slots : Matches(i) \/ HoldsAll(i)
       THEN Done /\ best' = Protection
       ELSE pc' = "submit" /\ UNCHANGED <<local, best>>
  /\ UNCHANGED <<market, position, orders, fills, faults>>

RereadBlind ==
  /\ pc = "reread" /\ Fault
  /\ pc' = "submit"
  /\ UNCHANGED <<market, position, orders, local, best, fills>>

BrokerAccepts ==
  \E i \in Slots :
    /\ orders[i] = Free
    /\ orders' = [orders EXCEPT ![i] =
         [type |-> "stop", qty |-> qty, level |-> desired, status |-> "open"]]
    /\ best' = Max({best, desired})

(* The stop is placed. *)
SubmitAccepted ==
  /\ pc = "submit" /\ qty <= Available
  /\ BrokerAccepts
  /\ Done
  /\ UNCHANGED <<market, position, fills, faults>>

(* STOP_SUBMIT_BLOCKED: the shares are not free (yet). *)
SubmitBlocked ==
  /\ pc = "submit" /\ qty > Available
  /\ best' = Protection
  /\ Done
  /\ UNCHANGED <<market, position, orders, fills, faults>>

(* The call raises; the order may have been accepted all the same. *)
SubmitRaises ==
  /\ pc = "submit" /\ Fault
  /\ \/ qty <= Available /\ BrokerAccepts
     \/ UNCHANGED orders /\ best' = Protection
  /\ Done
  /\ UNCHANGED <<market, position, fills>>

(* The process dies between two calls. *)
Crash ==
  /\ pc # "idle" /\ Fault
  /\ best' = Protection
  /\ Done
  /\ UNCHANGED <<market, position, orders, fills>>

-----------------------------------------------------------------------------
(* The market and the broker                                               *)

(* Shares are sold or an order ends.  A stop that fired leaves no          *)
(* protection, and when the position is gone its history starts anew.      *)
Leave(n, slots, fired) ==
  /\ position' = position - n
  /\ orders' = slots
  /\ best' = (IF position' = 0 \/ (fired /\ OpenStops' = {}) THEN 0 ELSE best)

Tick(p) ==
  /\ price' = p /\ price' # price
  /\ UNCHANGED <<day, phase, structure, position, orders, pc, local, best,
                 fills, faults>>

NewBars(s) ==
  /\ structure' = s /\ structure' # structure
  /\ UNCHANGED <<day, phase, price, position, orders, pc, local, best,
                 fills, faults>>

(* The entry order fills, perhaps in parts. *)
EntryFills(n) ==
  /\ fills < MaxFills /\ position + n <= MaxQty
  /\ position' = position + n
  /\ fills' = fills + 1
  /\ UNCHANGED <<market, orders, pc, local, best, faults>>

(* A stop whose level is reached sells, a cancel request notwithstanding.  *)
StopFires(i) ==
  /\ orders[i].type = "stop" /\ price <= orders[i].level
  /\ Leave(orders[i].qty, [orders EXCEPT ![i] = Free], TRUE)
  /\ UNCHANGED <<market, pc, local, fills, faults>>

(* The broker gets to a cancel request. *)
CancelCompletes ==
  /\ \E i \in Slots : orders[i].type = "stop" /\ orders[i].status = "pending_cancel"
  /\ orders' = [i \in Slots |->
       IF orders[i].type = "stop" /\ orders[i].status = "pending_cancel"
         THEN Free ELSE orders[i]]
  /\ UNCHANGED <<market, position, pc, local, best, fills, faults>>

(* Somebody else's sell order: a trim, a close, an operator. *)
OtherSell(n) ==
  /\ n <= Available
  /\ \E i \in Slots : orders[i] = Free
       /\ orders' = [orders EXCEPT ![i] = [type |-> "other", qty |-> n]]
  /\ UNCHANGED <<market, position, pc, local, best, fills, faults>>

(* It fills, or is cancelled. *)
OtherEnds(i) ==
  /\ i \in OtherSells
  /\ \E n \in {0, orders[i].qty} : Leave(n, [orders EXCEPT ![i] = Free], FALSE)
  /\ UNCHANGED <<market, pc, local, fills, faults>>

NextPhase ==
  /\ phase' = CASE phase = "OPEN_NOISE"     -> "EARLY_TREND"
                [] phase = "EARLY_TREND"    -> "NORMAL_SESSION"
                [] phase = "NORMAL_SESSION" -> "CLOSE_PROTECT"
                [] OTHER                    -> phase
  /\ phase' # phase
  /\ UNCHANGED <<day, price, structure, position, orders, pc, local, best,
                 fills, faults>>

(* Stops are DAY orders: overnight the position has none. *)
NextDay ==
  /\ pc = "idle" /\ phase = "CLOSE_PROTECT" /\ day < MaxDay
  /\ day' = day + 1 /\ phase' = "OPEN_NOISE"
  /\ orders' = [i \in Slots |-> Free] /\ best' = 0
  /\ UNCHANGED <<price, structure, position, pc, local, fills, faults>>

-----------------------------------------------------------------------------
Manage ==
  \/ ReadPosition \/ ReadExisting \/ DelaySkips \/ DecideStop \/ DecideNothing
  \/ Reconcile \/ ReconcileBlind \/ (\E i \in Slots : CancelStop(i))
  \/ Reread \/ RereadBlind \/ SubmitAccepted \/ SubmitBlocked \/ SubmitRaises

Environment ==
  \/ \E p \in Prices : Tick(p)
  \/ \E s \in 0..MaxLevel : NewBars(s)
  \/ \E n \in 1..MaxQty : EntryFills(n) \/ OtherSell(n)
  \/ \E i \in Slots : StopFires(i) \/ OtherEnds(i)
  \/ CancelCompletes \/ NextPhase \/ NextDay

Next == Manage \/ Crash \/ Environment

Spec == Init /\ [][Next]_vars

(* run_once calls manage_positions in every cycle, and the broker gets to  *)
(* every cancel request.                                                   *)
LiveSpec == Spec /\ WF_vars(Manage) /\ WF_vars(CancelCompletes)

-----------------------------------------------------------------------------
(* Properties                                                              *)

(* Every variable stays in its type. *)
TypeOK ==
  /\ day \in 1..MaxDay /\ phase \in Phases
  /\ price \in Prices /\ structure \in 0..MaxLevel
  /\ position \in 0..MaxQty
  /\ orders \in [Slots -> StopOrder \union SellOrder \union {Free}]
  /\ pc \in Steps
  /\ delay \in BOOLEAN /\ qty \in 0..MaxQty /\ seen_price \in {0} \union Prices
  /\ existing \in 0..MaxLevel /\ desired \in 0..MaxLevel
  /\ to_cancel \subseteq Slots
  /\ best \in 0..MaxLevel
  /\ fills \in 0..MaxFills /\ faults \in 0..MaxFaults

(* As long as no call failed, the stop of a position moves up only, except *)
(* across the moments it was without one: a submission refused because the *)
(* broker still held the cancelled order's shares, another order holding   *)
(* the shares, or the night.                                               *)
StopRatchets ==
  faults = 0 => \A i \in OpenStops : orders[i].level >= best

(* Replacing by cancel and submit never leaves two stops working: each     *)
(* failing call lets at most one more through.                             *)
StopsBoundedByFaults == Cardinality(OpenStops) <= 1 + faults

(* Protection comes back: once the market is calm in the session's normal  *)
(* phase, with a structural stop below the price and nobody else selling,  *)
(* the position is gone or has a stop for all of its shares for good,      *)
(* whatever failed or was cancelled before.                                *)
Protectable ==
  /\ phase = "NORMAL_SESSION" /\ OtherSells = {}
  /\ 0 < structure /\ structure < price
  /\ \A i \in OpenStops : orders[i].level < price
Covered == \E i \in OpenStops : orders[i].qty = position
Calm    == <>[][UNCHANGED <<price, structure>>]_vars
ProtectionReturns ==
  (Calm /\ <>[]Protectable) => <>[](position = 0 \/ Covered)

(* What the comment on the entry delay says: "a stop already exists for    *)
(* full qty", so leaving the symbol alone leaves no share without a stop.  *)
DelaySkipsCoveredOnly ==
  [][DelaySkips => \E i \in OpenStops : orders[i].qty = qty]_vars

=============================================================================
