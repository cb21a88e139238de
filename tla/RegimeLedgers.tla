---------------------------- MODULE RegimeLedgers ----------------------------
(***************************************************************************)
(* The market regime of a date, from the price history to the multipliers  *)
(* of the buy loop.  The post-scan pipeline runs the E1 classifier, which  *)
(* appends a record to the REGIME_E1 ledger of the date, and the throttle  *)
(* writer, which turns the latest record into one of PORTFOLIO_THROTTLE;   *)
(* both drop a record whose content is in the file already.  The risk      *)
(* controls read the latest throttle, else the latest regime record.       *)
(*                                                                         *)
(* One date: the ledgers of another date are other files.  Features are in *)
(* percent, multipliers and confidences in hundredths.                     *)
(***************************************************************************)
EXTENDS Integers, Sequences, SequencesExt

CONSTANTS
  Vols, Drawdowns, Trends, Breadths,  \* bound: the features explored
  MaxRefreshes,                       \* bound: changes of the price history
  MaxRuns                             \* bound: runs of the pipeline

ASSUME RegimeLedgersConstants ==
  /\ Vols \subseteq Int /\ Drawdowns \subseteq Int
  /\ Trends \subseteq Int /\ Breadths \subseteq Int
  /\ MaxRefreshes \in Nat /\ MaxRuns \in Nat

VARIABLES
  history,   \* cache/ohlcv_history.parquet: what the features of the date are
  refreshes, runs,
  pc,        \* "idle", "throttle" (step 2 is next), "done"
  regimes,   \* ledger/REGIME_E1/<date>.jsonl
  throttles  \* ledger/PORTFOLIO_THROTTLE/<date>.jsonl

vars == <<history, refreshes, runs, pc, regimes, throttles>>

(* The history has the features, or the file is missing, its last SPY row  *)
(* is too old, or it is too short for a lookback.                          *)
Features  == [vol : Vols, drawdown : Drawdowns, trend : Trends, breadth : Breadths]
Unusable  == [fault : {"missing", "stale", "short"}]
Histories == Features \cup Unusable

-----------------------------------------------------------------------------
(* classify_regime: the first label of the four whose condition holds.     *)
Stressed(f) == (f.vol >= 30 /\ f.trend <= -2) \/ f.drawdown <= -20

OffReasons(f) ==
  (IF f.vol >= 20 THEN 1 ELSE 0) + (IF f.drawdown <= -10 THEN 1 ELSE 0)
  + (IF f.trend < 0 THEN 1 ELSE 0) + (IF f.breadth <= 45 THEN 1 ELSE 0)

RiskOn(f) ==
  f.vol <= 20 /\ f.drawdown > -10 /\ f.trend >= 2 /\ f.breadth >= 55

StressReasons(f) ==
  (IF f.vol >= 30 THEN 1 ELSE 0) + (IF f.drawdown <= -20 THEN 1 ELSE 0)
  + (IF f.trend <= -2 THEN 1 ELSE 0)

AtMost(x, cap) == IF x <= cap THEN x ELSE cap

Classify(f) ==
  IF Stressed(f) THEN
    [label |-> "STRESSED", confidence |-> AtMost(70 + 10 * StressReasons(f), 100)]
  ELSE IF OffReasons(f) > 0 THEN
    [label |-> "RISK_OFF", confidence |-> AtMost(50 + 10 * OffReasons(f), 90)]
  ELSE IF RiskOn(f) THEN [label |-> "RISK_ON", confidence |-> 90]
  ELSE [label |-> "NEUTRAL", confidence |-> 40]

NoLabel == [label |-> "none", confidence |-> 100]

(* The record of a run: a signal, or SKIPPED without label and confidence. *)
Evaluate(h) == IF h \in Unusable THEN NoLabel ELSE Classify(h)

-----------------------------------------------------------------------------
(* regime_to_throttle: multipliers for risk and positions by label, halved *)
(* at low confidence; nothing without a label.                             *)
RiskOf == [RISK_ON |-> 100, NEUTRAL |-> 60, RISK_OFF |-> 20, STRESSED |-> 0, none |-> 0]
SlotsOf == [RISK_ON |-> 100, NEUTRAL |-> 70, RISK_OFF |-> 30, STRESSED |-> 0, none |-> 0]

(* Mutant: a confidence at the limit counts as low. *)
Haircut_AtLimit(c, x) == IF c.confidence <= 60 THEN x \div 2 ELSE x

Haircut(c, x) == IF c.confidence < 60 THEN x \div 2 ELSE x

Throttle(c) == [risk  |-> Haircut(c, RiskOf[c.label]),
                slots |-> Haircut(c, SlotsOf[c.label])]

(* _resolve_regime_throttle: a throttle of the date goes before any regime *)
(* record of it, and no record is no risk.                                 *)
Multipliers ==
  IF throttles # <<>> THEN Throttle(Evaluate(Last(throttles)))
  ELSE IF regimes # <<>> THEN Throttle(Evaluate(Last(regimes)))
  ELSE [risk |-> 0, slots |-> 0]

-----------------------------------------------------------------------------
Init ==
  /\ history \in Histories /\ refreshes = 0 /\ runs = 0
  /\ pc = "idle"
  /\ regimes = <<>> /\ throttles = <<>>

(* The price cache is refreshed, rebuilt or lost. *)
Refresh ==
  /\ refreshes < MaxRefreshes
  /\ refreshes' = refreshes + 1
  /\ history' \in Histories
  /\ UNCHANGED <<runs, pc, regimes, throttles>>

(* A record stands for what it was computed from, as its id, a hash of its *)
(* content, does.                                                          *)
Recorded(ledger, r) ==
  IF \E i \in DOMAIN ledger : ledger[i] = r THEN ledger ELSE Append(ledger, r)

(* Step 1.  A stale history exits with 1 after the record is written, and  *)
(* a failed step ends the pipeline.                                        *)
RunE1 ==
  /\ pc \in {"idle", "done"} /\ runs < MaxRuns
  /\ runs' = runs + 1
  /\ regimes' = Recorded(regimes, history)
  /\ pc' = IF history = [fault |-> "stale"] THEN "idle" ELSE "throttle"
  /\ UNCHANGED <<history, refreshes, throttles>>

(* Mutant: the throttle writer left with the first record of the date. *)
WriteThrottle_Once ==
  /\ pc = "throttle"
  /\ throttles' = IF throttles = <<>> THEN <<Last(regimes)>> ELSE throttles
  /\ pc' = "done"
  /\ UNCHANGED <<history, refreshes, runs, regimes>>

(* Step 2. *)
WriteThrottle ==
  /\ pc = "throttle"
  /\ throttles' = Recorded(throttles, Last(regimes))
  /\ pc' = "done"
  /\ UNCHANGED <<history, refreshes, runs, regimes>>

(* The pipeline is killed between its steps. *)
Crash ==
  /\ pc = "throttle"
  /\ pc' = "idle"
  /\ UNCHANGED <<history, refreshes, runs, regimes, throttles>>

Next == Refresh \/ RunE1 \/ WriteThrottle \/ Crash

Spec == Init /\ [][Next]_vars

-----------------------------------------------------------------------------
(* When the pipeline has ended well, the controls are those of the latest  *)
(* regime record, whatever runs were cut short before.                     *)
ControlsFollowLedger ==
  pc = "done" => Multipliers = Throttle(Evaluate(Last(regimes)))

NoBetter(f, g) ==
  /\ f.vol >= g.vol /\ f.drawdown <= g.drawdown
  /\ f.trend <= g.trend /\ f.breadth <= g.breadth

NoMoreThan(t, u) == t.risk <= u.risk /\ t.slots <= u.slots

(* A market that is in no respect better is given no more risk, over the   *)
(* labels, their confidences and the haircut for low confidence together.  *)
RiskIsMonotone ==
  history \in Features =>
    LET mine == Throttle(Classify(history))
    IN \A g \in Features : NoBetter(g, history) => NoMoreThan(Throttle(Classify(g)), mine)

=============================================================================
