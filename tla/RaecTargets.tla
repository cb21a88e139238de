---------------------------- MODULE RaecTargets ----------------------------
(***************************************************************************)
(* What the RAEC strategies want to hold and how they get there: the       *)
(* anchors give a regime, the features of the symbols a basket, the basket *)
(* target allocations, and the allocations at hand the orders of a ticket. *)
(* A follower of the tickets carries them out; the backtest applies its    *)
(* own copy of the rule to the same targets.  RaecRun has the files and    *)
(* the posting around this.                                                *)
(*                                                                         *)
(* Weights and allocations are integers, in hundredths of a percent;       *)
(* quotients are cut, targets are rounded to tenths of a percent.          *)
(***************************************************************************)
EXTENDS Integers, Sequences, FiniteSets, FiniteSetsExt, SequencesExt, Functions, TLC

CONSTANTS
  Leveraged, Plain, Defensive, Hedges, \* symbols
  Strategies,      \* of V1 to V5
  Anchors,         \* states of an anchor index
  Scenes,          \* features of the symbols
  Rows,            \* exports of the positions, as sets of rows
  Gaps,            \* days between evaluations
  MaxDay           \* bound: days explored

VARIABLES
  strategy, features, day, phase,
  signal,          \* of the day, with the regime smoothed
  targets,
  (* the account of the follower and the state file *)
  known, last_rebalance, confirmed, intents,
  (* the backtest *)
  allocations, sim_rebalance, rebalanced,
  (* history *)
  together         \* the follower began as the backtest and did what it was told

vars == <<strategy, features, day, phase, signal, targets, known, last_rebalance,
          confirmed, intents, allocations, sim_rebalance, rebalanced, together>>

-----------------------------------------------------------------------------
Cash == "BIL"
One  == 10000
Risk == Leveraged \cup Plain
Sum(w) == MapThenSumSet(LAMBDA s : w[s], DOMAIN w)
At(w, s) == IF s \in DOMAIN w THEN w[s] ELSE 0
Least(a, b) == IF a < b THEN a ELSE b
Most(a, b)  == IF a > b THEN a ELSE b
Abs(d) == IF d < 0 THEN -d ELSE d
Keep(w, Test(_)) == [s \in {t \in DOMAIN w : Test(t)} |-> w[s]]

(* Configurations; budgets, scales and caps in percent, the rest as above. *)
V3 == [id |-> "V3", cap |-> 60, vol |-> 30, min_trade |-> 50, turnover |-> 4000, drift |-> 150,
       top |-> 2, on |-> [most |-> 100, least |-> 40, base |-> 100, crash |-> 60, cash |-> 0],
       t_top |-> 2, mid |-> [most |-> 70, least |-> 20, base |-> 65, crash |-> 75, cash |-> 5],
       t_def |-> 2, t_budget |-> 25, def |-> 3, budget |-> 50, cash |-> 20,
       hedges |-> Hedges, hedge |-> 30, lev |-> Leveraged, lev_cap |-> 15, lev_top |-> 1]

V4 == [id |-> "V4", cap |-> 40, vol |-> 14, min_trade |-> 50, turnover |-> 3000, drift |-> 200,
       top |-> 4, on |-> [most |-> 90, least |-> 40, base |-> 90, crash |-> 65, cash |-> 10],
       t_top |-> 3, mid |-> [most |-> 70, least |-> 20, base |-> 65, crash |-> 75, cash |-> 15],
       t_def |-> 2, t_budget |-> 25, def |-> 3, budget |-> 70, cash |-> 30,
       hedges |-> {}, hedge |-> 0, lev |-> {}, lev_cap |-> 100, lev_top |-> 999]

V5 == [id |-> "V5", cap |-> 70, vol |-> 32, min_trade |-> 50, turnover |-> 4500, drift |-> 150,
       top |-> 2, on |-> [most |-> 100, least |-> 40, base |-> 100, crash |-> 50, cash |-> 0],
       t_top |-> 2, mid |-> [most |-> 70, least |-> 20, base |-> 65, crash |-> 75, cash |-> 5],
       t_def |-> 2, t_budget |-> 25, def |-> 3, budget |-> 55, cash |-> 20,
       hedges |-> Hedges, hedge |-> 25, lev |-> {}, lev_cap |-> 100, lev_top |-> 999]

Cooldown == 5

-----------------------------------------------------------------------------
(* The anchors: above its long average, the short average above the long   *)
(* one, percent below the high of the quarter, volatility out of line.     *)
Regime(a) ==
  CASE a.above /\ a.up /\ a.down < 4 /\ ~a.wild -> "RISK_ON"
    [] a.above /\ a.down < 8 /\ ~(a.up /\ a.down < 4 /\ ~a.wild) -> "TRANSITION"
    [] OTHER -> "RISK_OFF"

Crash(a) == a.down >= 8 \/ ~a.above

(* One anchor, with its circuit breaker. *)
Single(a) ==
  [regime |-> IF a.down >= 15 THEN "RISK_OFF" ELSE Regime(a),
   crash |-> Crash(a) \/ a.down >= 15, wild |-> a.wild]

(* Two anchors: the more cautious wins, and either breaker.  The signal    *)
(* shown is the first's.                                                   *)
Dual(a, b) ==
  LET broken == b.down >= 12 \/ a.down >= 15
      both   == {Regime(a), Regime(b)}
  IN [regime |-> IF broken \/ "RISK_OFF" \in both THEN "RISK_OFF"
                 ELSE IF both = {"RISK_ON"} THEN "RISK_ON" ELSE "TRANSITION",
      crash |-> broken \/ Crash(a) \/ Crash(b), wild |-> a.wild]

(* V2 has one anchor and no breaker, V1 does not look at the drawdown.     *)
Unbroken(a) == [regime |-> Regime(a), crash |-> Crash(a), wild |-> a.wild]

Simple(a) ==
  [regime |-> IF ~a.above THEN "RISK_OFF"
              ELSE IF a.up /\ ~a.wild THEN "RISK_ON" ELSE "TRANSITION",
   crash |-> FALSE, wild |-> a.wild]

-----------------------------------------------------------------------------
(* Symbols with a history, best first; those that fell are left out where  *)
(* the momentum must be positive.                                          *)
Ranked(U, f, positive) ==
  SetToSortSeq({s \in U \cap DOMAIN f : positive => f[s].mom > 0},
               LAMBDA s, t : f[s].score > f[t].score)

(* At most lev_top leveraged symbols among the n; the next best take their *)
(* place.                                                                  *)
Picks(c, ranked, n) ==
  LET before(i) == {j \in 1..(i - 1) : ranked[j] \in c.lev}
      allowed == {i \in DOMAIN ranked :
                    ranked[i] \in c.lev => Cardinality(before(i)) < c.lev_top}
      among == SetToSortSeq(allowed, <)
  IN [i \in 1..Least(n, Len(among)) |-> ranked[among[i]]]

Normal(w) == LET p == Keep(w, LAMBDA s : w[s] > 0)
             IN [s \in DOMAIN p |-> (p[s] * One) \div Sum(p)]

(* What exceeds the cap is spread over the rest in proportion, until       *)
(* nothing does; with all at the cap the weights are equal.                *)
WeightCap(w, cap) ==
  LET share(O, s) == ((One - cap * Cardinality(O)) * w[s])
                       \div MapThenSumSet(LAMBDA t : w[t], DOMAIN w \ O)
      Held[O \in SUBSET DOMAIN w] ==
        LET more == {s \in DOMAIN w \ O : share(O, s) > cap}
        IN IF O = DOMAIN w \/ more = {} THEN O ELSE Held[O \cup more]
      over == Held[{}]
  IN IF over = DOMAIN w THEN [s \in over |-> One \div Cardinality(over)]
     ELSE [s \in DOMAIN w |-> IF s \in over THEN cap ELSE share(over, s)]

(* Volatility in percent counts as eight at least. *)
InverseVol(picks, f, cap) ==
  IF picks = <<>> THEN <<>>
  ELSE WeightCap(Normal([s \in Range(picks) |-> 4000 \div Most(f[s].vol, 8)]), cap * 100)

(* Mutant: each leveraged symbol is held to the cap, the rest fills up. *)
LeverageCap_Each(c, w) ==
  LET rest == Sum(Keep(w, LAMBDA s : s \notin c.lev))
  IN [s \in DOMAIN w |-> IF s \in c.lev /\ rest > 0 THEN Least(w[s], c.lev_cap * 100) ELSE w[s]]

(* Leveraged symbols are scaled to their cap, the others fill up to theirs.*)
LeverageCap(c, w) ==
  LET lev  == Sum(Keep(w, LAMBDA s : s \in c.lev))
      rest == Sum(w) - lev
  IN IF lev <= c.lev_cap * 100 THEN w
     ELSE [s \in DOMAIN w |->
             IF s \in c.lev THEN (w[s] * c.lev_cap * 100) \div lev
             ELSE Least((w[s] * (One - c.lev_cap * 100)) \div rest, c.cap * 100)]

(* Volatility of a basket in tenths of a percent, f.rho percent the        *)
(* correlation of any two symbols.                                         *)
BasketVol(w, f, rho) ==
  LET part(s) == (w[s] * f[s].vol) \div 1000
      all == MapThenSumSet(part, DOMAIN w)
      own == MapThenSumSet(LAMBDA s : part(s) * part(s), DOMAIN w)
      var == IF Cardinality(DOMAIN w) = 1 THEN all * all
             ELSE ((100 - rho) * own + rho * all * all) \div 100
  IN CHOOSE r \in 0..1000 : r * r <= var /\ (r + 1) * (r + 1) > var

(* Share of the basket in percent: scaled to the volatility wanted, scaled *)
(* down in a crash, between two bounds.                                    *)
RiskBudget(b, vol, basket, crash) ==
  LET scale == Least(100, (vol * 1000) \div Most(basket, 1))
      hit   == IF crash THEN b.crash ELSE 100
  IN Least(b.most, Most(b.least, (b.base * scale * hit) \div 10000))

Scaled(w, pct) == [s \in DOMAIN w |-> (w[s] * pct) \div 100]
Plus(v, w) == [s \in DOMAIN v \cup DOMAIN w |-> At(v, s) + At(w, s)]
WithCash(w, floor) == Plus(w, [s \in {Cash} |-> Most(floor * 100, One - Sum(w))])

(* Rounded to tenths; the difference goes to cash or to the largest.       *)
ToTargets(w) ==
  LET n == Normal(w)
      t == [s \in DOMAIN n |-> 10 * ((n[s] + 5) \div 10)]
      to == IF Cash \in DOMAIN t THEN Cash
            ELSE CHOOSE s \in DOMAIN t : \A u \in DOMAIN t : t[s] >= t[u]
      r == [t EXCEPT ![to] = @ + One - Sum(t)]
  IN IF DOMAIN n = {} THEN [s \in {Cash} |-> One] ELSE Keep(r, LAMBDA s : r[s] > 0)

Basket(c, f, picks, b, crash) ==
  LET w == LeverageCap(c, InverseVol(picks, f.of, c.cap))
  IN IF picks = <<>> THEN <<>>
     ELSE Scaled(w, RiskBudget(b, c.vol, BasketVol(w, f.of, f.rho), crash))

RiskOn(c, f, crash) ==
  LET picks == Picks(c, Ranked(Risk, f.of, TRUE), c.top)
  IN ToTargets(IF picks = <<>> THEN <<>>
               ELSE WithCash(Basket(c, f, picks, c.on, crash), c.on.cash))

Shelter(f, n, cap) ==
  LET ranked == Ranked(Defensive \ {Cash}, f.of, FALSE)
  IN InverseVol(SubSeq(ranked, 1, Least(n, Len(ranked))), f.of, cap)

Transition(c, f, crash) ==
  LET risky == Basket(c, f, Picks(c, Ranked(Risk, f.of, TRUE), c.t_top), c.mid, crash)
      w == Plus(risky, Scaled(Shelter(f, c.t_def, c.cap), c.t_budget))
      fit == IF Sum(w) > One THEN Normal(w) ELSE w
  IN ToTargets(WithCash(fit, c.mid.cash))

RiskOff(c, f) ==
  LET safe == Shelter(f, c.def, c.cap)
      hedge == [s \in c.hedges |-> (c.hedge * 100) \div Cardinality(c.hedges)]
  IN ToTargets(IF safe = <<>> THEN <<>>
               ELSE WithCash(Plus(Scaled(safe, c.budget), hedge), c.cash))

TargetsFor(c, regime, crash, f) ==
  CASE regime = "RISK_ON" -> RiskOn(c, f, crash)
    [] regime = "TRANSITION" -> Transition(c, f, crash)
    [] OTHER -> RiskOff(c, f)

-----------------------------------------------------------------------------
(* V2 has rules of its own: three symbols, then two with a fixed shelter,  *)
(* then a budget that depends on the crash and on the volatility.          *)
V2 == [id |-> "V2", cap |-> 45, vol |-> 12, min_trade |-> 50, turnover |-> 1500, drift |-> 250,
       on |-> [most |-> 95, least |-> 30, base |-> 95, crash |-> 70, cash |-> 5],
       mid |-> [most |-> 70, least |-> 20, base |-> 65, crash |-> 75, cash |-> 0],
       hedges |-> {}, lev |-> {}, lev_cap |-> 100, lev_top |-> 999]

V2RiskOn(f, crash) == RiskOn([top |-> 3] @@ V2, f, crash)

V2Base == ("USMV" :> 20) @@ ("IEF" :> 10) @@ ("GLD" :> 5)

V2Transition(f, crash) ==
  LET risky == Basket(V2, f, Picks(V2, Ranked(Risk, f.of, TRUE), 2), V2.mid, crash)
      base  == [s \in DOMAIN V2Base \cap DOMAIN f.of |-> V2Base[s] * 100]
      w     == Plus(risky, base)
  IN ToTargets(WithCash(IF Sum(w) > One THEN Normal(w) ELSE w, V2.mid.cash))

V2RiskOff(f, sig) ==
  LET budget == IF sig.crash THEN 45 ELSE IF sig.wild THEN 50 ELSE 60
      safe   == Shelter(f, 3, V2.cap)
  IN ToTargets(IF safe = <<>> THEN <<>> ELSE WithCash(Scaled(safe, budget), 40))

V2Targets(f, sig) ==
  CASE sig.regime = "RISK_ON" -> V2RiskOn(f, sig.crash)
    [] sig.regime = "TRANSITION" -> V2Transition(f, sig.crash)
    [] OTHER -> V2RiskOff(f, sig)

(* V1 has a fixed table. *)
V1 == [id |-> "V1", cap |-> 100, min_trade |-> 50, turnover |-> 1000, drift |-> 300,
       hedges |-> {}, lev |-> {}, lev_cap |-> 100]

V1Targets(regime) ==
  CASE regime = "RISK_ON" -> ("VTI" :> 4000) @@ ("QUAL" :> 2500) @@ ("MTUM" :> 2000)
                               @@ ("VTV" :> 1000) @@ (Cash :> 500)
    [] regime = "TRANSITION" -> ("VTI" :> 3500) @@ ("QUAL" :> 2500) @@ ("USMV" :> 2000)
                                  @@ ("VTV" :> 1000) @@ (Cash :> 1000)
    [] OTHER -> ("USMV" :> 3000) @@ ("VTV" :> 2000) @@ (Cash :> 5000)

Config(s) == CASE s = "V1" -> V1 [] s = "V2" -> V2 [] s = "V3" -> V3 [] s = "V4" -> V4
               [] OTHER -> V5
Monthly == {"V1", "V2"}

Targets(s, f, sig) ==
  CASE s = "V1" -> V1Targets(sig.regime)
    [] s = "V2" -> V2Targets(f, sig)
    [] OTHER -> TargetsFor(Config(s), sig.regime, sig.crash, f)

-----------------------------------------------------------------------------
(* The drift of every symbol held or wanted, and the orders for it.        *)
Drift(held, t) == [s \in DOMAIN held \cup DOMAIN t |-> At(t, s) - At(held, s)]
Beyond(held, t, limit) == \E s \in DOMAIN Drift(held, t) : Abs(Drift(held, t)[s]) > limit

Bought(d) == Sum(Keep(d, LAMBDA s : d[s] > 0))
ScaleTo(x, most, total) == IF x < 0 THEN -((-x * most) \div total) ELSE (x * most) \div total

(* All orders are cut in the proportion in which the purchases exceed the  *)
(* cap.                                                                    *)
TurnoverCap(d, most) ==
  IF Bought(d) <= most THEN d ELSE [s \in DOMAIN d |-> ScaleTo(d[s], most, Bought(d))]

(* What is held but not wanted is sold from the threshold on; orders below *)
(* the smallest trade are dropped before the cut and after it.             *)
Intents(c, held, t) ==
  LET d == Drift(held, t)
      due == Keep(d, LAMBDA s : s \in DOMAIN t \/ d[s] >= 0 \/ Abs(d[s]) >= c.drift)
      big == Keep(due, LAMBDA s : Abs(due[s]) >= c.min_trade)
      cut == TurnoverCap(big, c.turnover)
  IN Keep(cut, LAMBDA s : Abs(cut[s]) >= c.min_trade)

-----------------------------------------------------------------------------
Unknown == [unknown |-> TRUE]
Universe(c) == IF c.id = "V1" THEN DOMAIN V1Targets("RISK_ON") \cup DOMAIN V1Targets("RISK_OFF")
               ELSE Risk \cup Defensive \cup c.hedges \cup {Cash}

(* A row of the export has a ticker, or is of the money market, or of a    *)
(* fund that is mapped, or of nothing that is known.                       *)
Resolved(r) == CASE r.kind = "ticker" -> r.sym [] r.kind = "cash" -> Cash
                 [] r.kind = "fund" -> "VTI" [] OTHER -> "unresolved"

(* parse_schwab_positions_csv; what it raises leaves them unknown.         *)
FromCsv(rows) ==
  LET worth == {r \in rows : r.mv > 0}
      mv == [s \in {Resolved(r) : r \in worth} |->
               MapThenSumSet(LAMBDA r : r.mv, {r \in worth : Resolved(r) = s})]
      pct == [s \in DOMAIN mv |-> 10 * ((mv[s] * 2000 + Sum(mv)) \div (2 * Sum(mv)))]
  IN IF worth = {} \/ "unresolved" \in DOMAIN mv \/ Abs(Sum(pct) - One) > 100
     THEN Unknown ELSE pct

(* Only what the strategy may hold; nothing left is nothing known. *)
Known(c, pct) ==
  LET ours == Keep(pct, LAMBDA s : s \in Universe(c))
  IN IF pct = Unknown \/ ours = <<>> THEN Unknown ELSE ours

(* _should_rebalance: at first, at a change of regime, at a drift beyond   *)
(* the threshold, while it cools down beyond twice the threshold.          *)
Due(c, prior, regime, held, t, since) ==
  \/ prior = "none" \/ prior # regime
  \/ Beyond(held, t, IF since < Cooldown THEN 2 * c.drift ELSE c.drift)

(* V1 and V2 do not cool down and trade at the first evaluation of a       *)
(* month; V1 looks at the drift of what it wants, not at what it holds.    *)
DueV2(prior, regime, held, t, month) ==
  \/ month \/ prior = "none" \/ prior # regime
  \/ Beyond(held, t, V2.drift)

DueV1(prior, regime, held, t, month) ==
  \/ month \/ prior = "none" \/ prior # regime
  \/ \E s \in DOMAIN t : Abs(t[s] - At(held, s)) > V1.drift

(* Mutant: the orders of the backtest are not cut. *)
SimTrade_Uncut(c, held, t) == Normal(t)

(* The backtest's copy of the rule and of the orders: nothing is kept      *)
(* because it is small, what is left of a symbol is dropped, and the       *)
(* result is brought back to the whole.                                    *)
SimDue(c, prior, regime, held, t, since) ==
  \/ prior = "none" \/ prior # regime
  \/ Beyond(held, t, IF since < Cooldown THEN 2 * c.drift ELSE c.drift)

SimTrade(c, held, t) ==
  LET d   == Drift(held, t)
      big == Keep(d, LAMBDA s : Abs(d[s]) >= c.min_trade)
      cut == TurnoverCap(big, c.turnover)
      new == Plus(held, Keep(cut, LAMBDA s : Abs(cut[s]) >= c.min_trade))
  IN Normal(Keep(new, LAMBDA s : new[s] > 10))

-----------------------------------------------------------------------------
c == Config(strategy)

Init ==
  /\ strategy \in Strategies /\ features \in Scenes /\ day = 0 /\ phase = "day"
  /\ signal = [regime |-> "none", crash |-> FALSE, wild |-> FALSE] /\ targets = <<>>
  /\ known \in {Known(Config(strategy), FromCsv(rows)) : rows \in Rows}
  /\ last_rebalance = 0 /\ confirmed = "none" /\ intents = <<>>
  /\ allocations = [s \in {Cash} |-> One] /\ sim_rebalance = 0 /\ rebalanced = FALSE
  /\ together = (known = allocations)

DueNow(month) ==
  CASE strategy = "V1" -> DueV1(confirmed, signal'.regime, known, targets', month)
    [] strategy = "V2" -> DueV2(confirmed, signal'.regime, known, targets', month)
    [] OTHER -> Due(c, confirmed, signal'.regime, known, targets', day' - last_rebalance)

(* The evaluation of a day: the signal, the regime of the day or one that  *)
(* was confirmed before, the targets and, where orders are due, the ticket;*)
(* without known positions it is only a notice.                            *)
Evaluation(sig, smoothed, month) ==
  /\ phase = "day" /\ phase' = "simulate"
  /\ \E g \in Gaps : day + g <= MaxDay /\ day' = day + g
  /\ \E r \in {sig.regime} \cup smoothed : signal' = [sig EXCEPT !.regime = r]
  /\ targets' = Targets(strategy, features, signal')
  /\ LET due == known = Unknown \/ DueNow(month)
     IN /\ intents' = IF due /\ known # Unknown THEN Intents(c, known, targets') ELSE <<>>
        /\ last_rebalance' = IF due THEN day' ELSE last_rebalance
  /\ UNCHANGED <<strategy, features, known, confirmed, allocations, sim_rebalance,
                 rebalanced, together>>

(* V3 to V5: the smoother (RaecRun) gives the regime, the crash is the     *)
(* day's.                                                                  *)
Evaluate ==
  /\ strategy \notin Monthly
  /\ \E a, b \in Anchors :
       Evaluation(IF strategy = "V5" THEN Dual(a, b) ELSE Single(a),
                  {confirmed} \ {"none"}, FALSE)

EvaluateV2 ==
  /\ strategy = "V2"
  /\ \E a \in Anchors, month \in BOOLEAN : Evaluation(Unbroken(a), {}, month)

EvaluateV1 ==
  /\ strategy = "V1"
  /\ \E a \in Anchors, month \in BOOLEAN : Evaluation(Simple(a), {}, month)

(* The same day of the backtest, with the regime confirmed the day before. *)
Simulate ==
  /\ phase = "simulate" /\ phase' = "follow"
  /\ rebalanced' = (/\ strategy \notin Monthly
                     /\ SimDue(c, confirmed, signal.regime, allocations, targets,
                               day - sim_rebalance))
  /\ IF rebalanced' THEN /\ allocations' = SimTrade(c, allocations, targets)
                         /\ sim_rebalance' = day
                    ELSE UNCHANGED <<allocations, sim_rebalance>>
  /\ confirmed' = signal.regime
  /\ UNCHANGED <<strategy, features, day, signal, targets, known, last_rebalance, intents,
                 together>>

(* The owner carries the ticket out, or not, and exports the positions; the*)
(* rebalance adapter does for V1 and V2.                                   *)
Follow ==
  /\ phase = "follow" /\ phase' = "day"
  /\ IF known = Unknown THEN known' \in {Known(c, FromCsv(rows)) : rows \in Rows}
     ELSE known' = LET w == Plus(known, intents) IN Keep(w, LAMBDA s : w[s] > 0)
  /\ UNCHANGED <<strategy, features, day, signal, targets, last_rebalance, confirmed, intents,
                 allocations, sim_rebalance, rebalanced, together>>

Ignore ==
  /\ phase = "follow" /\ phase' = "day" /\ together' = FALSE
  /\ UNCHANGED <<strategy, features, day, signal, targets, known, last_rebalance, confirmed,
                 intents, allocations, sim_rebalance, rebalanced>>

Next == Evaluate \/ EvaluateV1 \/ EvaluateV2 \/ Simulate \/ Follow \/ Ignore

Spec == Init /\ [][Next]_vars

-----------------------------------------------------------------------------
(* Targets are a whole: together 100 percent, each more than nothing, the  *)
(* leveraged ones within their cap, one symbol above the cap of a symbol   *)
(* only where fewer than would fill the basket were found.                 *)
TargetsWhole ==
  targets # <<>> =>
    /\ Sum(targets) = One /\ \A s \in DOMAIN targets : targets[s] > 0
    /\ Sum(Keep(targets, LAMBDA s : s \in c.lev)) <= c.lev_cap * 100 + 10
    /\ \A G \in {Risk, Defensive} : \A s \in DOMAIN targets \cap G :
         targets[s] <= 10 + Most(c.cap * 100, One \div Cardinality(DOMAIN targets \cap G))

(* A ticket buys no more than the cap of the turnover, and its orders lead *)
(* towards the targets and not past them.                                  *)
TicketsModest ==
  /\ Bought(intents) <= c.turnover
  /\ phase # "day" => \A s \in DOMAIN intents :
       LET d == At(targets, s) - At(known, s)
       IN Abs(intents[s]) >= c.min_trade /\ intents[s] * d > 0 /\ Abs(intents[s]) <= Abs(d)

(* Who carries out the tickets keeps the account whole: what it holds      *)
(* stays 100 percent but for what is not worth selling and for orders      *)
(* below the smallest trade.                                               *)
Leftover == Sum(Keep(known, LAMBDA s : s \notin DOMAIN targets))

StaysBalanced ==
  phase = "day" /\ known # Unknown /\ together =>
    Abs(Sum(known) - One) <= Leftover + c.min_trade * Cardinality(DOMAIN known)

(* The backtest holds what a follower of the tickets holds, within twice   *)
(* the threshold of the drift.                                             *)
SimTracks ==
  phase = "day" /\ strategy \notin Monthly /\ together =>
    LET apart == Drift(known, allocations)
    IN \A s \in DOMAIN apart : Abs(apart[s]) <= 2 * c.drift

(* The ticket of a day is sound: whole targets, modest orders towards      *)
(* them, and a whole account when they are carried out.                    *)
TicketsSound == TargetsWhole /\ TicketsModest /\ StaysBalanced

=============================================================================
