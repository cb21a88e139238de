---------------------------- MODULE V6Allocation ----------------------------
(***************************************************************************)
(* The ensemble of RAEC v6, day by day as its backtest runs it: seven      *)
(* strategies propose weights, the allocator gives each a share of the     *)
(* book, the overlay scales the book to a volatility and cuts it in a      *)
(* drawdown, the shadow book, whose weights have drifted with the prices,  *)
(* trades towards it or, after a shock, back to what it was.               *)
(* RaecV6 has the files, the tickets and the breakers' curve of the live   *)
(* run around the same functions.                                          *)
(*                                                                         *)
(* Weights, shares and scales are integers in hundredths of a percent,     *)
(* quotients are cut; volatilities, gates, convictions and correlations    *)
(* are percents, signals are tenths.                                       *)
(***************************************************************************)
EXTENDS Integers, Sequences, FiniteSets, FiniteSetsExt, SequencesExt, Functions, TLC

CONSTANTS
  Markets,         \* what the signals and prices of a day say
  Failures,        \* sets of strategies that raise
  Groups,          \* sets of strategies whose returns go together
  Stars,           \* sets of strategies with a high recent Sharpe
  Realized,        \* volatility of the book's own returns
  Falls,           \* of the equity from its rolling peak, in percent
  Drifts,          \* what the prices of a day add to the weights of symbols
  MaxDay           \* bound: days explored

VARIABLES
  day, phase,
  age,             \* of the track record: 20, 30 and 60 days are passed
  shares,          \* prior_strategy_shares
  book,            \* book_targets of the allocator
  market, breaker, freeze,
  owned,           \* weights of the shadow book
  (* history *)
  fresh,           \* strategies that delivered yesterday and today
  below,           \* the breaker tripped and the drawdown has not healed
  frozen           \* the book of today was frozen

v6_vars == <<day, phase, age, shares, book, market, breaker, freeze, owned, fresh, below, frozen>>

-----------------------------------------------------------------------------
One == 10000
Sum(w) == MapThenSumSet(LAMBDA s : w[s], DOMAIN w)
At(w, s) == IF s \in DOMAIN w THEN w[s] ELSE 0
Least(a, b) == IF a < b THEN a ELSE b
Most(a, b)  == IF a > b THEN a ELSE b
Abs(d) == IF d < 0 THEN -d ELSE d
Keep(w, Test(_)) == [s \in {t \in DOMAIN w : Test(t)} |-> w[s]]
Best(f) == SetToSortSeq(DOMAIN f, LAMBDA s, t : f[s] > f[t])
Top(n, f) == SubSeq(Best(f), 1, Least(n, Cardinality(DOMAIN f)))

(* The logistic curve at whole numbers, flat from four on. *)
Sigmoid(tenths) ==
  LET x == Least(4, Most(-4, tenths \div 10))
  IN <<2, 5, 12, 27, 50, 73, 88, 95, 98>>[5 + x]

(* Highest score of those picked over their lower median. *)
Dispersion(f, top) == f[top[1]] - f[top[Len(top) - ((Len(top) - 1) \div 2)]]

-----------------------------------------------------------------------------
(* E1's thresholds on the index alone; breadth counts as neutral.          *)
Label(m) ==
  CASE (m.vol >= 30 /\ (m.down >= 20 \/ m.slope <= -2)) \/ m.down >= 20 -> "STRESSED"
    [] m.down < 20 /\ ~(m.vol >= 30 /\ m.slope <= -2)
         /\ (m.vol >= 20 \/ m.down >= 10 \/ m.slope < 0) -> "RISK_OFF"
    [] OTHER -> "NEUTRAL"

Representatives ==
  [equity_us_broad |-> "SPY", equity_intl |-> "EEM", sector |-> "XLK", bond_short |-> "SHY",
   bond_mid |-> "IEF", bond_long |-> "TLT", credit |-> "HYG", commodity_broad |-> "PDBC",
   metal |-> "GLD", crypto |-> "IBIT", vol_long |-> "VIXY", currency_dollar |-> "UUP"]

Idle == [weights |-> <<>>, conviction |-> 0, gate |-> 0, vol |-> 0]

(* Weights in proportion to the inverse of the volatility, what exceeds    *)
(* the cap stays cash; without a volatility a symbol is left out.          *)
Holding(m, picks, cap, conviction, gate) ==
  LET use == {s \in picks : At(m.vols, s) > 0}
      inv(s) == 36000 \div m.vols[s]
      all == MapThenSumSet(inv, use)
  IN IF use = {} THEN Idle
     ELSE [weights |-> [s \in use |-> Least(cap * 100, (inv(s) * One) \div all)],
           conviction |-> conviction, gate |-> gate,
           vol |-> MapThenSumSet(LAMBDA s : m.vols[s], use) \div Cardinality(use)]

Broad(m) == At(m.trend, "equity_us_broad")

CrossAssetTrend(m) ==
  LET up  == Keep(m.trend, LAMBDA k : m.trend[k] > 0)
      top == Top(4, up)
  IN IF up = <<>> THEN Idle
     ELSE Holding(m, {Representatives[k] : k \in Range(top)}, 35,
                  Sigmoid(Dispersion(up, top) - 20), 100)

(* In calm markets leveraged symbols count like others, in the middle they *)
(* must be in the best third, in hot markets they are out.                 *)
LeverageGate(m) ==
  LET rank == Best(m.momentum)
      bar  == m.momentum[rank[1 + Least(Len(rank) - 1, Len(rank) \div 3)]]
  IN Keep(m.momentum, LAMBDA s : \/ m.volpct < 30 \/ s \notin m.leveraged
                                 \/ (m.volpct < 70 /\ m.momentum[s] >= bar))

EquityLeveragedMomentum(m) ==
  LET gated == LeverageGate(m)
      top   == Top(5, Keep(gated, LAMBDA s : gated[s] > 0))
      gate  == IF Broad(m) > 10 THEN 100 ELSE IF Broad(m) >= 0 THEN 50 ELSE 0
  IN IF m.momentum = <<>> \/ top = <<>> THEN Idle
     ELSE Holding(m, Range(top), 35, Sigmoid(m.momentum[top[1]] - 10), gate)

SectorRelativeStrength(m) ==
  LET up   == Keep(m.sectors, LAMBDA s : m.sectors[s] > 0)
      top  == Top(4, up)
      gate == IF Broad(m) >= 0 THEN 100 ELSE IF Broad(m) >= -10 THEN 50 ELSE 0
  IN IF up = <<>> THEN Idle
     ELSE Holding(m, Range(top), 30, Sigmoid(2 * (Dispersion(up, top) - 5)), gate)

ThematicConviction(m) ==
  LET top == Top(3, Keep(m.themes, LAMBDA s : m.themes[s] >= 5))
      z   == MapThenSumSet(LAMBDA s : m.themes[s], Range(top)) \div Len(top)
  IN IF top = <<>> THEN Idle ELSE Holding(m, Range(top), 30, Sigmoid(z - 10), 100)

BondCarry(m) ==
  LET bets == {s \in {"TLT", "EDV", "TBT", "HYG", "JNK"} :
                 \/ s = "TLT" /\ m.curve > 10
                 \/ s = "EDV" /\ m.curve > 20
                 \/ s = "TBT" /\ m.curve < -10
                 \/ s = "HYG" /\ m.credit > 10
                 \/ s = "JNK" /\ m.credit > 20}
      size == Most(Abs(m.curve), Abs(m.credit))
  IN Holding(m, IF bets = {} THEN {"SHY", "IEF"} ELSE bets \cup {"SHY"}, 50,
             Sigmoid(2 * (size - 10)), 100)

CryptoTrend(m) ==
  LET long   == m.btc > 10
      picks  == IF long THEN {"IBIT"} \cup (IF m.eth > 10 THEN {"ETHA"} ELSE {}) ELSE {"BITI"}
      bonus  == IF m.eth # 0 /\ (long <=> m.eth > 0) THEN 20 ELSE 0
      h      == Holding(m, picks, 100, Least(100, Sigmoid(Abs(m.btc) - 15) + bonus), 100)
  IN IF m.btc \in -15..10 THEN Idle
     ELSE [h EXCEPT !.weights = [s \in DOMAIN @ |-> (@[s] * 80) \div 100]]

CrisisAlpha(m) ==
  LET gate == IF Label(m) # "STRESSED" \/ m.volpct < 65 THEN 0
              ELSE IF m.volpct >= 85 THEN 100 ELSE 50
  IN IF gate = 0 THEN Idle ELSE Holding(m, {"PSQ", "SDS", "SH", "GLD"}, 100, 80, gate)

Cap == [trend |-> 4000, equity |-> 3500, sector |-> 3000, theme |-> 2500, bond |-> 1000,
        crypto |-> 500, crisis |-> 1000]
Ids == DOMAIN Cap

Outputs(m) ==
  [trend |-> CrossAssetTrend(m), equity |-> EquityLeveragedMomentum(m),
   sector |-> SectorRelativeStrength(m), theme |-> ThematicConviction(m),
   bond |-> BondCarry(m), crypto |-> CryptoTrend(m), crisis |-> CrisisAlpha(m)]

Proposed == [m \in Markets |-> Outputs(m)]

(* What StrategyOutput raises for is a strategy that failed. *)
ASSUME ProposalsAccepted ==
  \A m \in Markets, i \in Ids :
    LET o == Proposed[m][i]
    IN /\ o.conviction \in 0..100 /\ o.gate \in {0, 50, 100} /\ o.vol \in Nat
       /\ IsFiniteSet(DOMAIN o.weights) /\ o.weights \in [DOMAIN o.weights -> Nat]
       /\ Sum(o.weights) <= One

ASSUME V6Constants ==
  /\ MaxDay \in Nat /\ Falls \subseteq Nat /\ Realized \subseteq Nat
  /\ \A m \in Markets : m.vol \in Nat /\ m.vix \in Nat /\ m.vols \in [DOMAIN m.vols -> Nat]
  /\ \A d \in Drifts : d \in [DOMAIN d -> Int]

-----------------------------------------------------------------------------
(* Strategies whose returns go with the others' are cut by what the mean   *)
(* correlation has above 70 percent, to half at most.                      *)
Derate(s, valid, group) ==
  LET peers == valid \ {s}
      mean  == (95 * Cardinality(IF s \in group THEN peers \cap group ELSE {}))
                 \div Most(1, Cardinality(peers))
  IN IF mean > 70 THEN Most(50, 170 - mean) ELSE 100

(* Recent skill; the prior counts for little and is about one half.        *)
Skill(s, stars) == IF s \in stars THEN Sigmoid(10) ELSE Sigmoid(0)

Weighted(s, o, stars) ==
  IF o.vol = 0 THEN 0
  ELSE ((((36000 \div o.vol) * o.gate * (50 + (o.conviction \div 2))) \div 100)
          * Skill(s, stars)) \div 1000

(* Mutant: what the cap takes away is given to the others once. *)
Capped_Once(w) ==
  LET free == {s \in DOMAIN w : w[s] < Cap[s]}
      over == MapThenSumSet(LAMBDA s : Most(0, w[s] - Cap[s]), DOMAIN w)
      all  == MapThenSumSet(LAMBDA s : w[s], free)
  IN [s \in DOMAIN w |->
        IF s \in free THEN w[s] + ((over * w[s]) \div Most(1, all)) ELSE Cap[s]]

(* What is left when those of O are at their caps goes to the others, in   *)
(* proportion.                                                             *)
Lifted(w, O) ==
  LET rest == MapThenSumSet(LAMBDA s : w[s], DOMAIN w \ O)
      give == Sum(w) - MapThenSumSet(LAMBDA s : Cap[s], O)
  IN [s \in DOMAIN w |-> IF s \in O THEN Cap[s] ELSE (give * w[s]) \div Most(1, rest)]

Over(w, O) == LET v == Lifted(w, O) IN {s \in DOMAIN w : v[s] > Cap[s]}

(* Whom that lifts above the cap is put there as well, in eight rounds.    *)
Capped(w) ==
  LET AtCap[n \in 0..8] ==
        IF n = 0 THEN {} ELSE LET O == AtCap[n - 1] IN O \cup Over(w, O)
  IN Lifted(w, AtCap[8])

Fit(w) ==
  LET all == Sum(w)
  IN IF all > One THEN [s \in DOMAIN w |-> (w[s] * One) \div all] ELSE w

(* Mutant: the step bounds what a share loses and not what it gains.       *)
Damped_FromTarget(w, prior) ==
  [s \in DOMAIN w |-> IF w[s] < At(prior, s) - 500 THEN At(prior, s) - 500 ELSE w[s]]

(* A share moves by 5 percent of the book a day; who was not there the day *)
(* before is not held back.                                                *)
Damped(w, prior) ==
  [s \in DOMAIN w |-> IF s \notin DOMAIN prior THEN w[s]
                      ELSE Most(0, Least(prior[s] + 500, Most(prior[s] - 500, w[s])))]

Allocated(out, prior, old, group, stars) ==
  LET valid == DOMAIN out
      base  == [s \in valid |-> Weighted(s, out[s], IF old > 0 THEN stars ELSE {})]
      all   == Sum(base)
      cut(s) == IF old > 1 THEN Derate(s, valid, group) ELSE 100
      pre   == [s \in valid |-> (base[s] * cut(s) * 100) \div all]
      fit   == Fit(Capped(pre))
  IN IF valid = {} THEN <<>>
     ELSE IF all = 0 THEN [s \in valid |-> 0]
     ELSE IF prior = <<>> \/ old = 0 THEN fit ELSE Fit(Damped(fit, prior))

(* Of a symbol no more than a quarter, the rest is cash. *)
Book(out, share) ==
  LET in(s) == {i \in DOMAIN share : share[i] > 0 /\ s \in DOMAIN out[i].weights}
  IN [s \in UNION {DOMAIN out[i].weights : i \in {j \in DOMAIN share : share[j] > 0}} |->
        Least(One \div 4, Sum([i \in in(s) |-> (share[i] * out[i].weights[s]) \div One]))]

(* One and a half times the volatility of the index over the one expected, *)
(* between a tenth and twice, and never more than the whole.               *)
Exposure(m, b, old, ewma) ==
  LET want == IF m.vol > 0 THEN (3 * m.vol) \div 2 ELSE 24
      composition == Sum([s \in DOMAIN b |-> (b[s] * At(m.vols, s) * 85) \div (100 * One)])
      seen == Most(Most(ewma, (m.vix * 7) \div 10), IF old = 3 THEN 0 ELSE composition)
      raw  == IF seen = 0 THEN One ELSE Most(One \div 10, Least(2 * One, (want * One) \div seen))
  IN IF Sum(b) > 0 /\ raw * Sum(b) > One * One THEN (One * One) \div Sum(b) ELSE raw

(* Mutant: the breaker is armed again above its own threshold. *)
Tripped_Stateless(active, down) == down >= 15

(* From 15 percent down until it is 7 at most. *)
Tripped(active, down) == IF active THEN down > 7 ELSE down >= 15

(* The shadow book leaves alone what differs by less than half a percent.  *)
Step(old, new) ==
  LET all == [s \in DOMAIN old \cup DOMAIN new |->
                IF Abs(At(new, s) - At(old, s)) < 50 THEN At(old, s) ELSE At(new, s)]
  IN Keep(all, LAMBDA s : all[s] > 0)

-----------------------------------------------------------------------------
V6Init ==
  /\ day = 0 /\ phase = "day" /\ age = 0 /\ market \in Markets
  /\ shares = [s \in Ids |-> 0] /\ book = <<>> /\ owned = <<>>
  /\ breaker = FALSE /\ freeze = 0 /\ fresh = {} /\ below = FALSE /\ frozen = FALSE

(* Strategies and allocator of a day.  Days alike leave the shares as they *)
(* are, so that between two days the record may pass any threshold.        *)
Allocate ==
  /\ phase = "day" /\ day < MaxDay /\ day' = day + 1 /\ phase' = "overlay"
  /\ market' \in Markets
  /\ age' \in age..3
  /\ \E failed \in Failures, group \in Groups, stars \in Stars :
       LET valid == Ids \ failed
           out   == [s \in valid |-> Proposed[market'][s]]
       IN /\ shares' = Allocated(out, shares, age', group, stars)
          /\ book' = Book(out, shares')
          /\ fresh' = IF age' = 0 THEN {} ELSE valid \cap DOMAIN shares
  /\ UNCHANGED <<breaker, freeze, owned, below, frozen>>

(* Overlay and shadow book, which stands where the prices have moved it.   *)
(* A shock is seen on a record of sixty days; for two days the book then   *)
(* returns to the weights of the day before.                               *)
Trade ==
  /\ phase = "overlay" /\ phase' = "day"
  /\ \E ewma \in Realized, drift \in Drifts :
       LET scale  == Exposure(market, book, age, ewma)
           marked == [s \in DOMAIN owned |-> Most(0, owned[s] + At(drift, s))]
       IN \E down \in Falls, shock \in (IF age = 3 THEN BOOLEAN ELSE {FALSE}) :
            LET on    == Tripped(breaker, down)
                cut   == scale \div (IF on THEN 2 ELSE 1)
                final == [s \in DOMAIN book |-> (book[s] * cut) \div One]
            IN /\ breaker' = on
               /\ owned' = Step(marked, IF freeze > 0 THEN owned ELSE final)
               /\ freeze' = IF shock THEN 2 ELSE Most(0, freeze - 1)
               /\ below' = (down >= 15 \/ (below /\ down > 7))
               /\ frozen' = (freeze > 0)
  /\ UNCHANGED <<day, age, shares, book, market, fresh>>

V6Next == Allocate \/ Trade

V6Spec == V6Init /\ [][V6Next]_v6_vars

-----------------------------------------------------------------------------
(* The shares respect the caps and are no more than the whole: eight rounds *)
(* are enough that a cap that frees a share for another never lifts that   *)
(* one above its own.                                                      *)
SharesWithinCaps ==
  /\ Sum(shares) <= One
  /\ \A s \in DOMAIN shares : shares[s] <= Cap[s]

(* A strategy that delivered on both days gains no more than a twentieth   *)
(* of the book overnight, once there is a track record.                    *)
DamperHolds == [][\A s \in fresh' : shares'[s] <= shares[s] + 500]_shares

(* The book never uses margin, and no symbol is more than half of it: the  *)
(* overlay doubles the allocator's quarter at most.                        *)
NeverOnMargin ==
  /\ Sum(owned) <= One + 50 * Cardinality(DOMAIN owned)
  /\ \A s \in DOMAIN owned : owned[s] <= One \div 2 + 50

(* From the trip of the breaker until the drawdown has healed no more than *)
(* half is held, but for trades too small.                                 *)
BreakerHalves ==
  below => Sum(owned) <= One \div 2 + 50 * Cardinality(DOMAIN owned)

(* What the book holds stays within the book, and within half of it while  *)
(* the breaker is tripped, on every day that a shock does not freeze it:   *)
(* on those it stays where it was whatever the overlay asks for.           *)
ExposureHolds == ~frozen => NeverOnMargin /\ BreakerHalves

=============================================================================
