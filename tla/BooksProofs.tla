----------------------------- MODULE BooksProofs -----------------------------
(***************************************************************************)
(* What the regime ledger, the buy loop, the sleeves, the backtest and the *)
(* allocator of RAEC v6 promise, for all features, limits, symbols and     *)
(* numbers of runs or days: risk never grows as the market worsens, the    *)
(* controls follow the regime ledger, a pass of the buy loop stays within  *)
(* its budgets, the sleeves hold by the table, the shares and the money of *)
(* all trades add up; no strategy has more than its cap, no share jumps,   *)
(* the shadow book is never on margin and halved in a drawdown; the live   *)
(* run freezes after a shock and judges the account it was shown; positions *)
(* and money of a snapshot are those of the entries it was made of.        *)
(*                                                                         *)
(* Budgets, sleeves and money are about sums over sets (SumFacts).         *)
(***************************************************************************)
EXTENDS RegimeLedgers, EntryGates, BacktestEngine, V6Allocation, RaecV6, PortfolioBook,
        SumFacts, SequenceTheorems

-----------------------------------------------------------------------------
(* The regime ledger.  ControlsFollowLedger is not inductive: that the      *)
(* throttle writer may drop a record needs that a dropped one is the last   *)
(* of its own ledger.                                                       *)
(* The multipliers of every market, label by label. *)
LEMMA RiskTable ==
  ASSUME NEW f \in Features
  PROVE  /\ OffReasons(f) \in 0..4
         /\ Stressed(f) => Throttle(Classify(f)) = [risk |-> 0, slots |-> 0]
         /\ ~Stressed(f) /\ OffReasons(f) > 0
              => Throttle(Classify(f)) = [risk |-> 20, slots |-> 30]
         /\ ~Stressed(f) /\ OffReasons(f) = 0 /\ RiskOn(f)
              => Throttle(Classify(f)) = [risk |-> 100, slots |-> 100]
         /\ ~Stressed(f) /\ OffReasons(f) = 0 /\ ~RiskOn(f)
              => Throttle(Classify(f)) = [risk |-> 30, slots |-> 35]
<1>1. OffReasons(f) \in 0..4
  BY RegimeLedgersConstants DEF OffReasons, Features
<1>2. StressReasons(f) \in 0..3
  BY DEF StressReasons
<1>3. CASE Stressed(f)
  BY <1>1, <1>2, <1>3 DEF Throttle, Classify, Haircut, RiskOf, SlotsOf, AtMost
<1>4. CASE ~Stressed(f)
  BY <1>1, <1>4 DEF Throttle, Classify, Haircut, RiskOf, SlotsOf, AtMost
<1> QED BY <1>1, <1>3, <1>4

(* The conditions of the labels are ordered like the markets. *)
LEMMA ConditionsMonotone ==
  ASSUME NEW f \in Features, NEW g \in Features, NoBetter(g, f)
  PROVE  /\ Stressed(f) => Stressed(g)
         /\ OffReasons(f) > 0 => OffReasons(g) > 0
         /\ RiskOn(g) => RiskOn(f)
<1>1. /\ f.vol \in Int /\ f.drawdown \in Int /\ f.trend \in Int /\ f.breadth \in Int
      /\ g.vol \in Int /\ g.drawdown \in Int /\ g.trend \in Int /\ g.breadth \in Int
  BY RegimeLedgersConstants DEF Features
<1>2. /\ g.vol >= f.vol /\ g.drawdown <= f.drawdown
      /\ g.trend <= f.trend /\ g.breadth <= f.breadth
  BY DEF NoBetter
<1>3. Stressed(f) => Stressed(g)
  BY <1>1, <1>2 DEF Stressed
<1>4. OffReasons(f) > 0 => OffReasons(g) > 0
  BY <1>1, <1>2 DEF OffReasons
<1>5. RiskOn(g) => RiskOn(f)
  BY <1>1, <1>2 DEF RiskOn
<1> QED BY <1>3, <1>4, <1>5

(* A market that is in no respect better is given no more risk. *)
THEOREM Monotone == Spec => []RiskIsMonotone
<1>1. RiskIsMonotone
  <2> SUFFICES ASSUME history \in Features, NEW g \in Features, NoBetter(g, history)
               PROVE  /\ Throttle(Classify(g)).risk <= Throttle(Classify(history)).risk
                      /\ Throttle(Classify(g)).slots <= Throttle(Classify(history)).slots
    BY DEF RiskIsMonotone, NoMoreThan
  <2>1. /\ Stressed(history) => Stressed(g)
        /\ OffReasons(history) > 0 => OffReasons(g) > 0
        /\ RiskOn(g) => RiskOn(history)
    BY ConditionsMonotone
  <2> QED BY <2>1, RiskTable
<1> QED BY <1>1, PTL

-----------------------------------------------------------------------------
(* A throttle that tells what the latest regime record does is the latest. *)
InOrder ==
  /\ regimes \in Seq(Histories) /\ throttles \in Seq(Histories)
  /\ history \in Histories
  /\ pc \in {"throttle", "done"} => regimes # <<>>
  /\ pc = "done" => throttles # <<>> /\ Last(throttles) = Last(regimes)
  /\ \A i \in DOMAIN throttles : throttles[i] = Last(regimes) => i = Len(throttles)
  /\ \A i \in DOMAIN throttles : \E j \in DOMAIN regimes : throttles[i] = regimes[j]

(* Append, seen through Last and the indices. *)
LEMMA AppendFacts ==
  ASSUME NEW l \in Seq(Histories), NEW r \in Histories
  PROVE  /\ Append(l, r) \in Seq(Histories) /\ Append(l, r) # <<>>
         /\ Last(Append(l, r)) = r
         /\ Len(Append(l, r)) = Len(l) + 1
         /\ \A i \in DOMAIN l : i \in DOMAIN Append(l, r) /\ Append(l, r)[i] = l[i]
         /\ \A i \in DOMAIN Append(l, r) : i \in DOMAIN l \/ i = Len(l) + 1
  BY AppendProperties, DOMAIN Append(l, r) = 1..Len(Append(l, r)) DEF Last

LEMMA InOrderInit == Init => InOrder
  BY DEF Init, InOrder, Histories

LEMMA InOrderNext == InOrder /\ [Next]_vars => InOrder'
<1> SUFFICES ASSUME InOrder, [Next]_vars PROVE InOrder'
  OBVIOUS
<1>1. CASE RunE1
  <2> USE <1>1 DEF RunE1
  <2>1. CASE \E i \in DOMAIN regimes : regimes[i] = history
    <3>1. regimes' = regimes BY <2>1 DEF Recorded
    <3>2. regimes # <<>> BY <2>1 DEF InOrder
    <3> QED BY <3>1, <3>2 DEF InOrder
  <2>2. CASE ~ \E i \in DOMAIN regimes : regimes[i] = history
    <3>1. regimes' = Append(regimes, history) BY <2>2 DEF Recorded
    <3>2. \A i \in DOMAIN throttles : throttles[i] # history BY <2>2 DEF InOrder
    <3> QED BY <3>1, <3>2, AppendFacts DEF InOrder
  <2> QED BY <2>1, <2>2
<1>2. CASE WriteThrottle
  <2> USE <1>2 DEF WriteThrottle
  <2>1. regimes # <<>> /\ Last(regimes) \in Histories
    BY DEF InOrder, Last
  <2>2. CASE \E i \in DOMAIN throttles : throttles[i] = Last(regimes)
    <3>1. throttles' = throttles BY <2>2 DEF Recorded
    <3>2. throttles # <<>> /\ Last(throttles) = Last(regimes)
      BY <2>2 DEF InOrder, Last
    <3> QED BY <2>1, <3>1, <3>2 DEF InOrder
  <2>3. CASE ~ \E i \in DOMAIN throttles : throttles[i] = Last(regimes)
    <3>1. throttles' = Append(throttles, Last(regimes)) BY <2>3 DEF Recorded
    <3>2. \E j \in DOMAIN regimes : Last(regimes) = regimes[j]
      BY <2>1 DEF InOrder, Last
    <3>3. /\ throttles' \in Seq(Histories) /\ throttles' # <<>>
          /\ Last(throttles') = Last(regimes)
          /\ \A i \in DOMAIN throttles' : throttles'[i] = Last(regimes) => i = Len(throttles')
      BY <2>1, <2>3, <3>1, AppendFacts DEF InOrder
    <3>4. \A i \in DOMAIN throttles' : \E j \in DOMAIN regimes : throttles'[i] = regimes[j]
      BY <2>1, <3>1, <3>2, AppendFacts, AppendProperties DEF InOrder
    <3> QED BY <2>1, <3>3, <3>4 DEF InOrder
  <2> QED BY <2>2, <2>3
<1>3. CASE Refresh
  BY <1>3 DEF Refresh, InOrder
<1>4. CASE Crash
  BY <1>4 DEF Crash, InOrder
<1>5. CASE UNCHANGED vars
  BY <1>5 DEF vars, InOrder
<1> QED BY <1>1, <1>2, <1>3, <1>4, <1>5 DEF Next

(* When the pipeline has ended well, the controls are those of the latest  *)
(* regime record.                                                          *)
THEOREM FollowLedger == Spec => []ControlsFollowLedger
<1>1. InOrder => ControlsFollowLedger
  BY DEF InOrder, ControlsFollowLedger, Multipliers
<1> QED BY <1>1, InOrderInit, InOrderNext, PTL DEF Spec

-----------------------------------------------------------------------------
(* Sums of the model, as sums of functions. *)
Item   == [sym : Candidates, size : Nat, late : BOOLEAN]
SizeOf == [i \in Item |-> i.size]

LEMMA ItemsTotal ==
  ASSUME NEW S \in SUBSET Item, IsFiniteSet(S)
  PROVE  /\ MapThenSumSet(LAMBDA i : i.size, S) = Total(SizeOf, S)
         /\ Total(SizeOf, S) \in Nat
<1> DEFINE R(g) == [s \in SUBSET S |->
                      IF s = {} THEN 0
                      ELSE LET y == CHOOSE e \in s : TRUE IN y.size + g[s \ {y}]]
<1>1. PICK g : g = CHOOSE k : k = R(k)
  OBVIOUS
<1>2. PICK h : IsSum(SizeOf, S, h)
  BY SumExists
<1>3. \A T \in SUBSET S : T # {} => Pick(T) \in Item /\ SizeOf[Pick(T)] = Pick(T).size
  BY PickIsIn DEF SizeOf
<1>4. h = R(h)
  BY <1>2, <1>3 DEF IsSum, Pick
<1>5. g = R(g)
  <2> HIDE DEF R
  <2> QED BY <1>1, <1>4
<1>6. IsSum(SizeOf, S, g)
  BY <1>3, <1>5 DEF IsSum, Pick
<1>7. MapThenSumSet(LAMBDA i : i.size, S) = g[S]
  BY <1>1 DEF MapThenSumSet, MapThenFoldSet
<1>8. Total(SizeOf, S) = g[S]
  BY <1>6, TotalIs
<1>9. Total(SizeOf, S) \in Nat
  <2>1. \A i \in S : SizeOf[i] \in Nat
    BY DEF SizeOf, Item
  <2> QED BY <2>1, TotalNat
<1> QED BY <1>7, <1>8, <1>9

RowSize == [s \in Candidates |-> rows[s].size]
Row     == [strategy : Nat, size : Nat]

LEMMA RowsTotal ==
  ASSUME NEW S \in SUBSET Candidates, rows \in [Candidates -> Row]
  PROVE  RowsGross(S) = Total(RowSize, S) /\ RowsGross(S) \in Nat
<1> DEFINE R(g) == [s \in SUBSET S |->
                      IF s = {} THEN 0
                      ELSE LET y == CHOOSE e \in s : TRUE IN rows[y].size + g[s \ {y}]]
<1>0. IsFiniteSet(S)
  BY EntryGatesConstants, FS_Subset
<1>1. PICK g : g = CHOOSE k : k = R(k)
  OBVIOUS
<1>2. PICK h : IsSum(RowSize, S, h)
  BY <1>0, SumExists
<1>3. \A T \in SUBSET S :
        T # {} => Pick(T) \in Candidates /\ RowSize[Pick(T)] = rows[Pick(T)].size
  BY PickIsIn DEF RowSize
<1>4. h = R(h)
  BY <1>2, <1>3 DEF IsSum, Pick
<1>5. g = R(g)
  <2> HIDE DEF R
  <2> QED BY <1>1, <1>4
<1>6. IsSum(RowSize, S, g)
  <2>1. g = [T \in SUBSET S |-> IF T = {} THEN 0 ELSE rows[Pick(T)].size + g[T \ {Pick(T)}]]
    BY <1>5 DEF Pick
  <2> QED BY <1>3, <2>1 DEF IsSum
<1>7. RowsGross(S) = g[S]
  BY <1>1 DEF RowsGross, MapThenSumSet, MapThenFoldSet
<1>8. Total(RowSize, S) = g[S]
  BY <1>0, <1>6, TotalIs
<1>9. Total(RowSize, S) \in Nat
  <2>1. \A s \in S : RowSize[s] \in Nat
    BY DEF RowSize, Row
  <2> QED BY <1>0, <2>1, TotalNat
<1> QED BY <1>7, <1>8, <1>9

-----------------------------------------------------------------------------
(* Types *)

OnePerSymbol(B) == \A i, j \in B : i.sym = j.sym => i = j

GatesTyped ==
  /\ rows \in [Candidates -> Row]
  /\ intents \in [Candidates -> Nat] /\ held \in [Candidates -> Nat]
  /\ open \in Nat
  /\ pass \in [on : BOOLEAN, risk : 0..Scale, slots : Nat, projected : Nat, gross : Nat,
               created : Nat, todo : SUBSET Candidates]
  /\ batch \in SUBSET Item /\ IsFiniteSet(batch) /\ OnePerSymbol(batch)
  /\ decisions \in SUBSET Candidates

(* A set of candidates is finite, a number of them a number. *)
LEMMA CandidatesFinite ==
  /\ IsFiniteSet(Candidates)
  /\ \A S \in SUBSET Candidates : IsFiniteSet(S) /\ Cardinality(S) \in Nat
  BY EntryGatesConstants, FS_Subset, FS_CardinalityType

LEMMA ControlsTyped ==
  ASSUME NEW label \in Labels, NEW low \in BOOLEAN
  PROVE  Controls(label, low).risk \in 0..Scale /\ Controls(label, low).slots \in Nat
<1>1. label \in {"RISK_ON", "NEUTRAL", "RISK_OFF", "missing"}
  BY EntryGatesConstants
<1>2. /\ Full[label][1] \in 0..20
      /\ Full[label][2] \in 0..20
  BY <1>1 DEF Full
<1>3. ReadThrottle(label, low)[1] \in 0..20 /\ ReadThrottle(label, low)[2] \in 0..20
  BY <1>2 DEF ReadThrottle
<1>4. BasePositions * ReadThrottle(label, low)[2] \in Nat
  BY <1>3, EntryGatesConstants
<1>5. (BasePositions * ReadThrottle(label, low)[2]) \div 20 \in Nat
  <2>1. \A n \in Nat : n \div 20 \in Nat
    OBVIOUS
  <2> QED BY <1>4, <2>1
<1> QED BY <1>3, <1>5 DEF Controls, Scale

(* A size is one share, or what the limit of the date leaves room for. *)
LEMMA AdjustedFacts ==
  ASSUME NEW base \in Nat, NEW risk \in 0..Scale, NEW gross \in Nat
  PROVE  /\ Adjusted(base, risk, gross) \in Nat
         /\ Adjusted(base, risk, gross) <= 1
              \/ gross + Adjusted(base, risk, gross) <= (BaseGross * risk) \div Scale
<1> DEFINE limit == BaseGross * risk
           room  == Max({0, limit - Scale * gross}) \div Scale
           most  == Min({(base * risk) \div Scale, (BaseCap * risk) \div Scale, room})
<1>1. limit \in Nat /\ base * risk \in Nat /\ BaseCap * risk \in Nat
  <2>1. BaseGross \in Nat /\ BaseCap \in Nat /\ risk \in Nat
    BY EntryGatesConstants DEF Scale
  <2>2. \A m, n \in Nat : m * n \in Nat
    OBVIOUS
  <2> QED BY <2>1, <2>2
<1> HIDE DEF limit
<1>2. /\ Max({0, limit - 20 * gross}) \in {0, limit - 20 * gross}
      /\ Max({0, limit - 20 * gross}) >= 0
  <2>1. /\ limit - 20 * gross <= 0 => Max({0, limit - 20 * gross}) = 0
        /\ limit - 20 * gross > 0 => Max({0, limit - 20 * gross}) = limit - 20 * gross
    BY <1>1 DEF Max
  <2> QED BY <1>1, <2>1
<1>3. room \in Nat /\ (room = 0 \/ gross + room <= limit \div 20)
  <2>1. CASE Max({0, limit - 20 * gross}) = 0
    BY <2>1 DEF Scale
  <2>2. CASE Max({0, limit - 20 * gross}) = limit - 20 * gross
    <3>1. limit - 20 * gross >= 0 /\ limit - 20 * gross \in Int
      BY <1>1, <1>2, <2>2
    <3>2. \A l, n \in Nat : l - 20 * n >= 0 =>
            (l - 20 * n) \div 20 \in Nat /\ n + ((l - 20 * n) \div 20) <= l \div 20
      OBVIOUS
    <3> QED BY <1>1, <2>2, <3>1, <3>2 DEF Scale
  <2> QED BY <1>2, <2>1, <2>2
<1> HIDE DEF room
<1>4. most \in Nat /\ most <= room
  <2> DEFINE a == (base * risk) \div 20
             b == (BaseCap * risk) \div 20
  <2>1. a \in Nat /\ b \in Nat
    <3>1. \A n \in Nat : n \div 20 \in Nat
      OBVIOUS
    <3> QED BY <1>1, <3>1
  <2> HIDE DEF a, b
  <2>2. \E x \in {a, b, room} : \A y \in {a, b, room} : x <= y
    BY <1>3, <2>1
  <2>3. Min({a, b, room}) \in {a, b, room} /\ \A y \in {a, b, room} : Min({a, b, room}) <= y
    BY <2>2, Zenon DEF Min
  <2>4. Min({a, b, room}) \in Nat /\ Min({a, b, room}) <= room
    BY <1>3, <2>1, <2>3
  <2> QED BY <2>4 DEF a, b, Scale
<1> HIDE DEF most
<1>5. Max({1, most}) \in Nat /\ (Max({1, most}) <= 1 \/ Max({1, most}) = most)
  <2>1. /\ most <= 1 => Max({1, most}) = 1
        /\ most > 1 => Max({1, most}) = most
    BY <1>4 DEF Max
  <2> QED BY <1>4, <2>1
<1>6. Adjusted(base, risk, gross) = IF risk = 0 THEN 0 ELSE Max({1, most})
  BY DEF Adjusted, most, room, limit
<1>7. CASE risk = 0
  BY <1>6, <1>7
<1>8. CASE risk # 0
  <2>1. CASE Max({1, most}) <= 1
    BY <1>5, <1>6, <1>8, <2>1
  <2>2. CASE Max({1, most}) = most
    <3>1. room = 0 => most = 0
      BY <1>3, <1>4
    <3>2. room # 0 => gross + most <= limit \div 20
      <4>1. limit \div 20 \in Nat
        BY <1>1
      <4> QED BY <1>3, <1>4, <4>1
    <3> QED BY <1>4, <1>5, <1>6, <1>8, <2>2, <3>1, <3>2 DEF Scale, limit
  <2> QED BY <1>5, <2>1, <2>2
<1> QED BY <1>7, <1>8

(* Of a batch, one intent comes last by symbol. *)
LEMMA LastItem ==
  ASSUME NEW B \in SUBSET Item, IsFiniteSet(B), B # {}
  PROVE  \E i \in B : \A j \in B : j.sym <= i.sym
<1> DEFINE S == {i.sym : i \in B}
<1>1. IsFiniteSet(S) /\ S # {}
  <2>1. S \in SUBSET Candidates
    BY DEF Item
  <2> QED BY <2>1, CandidatesFinite
<1>2. S \subseteq Nat
  BY EntryGatesConstants DEF Item
<1>3. PICK n \in S : \A m \in S : m <= n
  <2> HIDE DEF S
  <2> QED BY <1>1, <1>2, GreatestNumber
<1> QED BY <1>3

(* What enforce_sleeves grants is defined: a choice for all but the last   *)
(* intent of a batch leaves one for that.                                  *)
Chosen(B, paused, ok) ==
  \A i \in B : i \in ok <=> SleeveAllows(i, {j \in ok : j.sym < i.sym}, paused)

LEMMA GrantsExist ==
  ASSUME NEW B, B \in SUBSET Item, IsFiniteSet(B), OnePerSymbol(B), NEW paused
  PROVE  \E ok \in SUBSET B : Chosen(B, paused, ok)
<1> DEFINE Good(A) == \E ok \in SUBSET A : Chosen(A, paused, ok)
           D == {T \in SUBSET B : ~Good(T)}
<1>1. ASSUME D # {} PROVE FALSE
  <2>1. PICK T \in D : \A U \in D : U \subseteq T => U = T
    <3>1. D \subseteq SUBSET B /\ D # {}
      BY <1>1
    <3> HIDE DEF D
    <3> QED BY <3>1, LeastSubset
  <2>2. T \in SUBSET B /\ ~Good(T)
    BY <2>1
  <2>3. T # {}
    <3>1. Good({})
      BY DEF Chosen
    <3> QED BY <2>2, <3>1
  <2>4. PICK m \in T : \A j \in T : j.sym <= m.sym
    <3>1. T \in SUBSET Item /\ IsFiniteSet(T)
      BY <2>2, FS_Subset
    <3> QED BY <2>3, <3>1, LastItem
  <2>5. \A j \in T \ {m} : j.sym < m.sym /\ ~(m.sym < j.sym)
    <3>1. \A j \in T : j.sym \in Nat
      BY <2>2, EntryGatesConstants DEF Item
    <3>2. \A j \in T \ {m} : j.sym # m.sym
      BY <2>2, <2>4 DEF OnePerSymbol
    <3> QED BY <2>4, <3>1, <3>2
  <2>6. PICK ok \in SUBSET (T \ {m}) : Chosen(T \ {m}, paused, ok)
    <3>1. T \ {m} \in SUBSET B /\ T \ {m} \subseteq T /\ T \ {m} # T
      BY <2>2, <2>4
    <3>2. T \ {m} \notin D
      <4> HIDE DEF D
      <4> QED BY <2>1, <3>1
    <3>3. Good(T \ {m})
      BY <3>1, <3>2
    <3> QED BY <3>3
  <2> DEFINE new == IF SleeveAllows(m, ok, paused) THEN ok \cup {m} ELSE ok
  <2>7. new \in SUBSET T
    BY <2>4, <2>6
  <2>8. ~(m.sym < m.sym) /\ m \notin ok
    <3>1. m.sym \in Nat
      BY <2>2, <2>4, EntryGatesConstants DEF Item
    <3> QED BY <2>6, <3>1
  <2>9. ASSUME NEW i \in T
        PROVE  i \in new <=> SleeveAllows(i, {j \in new : j.sym < i.sym}, paused)
    <3>1. CASE i = m
      <4>1. {j \in new : j.sym < m.sym} = ok
        BY <2>5, <2>6, <2>8
      <4>2. m \in new <=> SleeveAllows(m, ok, paused)
        BY <2>8
      <4> HIDE DEF new
      <4> QED BY <3>1, <4>1, <4>2
    <3>2. CASE i # m
      <4>1. {j \in new : j.sym < i.sym} = {j \in ok : j.sym < i.sym}
        BY <2>5, <3>2
      <4>2. i \in new <=> i \in ok
        BY <3>2
      <4>3. i \in ok <=> SleeveAllows(i, {j \in ok : j.sym < i.sym}, paused)
        BY <2>6, <3>2 DEF Chosen
      <4> HIDE DEF new
      <4> QED BY <4>1, <4>2, <4>3
    <3> QED BY <3>1, <3>2
  <2>10. Chosen(T, paused, new)
    BY <2>9 DEF Chosen
  <2> HIDE DEF new
  <2> QED BY <2>2, <2>7, <2>10
<1>2. B \in SUBSET B
  OBVIOUS
<1> QED BY <1>1, <1>2

LEMMA GrantsChosen ==
  ASSUME NEW sleeved, NEW paused,
         batch \in SUBSET Item, IsFiniteSet(batch), OnePerSymbol(batch)
  PROVE  /\ Enforced(sleeved, paused) \in SUBSET batch
         /\ Enforced(sleeved, paused) = {} \/ Chosen(batch, paused, Enforced(sleeved, paused))
<1>1. \E ok \in SUBSET batch : Chosen(batch, paused, ok)
  BY GrantsExist
<1> QED BY <1>1 DEF Enforced, Chosen

-----------------------------------------------------------------------------
LEMMA GatesTypedInit == GatesInit => GatesTyped
  BY FS_EmptySet DEF GatesInit, GatesTyped, NoPass, None, Row, OnePerSymbol, Scale

LEMMA BeginCycleTyped == GatesTyped /\ BeginCycle => GatesTyped'
<1> SUFFICES ASSUME GatesTyped, BeginCycle PROVE GatesTyped'
  OBVIOUS
<1>1. PICK cands \in SUBSET Candidates, on \in BOOLEAN, label \in Labels, low \in BOOLEAN :
        pass' = [on |-> on, risk |-> IF on THEN Controls(label, low).risk ELSE Scale,
                 slots |-> IF on THEN Controls(label, low).slots ELSE 0, created |-> 0,
                 todo |-> cands, projected |-> Cardinality(Rowed), gross |-> RowsGross(Rowed)]
  BY DEF BeginCycle
<1>2. Controls(label, low).risk \in 0..Scale /\ Controls(label, low).slots \in Nat
  BY ControlsTyped
<1>3. Cardinality(Rowed) \in Nat /\ RowsGross(Rowed) \in Nat /\ Cardinality(Held) \in Nat
  <2>1. Rowed \in SUBSET Candidates /\ Held \in SUBSET Candidates
    BY DEF Rowed, Held
  <2> QED BY <2>1, CandidatesFinite, RowsTotal DEF GatesTyped
<1>4. Scale \in 0..Scale /\ 0 \in Nat
  BY DEF Scale
<1> QED BY <1>1, <1>2, <1>3, <1>4 DEF GatesTyped, BeginCycle, OnePerSymbol

LEMMA CreateTyped ==
  ASSUME GatesTyped, NEW s \in Candidates, Create(s)
  PROVE  /\ GatesTyped'
         /\ \E size \in Nat \ {0} :
              /\ intents' = [intents EXCEPT ![s] = size]
              /\ pass' = [pass EXCEPT !.todo = @ \ {s}, !.created = @ + 1,
                                      !.projected = @ + 1, !.gross = @ + size]
              /\ pass.on => \/ size <= 1
                            \/ pass.gross + size <= (BaseGross * pass.risk) \div Scale
<1>1. PICK base \in 1..MaxBase :
        LET size == IF pass.on THEN Adjusted(base, pass.risk, pass.gross) ELSE base
        IN /\ size > 0
           /\ intents' = [intents EXCEPT ![s] = size]
           /\ pass' = [pass EXCEPT !.todo = @ \ {s}, !.created = @ + 1,
                                   !.projected = @ + 1, !.gross = @ + size]
  BY DEF Create
<1> DEFINE size == IF pass.on THEN Adjusted(base, pass.risk, pass.gross) ELSE base
<1>2. /\ pass.risk \in 0..Scale /\ pass.gross \in Nat /\ pass.created \in Nat
      /\ pass.projected \in Nat /\ pass.todo \in SUBSET Candidates /\ base \in Nat
  BY EntryGatesConstants DEF GatesTyped
<1>3. /\ Adjusted(base, pass.risk, pass.gross) \in Nat
      /\ Adjusted(base, pass.risk, pass.gross) <= 1
           \/ pass.gross + Adjusted(base, pass.risk, pass.gross)
                <= (BaseGross * pass.risk) \div Scale
  BY <1>2, AdjustedFacts
<1>4. size \in Nat \ {0}
  BY <1>1, <1>2, <1>3
<1>5. pass.on => size <= 1 \/ pass.gross + size <= (BaseGross * pass.risk) \div Scale
  BY <1>3
<1>6. /\ intents' = [intents EXCEPT ![s] = size]
      /\ pass' = [pass EXCEPT !.todo = @ \ {s}, !.created = @ + 1,
                              !.projected = @ + 1, !.gross = @ + size]
  BY <1>1
<1> HIDE DEF size
<1>7. GatesTyped'
  <2>1. /\ UNCHANGED <<rows, held, open, batch, decisions>>
        /\ GatesTyped
    BY DEF Create
  <2>2. intents' \in [Candidates -> Nat]
    BY <1>4, <1>6, <2>1 DEF GatesTyped
  <2>3. pass' \in [on : BOOLEAN, risk : 0..Scale, slots : Nat, projected : Nat, gross : Nat,
                   created : Nat, todo : SUBSET Candidates]
    <3>1. pass' = [on |-> pass.on, risk |-> pass.risk, slots |-> pass.slots,
                   projected |-> pass.projected + 1, gross |-> pass.gross + size,
                   created |-> pass.created + 1, todo |-> pass.todo \ {s}]
      BY <1>6 DEF GatesTyped
    <3>2. /\ pass.on \in BOOLEAN /\ pass.slots \in Nat /\ pass.projected + 1 \in Nat
          /\ pass.gross + size \in Nat /\ pass.created + 1 \in Nat
          /\ pass.todo \ {s} \in SUBSET Candidates
      BY <1>2, <1>4 DEF GatesTyped
    <3> QED BY <1>2, <3>1, <3>2
  <2> QED BY <2>1, <2>2, <2>3 DEF GatesTyped, OnePerSymbol
<1> QED BY <1>4, <1>5, <1>6, <1>7

LEMMA GatesTypedNext == GatesTyped /\ [GatesNext]_g_vars => GatesTyped'
<1> SUFFICES ASSUME GatesTyped, [GatesNext]_g_vars PROVE GatesTyped'
  OBVIOUS
<1>1. CASE BeginCycle
  BY <1>1, BeginCycleTyped
<1>2. CASE EndPass
  BY <1>2 DEF EndPass, GatesTyped, NoPass, Scale, OnePerSymbol
<1>3. CASE EvaluatePositions
  <2>1. PICK seen \in SUBSET Held :
          rows' = [s \in Candidates |->
             IF s \notin seen THEN rows[s]
             ELSE [strategy |-> IF rows[s] = None THEN 1 ELSE rows[s].strategy,
                   size |-> held[s]]]
    BY <1>3 DEF EvaluatePositions
  <2>2. rows' \in [Candidates -> Row]
    BY <2>1 DEF GatesTyped, Row
  <2> QED BY <1>3, <2>2 DEF EvaluatePositions, GatesTyped, OnePerSymbol
<1>4. CASE PopDue
  <2>1. PICK due \in SUBSET {s \in Candidates : intents[s] > 0} : \E late \in SUBSET due :
          /\ batch' = {[sym |-> s, size |-> intents[s], late |-> s \in late] : s \in due}
          /\ intents' = [s \in Candidates |-> IF s \in due THEN 0 ELSE intents[s]]
    BY <1>4 DEF PopDue
  <2>2. PICK late \in SUBSET due :
          batch' = {[sym |-> s, size |-> intents[s], late |-> s \in late] : s \in due}
    BY <2>1
  <2>3. batch' \in SUBSET Item /\ OnePerSymbol(batch')
    <3>1. \A s \in due : intents[s] \in Nat /\ s \in Candidates
      BY DEF GatesTyped
    <3>2. batch' \in SUBSET Item
      <4> SUFFICES ASSUME NEW i \in batch' PROVE i \in Item
        OBVIOUS
      <4>1. PICK s \in due : i = [sym |-> s, size |-> intents[s], late |-> s \in late]
        BY <2>2
      <4>2. (s \in late) \in BOOLEAN
        OBVIOUS
      <4> QED BY <3>1, <4>1, <4>2 DEF Item
    <3>3. \A i \in batch' : i = [sym |-> i.sym, size |-> intents[i.sym], late |-> i.sym \in late]
      BY <2>2
    <3> QED BY <3>2, <3>3 DEF OnePerSymbol
  <2>4. IsFiniteSet(batch')
    <3>1. IsFiniteSet(due)
      BY CandidatesFinite
    <3> DEFINE f == [s \in due |-> [sym |-> s, size |-> intents[s], late |-> s \in late]]
    <3>2. batch' = {f[s] : s \in due}
      BY <2>2
    <3> HIDE DEF f
    <3> QED BY <3>1, <3>2, ImageFinite
  <2>5. intents' \in [Candidates -> Nat]
    BY <2>1 DEF GatesTyped
  <2> QED BY <1>4, <2>3, <2>4, <2>5 DEF PopDue, GatesTyped, OnePerSymbol
<1>5. CASE Arbitrate
  <2>1. batch' \subseteq batch
    BY <1>5 DEF Arbitrate
  <2>2. IsFiniteSet(batch')
    BY <2>1, FS_Subset DEF GatesTyped
  <2> QED BY <1>5, <2>1, <2>2 DEF Arbitrate, GatesTyped, OnePerSymbol
<1>6. CASE ArbiterFails
  BY <1>6, FS_EmptySet DEF ArbiterFails, GatesTyped, OnePerSymbol
<1>7. CASE ApplySleeves
  <2>1. batch' \subseteq batch
    BY <1>7, GrantsChosen, FS_EmptySet DEF ApplySleeves, GatesTyped
  <2>2. IsFiniteSet(batch')
    BY <2>1, FS_Subset DEF GatesTyped
  <2>3. decisions' \in SUBSET Candidates
    BY <1>7, <2>1 DEF ApplySleeves, GatesTyped, Item
  <2> QED BY <1>7, <2>1, <2>2, <2>3 DEF ApplySleeves, GatesTyped, OnePerSymbol
<1>8. CASE EndCycle
  BY <1>8 DEF EndCycle, GatesTyped, OnePerSymbol
<1>9. ASSUME NEW i \in batch, Buy(i) \/ Refuse(i) PROVE GatesTyped'
  <2>1. batch' \subseteq batch
    BY <1>9 DEF Buy, Refuse
  <2>2. IsFiniteSet(batch')
    BY <2>1, FS_Subset DEF GatesTyped
  <2>3. i.sym \in Candidates /\ i.size \in Nat
    BY DEF GatesTyped, Item
  <2> QED BY <1>9, <2>1, <2>2, <2>3 DEF Buy, Refuse, GatesTyped, OnePerSymbol
<1>10. ASSUME NEW s \in Candidates, PassOver(s) PROVE GatesTyped'
  BY <1>10 DEF PassOver, GatesTyped, OnePerSymbol
<1>11. ASSUME NEW s \in Candidates, Create(s) PROVE GatesTyped'
  BY <1>11, CreateTyped
<1>12. ASSUME NEW s \in Candidates, Close(s) PROVE GatesTyped'
  BY <1>12 DEF Close, GatesTyped, OnePerSymbol
<1>13. CASE UNCHANGED g_vars
  BY <1>13 DEF g_vars, GatesTyped, OnePerSymbol
<1> QED BY <1>1, <1>2, <1>3, <1>4, <1>5, <1>6, <1>7, <1>8, <1>9, <1>10, <1>11, <1>12, <1>13
  DEF GatesNext

-----------------------------------------------------------------------------
(* The pass *)

Wanted == {s \in Candidates : intents[s] > 0}
Limit  == (BaseGross * pass.risk) \div Scale

(* What the counters of a pass are worth at each step of it; outside of a  *)
(* pass there are none.                                                    *)
PassCounted ==
  /\ g_pc # "create" => pass = NoPass
  /\ pass.on =>
       /\ pass.projected = Cardinality(Rowed) + pass.created
       /\ pass.created > 0 => pass.projected <= pass.slots
       /\ pass.gross <= RowsGross(Rowed) + Total(intents, Wanted)
       /\ pass.gross <= Max({Limit, RowsGross(Rowed)}) + pass.created

LEMMA MaxOfTwo ==
  ASSUME NEW a \in Int, NEW b \in Int
  PROVE  /\ Max({a, b}) \in Int /\ a <= Max({a, b}) /\ b <= Max({a, b})
         /\ Max({a, b}) \in {a, b}
<1>1. a >= b => Max({a, b}) = a
  BY DEF Max
<1>2. b >= a => Max({a, b}) = b
  BY DEF Max
<1> QED BY <1>1, <1>2

(* The sums over the table are the same as long as the rows are. *)
LEMMA RowedTotal ==
  rows \in [Candidates -> Row] =>
    /\ RowsGross(Rowed) = Total(RowSize, Rowed)
    /\ \A k \in Strategies : RowsGross(RowsOf(k)) = Total(RowSize, RowsOf(k))
  BY RowsTotal DEF RowsOf, Rowed

LEMMA RowedTotalNext ==
  (rows \in [Candidates -> Row])' =>
    (/\ RowsGross(Rowed) = Total(RowSize, Rowed)
     /\ \A k \in Strategies : RowsGross(RowsOf(k)) = Total(RowSize, RowsOf(k)))'
  BY RowedTotal, PTL

LEMMA RowsSame ==
  ASSUME GatesTyped, rows' = rows
  PROVE  /\ Rowed' = Rowed /\ RowsGross(Rowed)' = RowsGross(Rowed)
         /\ \A k \in Strategies : /\ RowsOf(k)' = RowsOf(k)
                                  /\ RowsGross(RowsOf(k))' = RowsGross(RowsOf(k))
<1>1. Rowed' = Rowed /\ RowSize' = RowSize /\ \A k \in Strategies : RowsOf(k)' = RowsOf(k)
  BY DEF Rowed, RowSize, RowsOf
<1>2. (rows \in [Candidates -> Row])'
  BY DEF GatesTyped
<1>3. /\ RowsGross(Rowed) = Total(RowSize, Rowed)
      /\ \A k \in Strategies : RowsGross(RowsOf(k)) = Total(RowSize, RowsOf(k))
  BY RowedTotal DEF GatesTyped
<1>4. /\ RowsGross(Rowed)' = Total(RowSize', Rowed')
      /\ \A k \in Strategies : RowsGross(RowsOf(k))' = Total(RowSize', RowsOf(k)')
  BY <1>2, RowedTotalNext
<1> QED BY <1>1, <1>3, <1>4

LEMMA PassFigures ==
  ASSUME GatesTyped
  PROVE  /\ Limit \in Nat /\ RowsGross(Rowed) \in Nat /\ Cardinality(Rowed) \in Nat
         /\ Total(intents, Wanted) \in Nat
         /\ Max({Limit, RowsGross(Rowed)}) \in Int
         /\ Limit <= Max({Limit, RowsGross(Rowed)})
         /\ RowsGross(Rowed) <= Max({Limit, RowsGross(Rowed)})
<1>1. Limit \in Nat
  <2>1. BaseGross \in Nat /\ pass.risk \in Nat
    BY EntryGatesConstants DEF GatesTyped, Scale
  <2>2. \A m, n \in Nat : (m * n) \in Nat
    OBVIOUS
  <2>3. \A m \in Nat : m \div 20 \in Nat
    OBVIOUS
  <2>4. BaseGross * pass.risk \in Nat
    BY <2>1, <2>2
  <2> QED BY <2>3, <2>4 DEF Limit, Scale
<1>2. RowsGross(Rowed) \in Nat /\ Cardinality(Rowed) \in Nat
  <2>1. Rowed \in SUBSET Candidates
    BY DEF Rowed
  <2> QED BY <2>1, RowsTotal, CandidatesFinite DEF GatesTyped
<1>3. Total(intents, Wanted) \in Nat
  <2>1. IsFiniteSet(Wanted) /\ \A s \in Wanted : intents[s] \in Nat
    BY CandidatesFinite DEF Wanted, GatesTyped
  <2> QED BY <2>1, TotalNat
<1>4. Limit \in Int /\ RowsGross(Rowed) \in Int
  BY <1>1, <1>2
<1>5. /\ Max({Limit, RowsGross(Rowed)}) \in Int
      /\ Limit <= Max({Limit, RowsGross(Rowed)})
      /\ RowsGross(Rowed) <= Max({Limit, RowsGross(Rowed)})
  BY <1>4, MaxOfTwo
<1> QED BY <1>1, <1>2, <1>3, <1>5

LEMMA CreateCounted ==
  ASSUME GatesTyped, PassCounted, NEW s \in Candidates, Create(s)
  PROVE  PassCounted'
<1>1. PICK size \in Nat \ {0} :
        /\ intents' = [intents EXCEPT ![s] = size]
        /\ pass' = [pass EXCEPT !.todo = @ \ {s}, !.created = @ + 1,
                                !.projected = @ + 1, !.gross = @ + size]
        /\ pass.on => \/ size <= 1
                      \/ pass.gross + size <= (BaseGross * pass.risk) \div Scale
  BY CreateTyped
<1>2. /\ g_pc = "create" /\ g_pc' = "create" /\ intents[s] = 0
      /\ pass.on => pass.projected < pass.slots
      /\ rows' = rows
  BY DEF Create
<1>3. /\ pass'.on = pass.on /\ pass'.slots = pass.slots /\ pass'.risk = pass.risk
      /\ pass'.created = pass.created + 1 /\ pass'.projected = pass.projected + 1
      /\ pass'.gross = pass.gross + size
  BY <1>1 DEF GatesTyped
<1>4. Rowed' = Rowed /\ RowsGross(Rowed)' = RowsGross(Rowed) /\ Limit' = Limit
  BY <1>2, <1>3, RowsSame DEF Limit
<1>5. Total(intents, Wanted)' = Total(intents, Wanted) + size
  <2>1. Wanted' = Wanted \cup {s} /\ s \notin Wanted /\ Wanted \in SUBSET Candidates
    BY <1>1, <1>2 DEF Wanted, GatesTyped
  <2>2. IsFiniteSet(Wanted) /\ \A x \in Wanted \cup {s} : intents'[x] \in Int
    BY <1>1, <2>1, CandidatesFinite DEF GatesTyped
  <2>3. Total(intents', Wanted \cup {s}) = Total(intents', Wanted) + intents'[s]
    BY <2>1, <2>2, TotalAdd
  <2>4. \A x \in Wanted : intents'[x] = intents[x]
    BY <1>1, <2>1 DEF GatesTyped
  <2>5. Total(intents', Wanted) = Total(intents, Wanted)
    BY <2>2, <2>4, TotalSame
  <2>6. intents'[s] = size
    BY <1>1 DEF GatesTyped
  <2>7. Total(intents, Wanted)' = Total(intents', Wanted')
    OBVIOUS
  <2> QED BY <2>1, <2>3, <2>5, <2>6, <2>7
<1> DEFINE most == Max({Limit, RowsGross(Rowed)})
           sum == Total(intents, Wanted)
           rg == RowsGross(Rowed)
           rc == Cardinality(Rowed)
<1>6. most' = most /\ rg' = rg /\ rc' = rc /\ sum' = sum + size
  BY <1>4, <1>5
<1>7. Limit \in Nat /\ rg \in Nat /\ rc \in Nat /\ sum \in Nat /\ most \in Int /\ Limit <= most
  BY PassFigures
<1>8. /\ pass.created \in Nat /\ pass.projected \in Nat /\ pass.gross \in Nat
      /\ pass.slots \in Nat
  BY DEF GatesTyped
<1>9. pass.on =>
        /\ pass.projected = rc + pass.created
        /\ pass.gross <= rg + sum
        /\ pass.gross <= most + pass.created
  BY DEF PassCounted
<1>10. pass.on => size <= 1 \/ pass.gross + size <= Limit
  BY <1>1 DEF Limit
<1> HIDE DEF most, sum, rg, rc
<1>11. ASSUME pass.on
       PROVE  /\ pass'.projected = rc' + pass'.created
              /\ pass'.created > 0 => pass'.projected <= pass'.slots
              /\ pass'.gross <= rg' + sum'
              /\ pass'.gross <= most' + pass'.created
  <2>1. pass.gross + size <= (rg + sum) + size
    BY <1>7, <1>8, <1>9, <1>11
  <2>2. pass.gross + size <= most + (pass.created + 1)
    <3>1. CASE size <= 1
      BY <1>7, <1>8, <1>9, <1>11, <3>1
    <3>2. CASE pass.gross + size <= Limit
      BY <1>7, <1>8, <3>2
    <3> QED BY <1>10, <1>11, <3>1, <3>2
  <2> QED BY <1>2, <1>3, <1>6, <1>7, <1>8, <1>9, <1>11, <2>1, <2>2
<1> QED BY <1>2, <1>3, <1>11 DEF PassCounted, most, sum, rg, rc

LEMMA PassCountedNext ==
  GatesTyped /\ PassCounted /\ [GatesNext]_g_vars => PassCounted'
<1> SUFFICES ASSUME GatesTyped, PassCounted, [GatesNext]_g_vars PROVE PassCounted'
  OBVIOUS
<1>1. CASE BeginCycle
  <2>1. PICK cands \in SUBSET Candidates, on \in BOOLEAN, label \in Labels, low \in BOOLEAN :
          pass' = [on |-> on, risk |-> IF on THEN Controls(label, low).risk ELSE Scale,
                   slots |-> IF on THEN Controls(label, low).slots ELSE 0, created |-> 0,
                   todo |-> cands, projected |-> Cardinality(Rowed),
                   gross |-> RowsGross(Rowed)]
    BY <1>1 DEF BeginCycle
  <2>2. g_pc' = "create" /\ rows' = rows /\ intents' = intents
    BY <1>1 DEF BeginCycle
  <2>3. GatesTyped'
    BY <1>1, BeginCycleTyped
  <2>4. /\ (RowsGross(Rowed) \in Nat /\ Cardinality(Rowed) \in Nat
            /\ Total(intents, Wanted) \in Nat /\ Max({Limit, RowsGross(Rowed)}) \in Int
            /\ RowsGross(Rowed) <= Max({Limit, RowsGross(Rowed)}))'
    BY <2>3, PassFigures, PTL
  <2>5. RowsGross(Rowed)' = RowsGross(Rowed) /\ Rowed' = Rowed
    BY <2>2, RowsSame
  <2>6. pass'.projected = Cardinality(Rowed)' /\ pass'.gross = RowsGross(Rowed)'
        /\ pass'.created = 0
    BY <2>1, <2>5
  <2> QED BY <2>2, <2>4, <2>6 DEF PassCounted
<1>2. CASE EndPass
  BY <1>2 DEF EndPass, PassCounted, NoPass
<1>3. ASSUME NEW s \in Candidates, PassOver(s) PROVE PassCounted'
  <2>1. /\ g_pc' = "create" /\ rows' = rows /\ intents' = intents
        /\ pass' = [pass EXCEPT !.todo = @ \ {s}]
    BY <1>3 DEF PassOver
  <2>2. /\ pass'.on = pass.on /\ pass'.slots = pass.slots /\ pass'.risk = pass.risk
        /\ pass'.created = pass.created /\ pass'.projected = pass.projected
        /\ pass'.gross = pass.gross
    BY <2>1 DEF GatesTyped
  <2> QED BY <2>1, <2>2, RowsSame DEF PassCounted, Limit, Wanted
<1>4. ASSUME NEW s \in Candidates, Create(s) PROVE PassCounted'
  BY <1>4, CreateCounted
<1>5. CASE \/ EvaluatePositions \/ PopDue \/ Arbitrate \/ ArbiterFails \/ ApplySleeves
           \/ EndCycle \/ \E i \in batch : Buy(i) \/ Refuse(i)
  <2>1. g_pc # "create" /\ g_pc' # "create" /\ pass' = pass
    BY <1>5 DEF EvaluatePositions, PopDue, Arbitrate, ArbiterFails, ApplySleeves, EndCycle,
                Buy, Refuse
  <2> QED BY <2>1 DEF PassCounted, NoPass
<1>6. CASE UNCHANGED g_vars \/ \E s \in Candidates : Close(s)
  <2>1. UNCHANGED <<g_pc, rows, intents, pass>>
    BY <1>6 DEF g_vars, Close
  <2> QED BY <2>1, RowsSame DEF PassCounted, Limit, Wanted
<1> QED BY <1>1, <1>2, <1>3, <1>4, <1>5, <1>6 DEF GatesNext

-----------------------------------------------------------------------------
(* The sleeves *)

Of(k, B) == {i \in B : StrategyOf[i.sym] = k}

(* What a set of intents takes of the sleeve of a strategy. *)
Fits(k, B) ==
  /\ Cardinality(RowsOf(k)) + Cardinality(Of(k, B)) <= SleevePositions[k]
  /\ RowsGross(RowsOf(k)) + Total(SizeOf, Of(k, B)) <= SleeveGross[k]

WithinSleeves(B) == \A i \in B : Fits(StrategyOf[i.sym], B)

LEMMA SleeveFigures ==
  ASSUME GatesTyped, NEW k \in Strategies, NEW B \in SUBSET Item, IsFiniteSet(B)
  PROVE  /\ Cardinality(RowsOf(k)) \in Nat /\ RowsGross(RowsOf(k)) \in Nat
         /\ IsFiniteSet(Of(k, B)) /\ Of(k, B) \in SUBSET Item
         /\ Cardinality(Of(k, B)) \in Nat /\ Total(SizeOf, Of(k, B)) \in Nat
         /\ MapThenSumSet(LAMBDA i : i.size, Of(k, B)) = Total(SizeOf, Of(k, B))
         /\ SleevePositions[k] \in Nat /\ SleeveGross[k] \in Nat
<1>1. RowsOf(k) \in SUBSET Candidates
  BY DEF RowsOf, Rowed
<1>2. Of(k, B) \in SUBSET B
  BY DEF Of
<1>3. IsFiniteSet(Of(k, B)) /\ Cardinality(Of(k, B)) \in Nat /\ Of(k, B) \in SUBSET Item
  BY <1>2, FS_Subset, FS_CardinalityType
<1> QED BY <1>1, <1>3, RowsTotal, CandidatesFinite, ItemsTotal, EntryGatesConstants
        DEF GatesTyped

(* An intent fewer leaves what fitted within the limits. *)
LEMMA FewerFit ==
  ASSUME GatesTyped, NEW B, B \in SUBSET Item, IsFiniteSet(B), WithinSleeves(B),
         NEW x \in B
  PROVE  WithinSleeves(B \ {x})
<1> SUFFICES ASSUME NEW i \in B \ {x} PROVE Fits(StrategyOf[i.sym], B \ {x})
  BY DEF WithinSleeves
<1> DEFINE k == StrategyOf[i.sym]
<1>1. k \in Strategies
  BY EntryGatesConstants DEF Item
<1> HIDE DEF k
<1>2. Fits(k, B)
  BY DEF WithinSleeves, k
<1>3. CASE x \notin Of(k, B)
  <2>1. Of(k, B \ {x}) = Of(k, B)
    BY <1>3 DEF Of
  <2> QED BY <1>2, <2>1 DEF Fits, k
<1>4. CASE x \in Of(k, B)
  <2>1. Of(k, B \ {x}) = Of(k, B) \ {x}
    BY DEF Of
  <2>2. /\ Cardinality(RowsOf(k)) \in Nat /\ RowsGross(RowsOf(k)) \in Nat
        /\ IsFiniteSet(Of(k, B)) /\ Of(k, B) \in SUBSET Item
        /\ Cardinality(Of(k, B)) \in Nat
        /\ SleevePositions[k] \in Nat /\ SleeveGross[k] \in Nat
    BY <1>1, SleeveFigures
  <2>3. Cardinality(Of(k, B) \ {x}) = Cardinality(Of(k, B)) - 1
    BY <1>4, <2>2, FS_RemoveElement
  <2>4. \A j \in Of(k, B) : SizeOf[j] \in Nat
    BY <2>2 DEF SizeOf, Item
  <2>5. Total(SizeOf, Of(k, B)) = SizeOf[x] + Total(SizeOf, Of(k, B) \ {x})
    BY <1>4, <2>2, <2>4, TotalTake
  <2>6. IsFiniteSet(Of(k, B) \ {x})
    BY <2>2, FS_RemoveElement
  <2>7. Total(SizeOf, Of(k, B) \ {x}) \in Nat /\ SizeOf[x] \in Nat
    BY <1>4, <2>4, <2>6, TotalNat
  <2> DEFINE rest == Of(k, B) \ {x}
  <2>8. /\ Cardinality(RowsOf(k)) + Cardinality(Of(k, B)) <= SleevePositions[k]
        /\ RowsGross(RowsOf(k)) + Total(SizeOf, Of(k, B)) <= SleeveGross[k]
    BY <1>2 DEF Fits
  <2> HIDE DEF rest
  <2>9. /\ Cardinality(RowsOf(k)) + Cardinality(rest) <= SleevePositions[k]
        /\ RowsGross(RowsOf(k)) + Total(SizeOf, rest) <= SleeveGross[k]
    BY <2>2, <2>3, <2>5, <2>7, <2>8 DEF rest
  <2> QED BY <2>1, <2>9 DEF Fits, k, rest
<1> QED BY <1>3, <1>4

(* The last intent granted to a strategy was held against all others. *)
LEMMA GrantedFit ==
  ASSUME GatesTyped, NEW paused, NEW ok, ok \in SUBSET batch, Chosen(batch, paused, ok)
  PROVE  WithinSleeves(ok)
<1> SUFFICES ASSUME NEW i \in ok PROVE Fits(StrategyOf[i.sym], ok)
  BY DEF WithinSleeves
<1> DEFINE k == StrategyOf[i.sym]
           mine == Of(k, ok)
<1>1. /\ k \in Strategies /\ ok \in SUBSET Item /\ IsFiniteSet(ok) /\ i \in mine
  <2>1. ok \in SUBSET Item /\ IsFiniteSet(ok)
    BY FS_Subset DEF GatesTyped
  <2>2. k \in Strategies
    BY <2>1, EntryGatesConstants DEF Item
  <2> QED BY <2>1, <2>2 DEF Of
<1> HIDE DEF k
<1>2. /\ Cardinality(RowsOf(k)) \in Nat /\ RowsGross(RowsOf(k)) \in Nat
      /\ IsFiniteSet(mine) /\ mine \in SUBSET Item
      /\ Cardinality(mine) \in Nat
      /\ SleevePositions[k] \in Nat /\ SleeveGross[k] \in Nat
  BY <1>1, SleeveFigures
<1>3. PICK m \in mine : \A j \in mine : j.sym <= m.sym
  <2> HIDE DEF mine
  <2> QED BY <1>1, <1>2, LastItem
<1>4. m \in batch /\ m \in ok /\ StrategyOf[m.sym] = k
  BY <1>3 DEF Of
<1> DEFINE before == {j \in ok : j.sym < m.sym}
<1>5. SleeveAllows(m, before, paused)
  BY <1>4 DEF Chosen
<1>6. Of(k, before) = mine \ {m}
  <2>1. \A j \in mine : j.sym \in Nat
    BY <1>2, EntryGatesConstants DEF Item
  <2>2. \A j \in mine \ {m} : j.sym # m.sym
    BY <1>3, <1>4 DEF GatesTyped, OnePerSymbol, Of
  <2>3. \A j \in mine \ {m} : j.sym < m.sym
    BY <1>3, <2>1, <2>2
  <2>4. ~(m.sym < m.sym)
    BY <1>3, <2>1
  <2>5. \A j \in ok : StrategyOf[j.sym] = k <=> j \in mine
    BY DEF Of
  <2> QED BY <1>3, <2>3, <2>4, <2>5 DEF Of
<1> DEFINE rest == mine \ {m}
<1>7. /\ Cardinality(RowsOf(k)) + Cardinality(rest) < SleevePositions[k]
      /\ RowsGross(RowsOf(k)) + MapThenSumSet(LAMBDA x : x.size, rest) + m.size
           <= SleeveGross[k]
  <2>1. /\ Used(k, before).positions < SleevePositions[k]
        /\ Used(k, before).gross + m.size <= SleeveGross[k]
    BY <1>4, <1>5 DEF SleeveAllows
  <2> HIDE DEF before, mine
  <2> QED BY <1>6, <2>1 DEF Used, Of
<1> HIDE DEF mine
<1>8. IsFiniteSet(rest) /\ Cardinality(rest) = Cardinality(mine) - 1
  BY <1>2, <1>3, FS_RemoveElement
<1>9. /\ MapThenSumSet(LAMBDA x : x.size, rest) = Total(SizeOf, rest)
      /\ Total(SizeOf, rest) \in Nat
  <2>1. rest \in SUBSET Item
    BY <1>2
  <2> HIDE DEF rest
  <2> QED BY <1>8, <2>1, ItemsTotal
<1>10. Total(SizeOf, mine) = m.size + Total(SizeOf, rest) /\ m.size \in Nat
  <2>1. \A j \in mine : SizeOf[j] = j.size /\ SizeOf[j] \in Int /\ j.size \in Nat
    BY <1>2 DEF SizeOf, Item
  <2> QED BY <1>2, <1>3, <2>1, TotalTake
<1> HIDE DEF rest
<1>11. /\ Cardinality(RowsOf(k)) + Cardinality(mine) <= SleevePositions[k]
       /\ RowsGross(RowsOf(k)) + Total(SizeOf, mine) <= SleeveGross[k]
  BY <1>2, <1>7, <1>8, <1>9, <1>10
<1> QED BY <1>11 DEF Fits, k, mine

SleevesKept == g_pc = "submit" => WithinSleeves(batch)

(* What fits by the rows of before fits by the same rows. *)
LEMMA FitsSame ==
  ASSUME GatesTyped, rows' = rows, batch' \in SUBSET Item, WithinSleeves(batch')
  PROVE  WithinSleeves(batch)'
<1>1. ASSUME NEW i \in batch'
      PROVE  Fits(StrategyOf[i.sym], batch)'
  <2> DEFINE k == StrategyOf[i.sym]
  <2>1. k \in Strategies
    BY EntryGatesConstants DEF Item
  <2>2. Fits(k, batch')
    BY DEF WithinSleeves
  <2> HIDE DEF k
  <2>3. RowsOf(k)' = RowsOf(k) /\ RowsGross(RowsOf(k))' = RowsGross(RowsOf(k))
    BY <2>1, RowsSame
  <2>4. Fits(k, batch)'
    BY <2>2, <2>3 DEF Fits, Of
  <2> QED BY <2>4 DEF k
<1> QED BY <1>1 DEF WithinSleeves

LEMMA SleevesKeptNext ==
  GatesTyped /\ SleevesKept /\ [GatesNext]_g_vars => SleevesKept'
<1> SUFFICES ASSUME GatesTyped, SleevesKept, [GatesNext]_g_vars PROVE SleevesKept'
  OBVIOUS
<1>1. CASE ApplySleeves
  <2>1. rows' = rows
    BY <1>1 DEF ApplySleeves
  <2>2. batch' = {} \/ \E paused : batch' \in SUBSET batch /\ Chosen(batch, paused, batch')
    BY <1>1, GrantsChosen DEF ApplySleeves, GatesTyped
  <2>3. WithinSleeves(batch')
    BY <2>2, GrantedFit DEF WithinSleeves
  <2>4. batch' \in SUBSET Item
    BY <2>2 DEF GatesTyped
  <2> QED BY <2>1, <2>3, <2>4, FitsSame DEF SleevesKept
<1>2. CASE ArbiterFails
  BY <1>2 DEF ArbiterFails, SleevesKept, WithinSleeves
<1>3. ASSUME NEW i \in batch, Buy(i) \/ Refuse(i) PROVE SleevesKept'
  <2>1. g_pc = "submit" /\ batch' = batch \ {i} /\ rows' = rows
    BY <1>3 DEF Buy, Refuse
  <2>2. WithinSleeves(batch \ {i})
    BY <2>1, FewerFit DEF SleevesKept, GatesTyped
  <2>3. batch' \in SUBSET Item
    BY <2>1 DEF GatesTyped
  <2> QED BY <2>1, <2>2, <2>3, FitsSame DEF SleevesKept
<1>4. CASE \/ BeginCycle \/ EndPass \/ EvaluatePositions \/ PopDue \/ Arbitrate \/ EndCycle
           \/ \E s \in Candidates : PassOver(s) \/ Create(s)
  BY <1>4 DEF BeginCycle, EndPass, EvaluatePositions, PopDue, Arbitrate, EndCycle, PassOver,
              Create, SleevesKept
<1>5. CASE UNCHANGED g_vars \/ \E s \in Candidates : Close(s)
  <2>1. UNCHANGED <<g_pc, rows, batch>>
    BY <1>5 DEF g_vars, Close
  <2>2. batch' \in SUBSET Item
    BY <2>1 DEF GatesTyped
  <2> QED BY <2>1, <2>2, FitsSame DEF SleevesKept
<1> QED BY <1>1, <1>2, <1>3, <1>4, <1>5 DEF GatesNext

-----------------------------------------------------------------------------
GatesInv == GatesTyped /\ PassCounted /\ SleevesKept

LEMMA GatesInvAlways == GatesSpec => []GatesInv
<1>1. GatesInit => GatesInv
  <2>1. GatesInit => GatesTyped
    BY GatesTypedInit
  <2>2. GatesInit => PassCounted /\ SleevesKept
    BY DEF GatesInit, PassCounted, SleevesKept, NoPass
  <2> QED BY <2>1, <2>2 DEF GatesInv
<1>2. GatesInv /\ [GatesNext]_g_vars => GatesInv'
  BY GatesTypedNext, PassCountedNext, SleevesKeptNext DEF GatesInv
<1> QED BY <1>1, <1>2, PTL DEF GatesSpec

(* A pass of the buy loop stays within the slots and, but for one share an *)
(* intent, the exposure of the date, for any candidates, limits and sizes. *)
THEOREM PassesWithinBudgets == GatesSpec => []PassWithinBudgets
<1>1. GatesTyped /\ PassCounted => PassWithinBudgets
  <2> SUFFICES ASSUME GatesTyped, PassCounted, pass.on, pass.created > 0
               PROVE  /\ pass.projected <= pass.slots
                      /\ pass.projected = Cardinality(Rowed) + pass.created
                      /\ RowsGross(Rowed) + MapThenSumSet(LAMBDA s : intents[s],
                                              {s \in Candidates : intents[s] > 0})
                           >= pass.gross
                      /\ pass.gross <= Max({(BaseGross * pass.risk) \div Scale,
                                            RowsGross(Rowed)}) + pass.created
    BY DEF PassWithinBudgets
  <2>1. MapThenSumSet(LAMBDA s : intents[s], {s \in Candidates : intents[s] > 0})
          = Total(intents, Wanted)
    BY DEF Total, Wanted
  <2>2. RowsGross(Rowed) \in Nat /\ Total(intents, Wanted) \in Nat /\ pass.gross \in Nat
    BY PassFigures DEF GatesTyped
  <2>3. RowsGross(Rowed) + Total(intents, Wanted) >= pass.gross
    BY <2>2 DEF PassCounted
  <2>4. pass.gross <= Max({(BaseGross * pass.risk) \div Scale, RowsGross(Rowed)})
                        + pass.created
    BY DEF PassCounted, Limit
  <2> QED BY <2>1, <2>3, <2>4 DEF PassCounted
<1>2. GatesInv => PassWithinBudgets
  BY <1>1 DEF GatesInv
<1> QED BY <1>2, GatesInvAlways, PTL

(* Whatever a batch asks for, what the sleeves let through keeps every     *)
(* strategy within its limits by the positions table.                      *)
THEOREM SleevesHold == GatesSpec => []SleevesHoldByTheTable
<1>1. GatesTyped /\ SleevesKept => SleevesHoldByTheTable
  <2> SUFFICES ASSUME GatesTyped, SleevesKept, g_pc = "submit", NEW x \in batch
               PROVE  LET k == StrategyOf[x.sym]
                          granted == {i \in batch : StrategyOf[i.sym] = k}
                      IN /\ Cardinality(RowsOf(k)) + Cardinality(granted) <= SleevePositions[k]
                         /\ RowsGross(RowsOf(k)) + MapThenSumSet(LAMBDA i : i.size, granted)
                              <= SleeveGross[k]
    BY DEF SleevesHoldByTheTable
  <2> DEFINE k == StrategyOf[x.sym]
  <2>1. k \in Strategies
    BY EntryGatesConstants DEF GatesTyped, Item
  <2>2. Fits(k, batch)
    BY DEF SleevesKept, WithinSleeves
  <2> HIDE DEF k
  <2>3. MapThenSumSet(LAMBDA i : i.size, Of(k, batch)) = Total(SizeOf, Of(k, batch))
    BY <2>1, SleeveFigures DEF GatesTyped
  <2> QED BY <2>2, <2>3 DEF Fits, Of, k
<1>2. GatesInv => SleevesHoldByTheTable
  BY <1>1 DEF GatesInv
<1> QED BY <1>2, GatesInvAlways, PTL

-----------------------------------------------------------------------------
(* The books of the backtest. *)
Position == [id : Nat, entry : Int, initial : Nat, remaining : Nat, hold : Nat,
             trimmed : BOOLEAN, level : Int, failed : BOOLEAN]
Sides == [bought : Nat, sold : Nat]

Cost == [s \in DOMAIN positions |-> positions[s].entry * positions[s].remaining]

(* What is left of a position: all of it, or what the trim left.           *)
LeftOf(p) == IF p.trimmed THEN p.initial - ((p.initial * 3) \div 10) ELSE p.initial

BooksTyped ==
  /\ DOMAIN positions \subseteq Symbols
  /\ positions \in [DOMAIN positions -> Position]
  /\ cash \in Int /\ pnl \in Int
  /\ trades \in [DOMAIN trades -> Sides]
  /\ closed \in Seq(Nat)
  /\ delisted \subseteq Nat

(* No two positions share an id, and none is down to what no trim leaves.  *)
BooksKept ==
  /\ BooksTyped
  /\ \A s, t \in DOMAIN positions : positions[s].id = positions[t].id => s = t
  /\ \A s \in DOMAIN positions : /\ positions[s].initial >= 10
                                 /\ positions[s].remaining = LeftOf(positions[s])
  /\ TradesAccounted

(* What is invested, as a sum of a function. *)
LEMMA InvestedTotal ==
  BooksTyped => /\ Invested = Total(Cost, DOMAIN positions)
                /\ IsFiniteSet(DOMAIN positions)
                /\ \A s \in DOMAIN positions : Cost[s] \in Int
<1> SUFFICES ASSUME BooksTyped
             PROVE  /\ Invested = Total(Cost, DOMAIN positions)
                    /\ IsFiniteSet(DOMAIN positions)
                    /\ \A s \in DOMAIN positions : Cost[s] \in Int
  OBVIOUS
<1> DEFINE S == DOMAIN positions
           R(g) == [T \in SUBSET S |->
                      IF T = {} THEN 0
                      ELSE LET y == CHOOSE e \in T : TRUE
                           IN positions[y].entry * positions[y].remaining + g[T \ {y}]]
<1>0. IsFiniteSet(S)
  BY BacktestConstants, FS_Subset DEF BooksTyped
<1>1. PICK g : g = CHOOSE k : k = R(k)
  OBVIOUS
<1>2. PICK h : IsSum(Cost, S, h)
  BY <1>0, SumExists
<1>3. \A T \in SUBSET S :
        T # {} => /\ Pick(T) \in S
                  /\ Cost[Pick(T)] = positions[Pick(T)].entry * positions[Pick(T)].remaining
  BY PickIsIn DEF Cost
<1>4. h = R(h)
  BY <1>2, <1>3 DEF IsSum, Pick
<1>5. g = R(g)
  <2> HIDE DEF R
  <2> QED BY <1>1, <1>4
<1>6. IsSum(Cost, S, g)
  <2>1. g = [T \in SUBSET S |->
               IF T = {} THEN 0
               ELSE positions[Pick(T)].entry * positions[Pick(T)].remaining
                      + g[T \ {Pick(T)}]]
    BY <1>5 DEF Pick
  <2> QED BY <1>3, <2>1 DEF IsSum
<1>7. Invested = g[S]
  BY <1>1 DEF Invested, MapThenSumSet, MapThenFoldSet
<1>8. Total(Cost, S) = g[S]
  BY <1>0, <1>6, TotalIs
<1>9. \A s \in S : Cost[s] \in Int
  <2>1. \A s \in S : positions[s].entry \in Int /\ positions[s].remaining \in Int
    BY DEF BooksTyped, Position
  <2>2. \A m, n \in Int : m * n \in Int
    OBVIOUS
  <2> QED BY <2>1, <2>2 DEF Cost
<1> QED BY <1>0, <1>7, <1>8, <1>9

LEMMA InvestedTotalNext ==
  BooksTyped' => (/\ Invested = Total(Cost, DOMAIN positions)
                  /\ IsFiniteSet(DOMAIN positions)
                  /\ \A s \in DOMAIN positions : Cost[s] \in Int)'
  BY InvestedTotal, PTL

(* The money invested when a position comes, shrinks or goes. *)
LEMMA InvestedMore ==
  ASSUME BooksTyped, BooksTyped', NEW s, s \notin DOMAIN positions, NEW p \in Position,
         positions' = With(positions, s, p)
  PROVE  Invested' = Invested + p.entry * p.remaining /\ Invested \in Int
<1>1. /\ Invested = Total(Cost, DOMAIN positions) /\ IsFiniteSet(DOMAIN positions)
      /\ \A x \in DOMAIN positions : Cost[x] \in Int
  BY InvestedTotal
<1>2. /\ Invested' = Total(Cost', DOMAIN positions')
      /\ \A x \in DOMAIN positions' : Cost'[x] \in Int
  BY InvestedTotalNext
<1>3. DOMAIN positions' = DOMAIN positions \cup {s}
  BY DEF With
<1>4. \A x \in DOMAIN positions : Cost'[x] = Cost[x]
  BY <1>3 DEF With, Cost
<1>5. Cost'[s] = p.entry * p.remaining
  BY <1>3 DEF With, Cost
<1>6. Total(Cost', DOMAIN positions \cup {s}) = Total(Cost', DOMAIN positions) + Cost'[s]
  BY <1>1, <1>2, <1>3, TotalAdd
<1>7. Total(Cost', DOMAIN positions) = Total(Cost, DOMAIN positions)
  BY <1>1, <1>4, TotalSame
<1>8. Total(Cost, DOMAIN positions) \in Int
  BY <1>1, TotalType
<1> QED BY <1>1, <1>2, <1>3, <1>5, <1>6, <1>7, <1>8

LEMMA InvestedChanged ==
  ASSUME BooksTyped, BooksTyped', NEW s \in DOMAIN positions, NEW p \in Position,
         positions' = [positions EXCEPT ![s] = p]
  PROVE  /\ Invested' = Invested + p.entry * p.remaining
                          - positions[s].entry * positions[s].remaining
         /\ Invested \in Int
<1>1. /\ Invested = Total(Cost, DOMAIN positions) /\ IsFiniteSet(DOMAIN positions)
      /\ \A x \in DOMAIN positions : Cost[x] \in Int
  BY InvestedTotal
<1>2. /\ Invested' = Total(Cost', DOMAIN positions')
      /\ \A x \in DOMAIN positions' : Cost'[x] \in Int
  BY InvestedTotalNext
<1>3. DOMAIN positions' = DOMAIN positions
  OBVIOUS
<1>4. \A x \in DOMAIN positions \ {s} : Cost[x] = Cost'[x]
  BY <1>3 DEF Cost
<1>5. Cost'[s] = p.entry * p.remaining
  BY <1>3 DEF Cost
<1>6. Cost[s] = positions[s].entry * positions[s].remaining
  BY DEF Cost
<1>7. Total(Cost', DOMAIN positions) = Total(Cost, DOMAIN positions) + Cost'[s] - Cost[s]
  BY <1>1, <1>2, <1>3, <1>4, TotalExcept
<1>8. Total(Cost, DOMAIN positions) \in Int
  BY <1>1, TotalType
<1> QED BY <1>1, <1>2, <1>3, <1>5, <1>6, <1>7, <1>8

LEMMA InvestedLess ==
  ASSUME BooksTyped, BooksTyped', NEW s \in DOMAIN positions,
         positions' = Without(positions, s)
  PROVE  /\ Invested' = Invested - positions[s].entry * positions[s].remaining
         /\ Invested \in Int
<1>1. /\ Invested = Total(Cost, DOMAIN positions) /\ IsFiniteSet(DOMAIN positions)
      /\ \A x \in DOMAIN positions : Cost[x] \in Int
  BY InvestedTotal
<1>2. Invested' = Total(Cost', DOMAIN positions')
  BY InvestedTotalNext
<1>3. DOMAIN positions' = DOMAIN positions \ {s}
  BY DEF Without, Restrict
<1>4. \A x \in DOMAIN positions \ {s} : Cost'[x] = Cost[x]
  BY <1>3 DEF Cost, Without, Restrict
<1>5. Cost[s] = positions[s].entry * positions[s].remaining
  BY DEF Cost
<1>6. Total(Cost, DOMAIN positions) = Cost[s] + Total(Cost, DOMAIN positions \ {s})
  BY <1>1, TotalTake
<1>7. IsFiniteSet(DOMAIN positions \ {s})
  BY <1>1, FS_RemoveElement
<1>8. Total(Cost', DOMAIN positions \ {s}) = Total(Cost, DOMAIN positions \ {s})
  BY <1>4, <1>7, TotalSame
<1>9. Total(Cost, DOMAIN positions \ {s}) \in Int /\ Cost[s] \in Int
  BY <1>1, <1>7, TotalType
<1> QED BY <1>1, <1>2, <1>3, <1>5, <1>6, <1>8, <1>9

LEMMA ProfitAndCost ==
  ASSUME NEW e \in Int, NEW p \in Int, NEW q \in Int
  PROVE  q * p = q * (p - e) + e * q
  OBVIOUS

LEMMA CostParts ==
  ASSUME NEW e \in Int, NEW r \in Int, NEW t \in Int
  PROVE  e * r = e * (r - t) + e * t
  OBVIOUS

-----------------------------------------------------------------------------
(* What a step does to the books                                           *)

(* Nothing. *)
LEMMA BooksRest ==
  ASSUME BooksKept, UNCHANGED books, delisted' = delisted
  PROVE  BooksKept'
<1>1. BooksTyped'
  BY DEF BooksKept, BooksTyped, books
<1>2. Invested' = Invested
  <2>1. Cost' = Cost /\ positions' = positions
    BY DEF Cost, books
  <2>2. Invested = Total(Cost, DOMAIN positions)
    BY InvestedTotal DEF BooksKept
  <2>3. Invested' = Total(Cost', DOMAIN positions')
    BY <1>1, InvestedTotalNext
  <2> QED BY <2>1, <2>2, <2>3
<1> QED BY <1>1, <1>2 DEF BooksKept, TradesAccounted, CashAccounts, SharesAccounted, Open,
                          Ended, LeftOf, books

(* A position comes, under an id that is new. *)
LEMMA Entered ==
  ASSUME BooksKept, NEW s \in Symbols \ DOMAIN positions, NEW id \in Nat \ DOMAIN trades,
         NEW price \in Int, NEW level \in Int, NEW failed \in BOOLEAN, NEW qty \in Nat \ {0},
         cash' = cash - price * qty * 10,
         positions' = With(positions, s, NewPosition(id, price, qty, level, failed)),
         trades' = With(trades, id, Bought(id, qty * 10)),
         pnl' = pnl, closed' = closed, delisted' = delisted
  PROVE  /\ BooksKept'
         /\ DOMAIN positions' = DOMAIN positions \cup {s}
         /\ DOMAIN trades' = DOMAIN trades \cup {id}
<1> DEFINE p == NewPosition(id, price, qty, level, failed)
<1>1. /\ p \in Position /\ p.id = id /\ p.entry = price /\ p.initial = qty * 10
      /\ p.remaining = qty * 10 /\ ~p.trimmed
  BY DEF NewPosition, Position
<1> HIDE DEF p
<1>2. /\ DOMAIN positions' = DOMAIN positions \cup {s} /\ positions'[s] = p
      /\ \A t \in DOMAIN positions : positions'[t] = positions[t] /\ t # s
      /\ positions' \in [DOMAIN positions' -> Position]
  BY <1>1 DEF With, BooksKept, BooksTyped, p
<1>3. /\ DOMAIN trades' = DOMAIN trades \cup {id}
      /\ trades'[id] = [bought |-> qty * 10, sold |-> 0]
      /\ \A i \in DOMAIN trades : trades'[i] = trades[i] /\ i # id
      /\ trades' \in [DOMAIN trades' -> Sides]
  BY DEF With, Bought, BooksKept, BooksTyped, Sides
<1>4. BooksTyped'
  <2>1. cash' \in Int
    BY ProductInt DEF BooksKept, BooksTyped
  <2> QED BY <1>2, <1>3, <2>1 DEF BooksKept, BooksTyped
<1>5. /\ \A t \in DOMAIN positions : positions[t].id \in DOMAIN trades
      /\ Open \cup Ended = DOMAIN trades /\ Open \cap Ended = {}
  BY DEF BooksKept, TradesAccounted, SharesAccounted, Open
<1>6. Open' = Open \cup {id} /\ Ended' = Ended
  BY <1>1, <1>2 DEF Open, Ended
<1>7. \A t, u \in DOMAIN positions' : positions'[t].id = positions'[u].id => t = u
  BY <1>1, <1>2, <1>5 DEF BooksKept
<1>8. \A t \in DOMAIN positions' : /\ positions'[t].initial >= 10
                                   /\ positions'[t].remaining = LeftOf(positions'[t])
  BY <1>1, <1>2 DEF BooksKept, LeftOf
<1>9. SharesAccounted'
  <2>1. /\ p.remaining \in 1..p.initial
        /\ trades'[p.id] = [bought |-> p.initial, sold |-> p.initial - p.remaining]
    BY <1>1, <1>3
  <2>2. \A t \in DOMAIN positions' :
          /\ trades'[positions'[t].id] =
               [bought |-> positions'[t].initial,
                sold |-> positions'[t].initial - positions'[t].remaining]
          /\ positions'[t].remaining \in 1..positions'[t].initial
    BY <1>2, <1>3, <1>5, <2>1 DEF BooksKept, TradesAccounted, SharesAccounted
  <2>3. \A i \in Ended' : trades'[i].bought = trades'[i].sold /\ trades'[i].bought > 0
    BY <1>3, <1>5, <1>6 DEF BooksKept, TradesAccounted, SharesAccounted
  <2>4. (DOMAIN trades)' = Open' \cup Ended' /\ Open' \cap Ended' = {}
    BY <1>3, <1>5, <1>6
  <2>5. IsInjective(closed')
    BY DEF BooksKept, TradesAccounted, SharesAccounted
  <2> QED BY <2>2, <2>3, <2>4, <2>5 DEF SharesAccounted
<1>10. CashAccounts'
  <2>1. Invested' = Invested + price * (qty * 10) /\ Invested \in Int
    BY <1>1, <1>4, InvestedMore DEF BooksKept, p
  <2>2. price * (qty * 10) = price * qty * 10 /\ price * (qty * 10) \in Int
    BY ProductInt
  <2>3. cash \in Int /\ pnl \in Int /\ Cash * 10 \in Int
    BY BacktestConstants DEF BooksKept, BooksTyped
  <2>4. cash = Cash * 10 + pnl - Invested
    BY DEF BooksKept, TradesAccounted, CashAccounts
  <2>5. cash' = Cash * 10 + pnl - Invested'
    <3> HIDE <2>2
    <3> DEFINE x == price * (qty * 10)
               c == Cash * 10
    <3>1. x \in Int /\ c \in Int /\ cash' = cash - x /\ Invested' = Invested + x
      BY <2>1, <2>2, <2>3
    <3>2. cash = c + pnl - Invested
      BY <2>4
    <3> HIDE DEF x, c
    <3>3. cash' = c + pnl - Invested'
      BY <2>1, <2>3, <3>1, <3>2
    <3> QED BY <3>3 DEF c
  <2> QED BY <2>5 DEF CashAccounts
<1> QED BY <1>2, <1>3, <1>4, <1>7, <1>8, <1>9, <1>10 DEF BooksKept, TradesAccounted

(* A part of a position, or nothing of it, is sold; it stays. *)
LEMMA Reduced ==
  ASSUME BooksKept, NEW s \in DOMAIN positions, NEW p \in Position,
         NEW trim \in Nat, NEW price \in Int,
         p.id = positions[s].id, p.entry = positions[s].entry,
         p.initial = positions[s].initial,
         p.remaining = positions[s].remaining - trim, p.remaining = LeftOf(p),
         cash' = cash + trim * price,
         pnl' = pnl + trim * (price - positions[s].entry),
         trades' = [trades EXCEPT ![positions[s].id].sold = @ + trim],
         positions' = [positions EXCEPT ![s] = p],
         closed' = closed, delisted' = delisted
  PROVE  BooksKept' /\ DOMAIN trades' = DOMAIN trades
<1> DEFINE q == positions[s]
<1>1. /\ q \in Position /\ q.id \in DOMAIN trades /\ q.remaining \in 1..q.initial
      /\ trades[q.id] = [bought |-> q.initial, sold |-> q.initial - q.remaining]
      /\ q.initial >= 10
  BY DEF BooksKept, BooksTyped, TradesAccounted, SharesAccounted, Open
<1>2. /\ DOMAIN positions' = DOMAIN positions /\ positions'[s] = p
      /\ \A t \in DOMAIN positions \ {s} : positions'[t] = positions[t]
      /\ positions' \in [DOMAIN positions' -> Position]
  BY DEF BooksKept, BooksTyped
<1> HIDE DEF q
<1>3. /\ DOMAIN trades' = DOMAIN trades
      /\ trades'[q.id] = [bought |-> q.initial, sold |-> q.initial - p.remaining]
      /\ \A i \in DOMAIN trades \ {q.id} : trades'[i] = trades[i]
      /\ trades' \in [DOMAIN trades' -> Sides]
  <2>1. /\ q.initial \in Nat /\ q.remaining \in Nat /\ p.remaining = q.remaining - trim
        /\ p.remaining \in Nat
    BY <1>1 DEF Position, q
  <2>2. q.initial - q.remaining + trim = q.initial - p.remaining /\ q.initial - p.remaining \in Nat
    BY <1>1, <2>1
  <2> DEFINE t == [bought |-> q.initial, sold |-> q.initial - p.remaining]
  <2>3. [trades[q.id] EXCEPT !.sold = @ + trim] = t
    BY <1>1, <2>2
  <2>4. trades' = [trades EXCEPT ![q.id] = [trades[q.id] EXCEPT !.sold = @ + trim]]
    BY DEF q
  <2>5. t \in Sides
    BY <2>1, <2>2 DEF Sides
  <2> HIDE DEF t
  <2>6. trades' = [trades EXCEPT ![q.id] = t]
    BY <2>3, <2>4
  <2>7. /\ DOMAIN trades' = DOMAIN trades /\ trades'[q.id] = t
        /\ \A i \in DOMAIN trades \ {q.id} : trades'[i] = trades[i]
        /\ trades' \in [DOMAIN trades' -> Sides]
    BY <1>1, <2>5, <2>6 DEF BooksKept, BooksTyped
  <2> QED BY <2>7 DEF t
<1>4. BooksTyped'
  <2>1. q.entry \in Int /\ cash \in Int /\ pnl \in Int
    BY <1>1 DEF BooksKept, BooksTyped, Position
  <2>2. trim * price \in Int /\ trim * (price - q.entry) \in Int
    BY <2>1, ProductInt
  <2>3. cash' \in Int /\ pnl' \in Int
    BY <2>1, <2>2 DEF q
  <2> QED BY <1>2, <1>3, <2>3 DEF BooksKept, BooksTyped
<1>5. /\ \A t \in DOMAIN positions : positions'[t].id = positions[t].id
      /\ \A t \in DOMAIN positions \ {s} : positions[t].id # q.id
      /\ Open' = Open /\ Ended' = Ended
  BY <1>2 DEF BooksKept, Open, Ended, q
<1>6. p.remaining \in 1..p.initial /\ p.initial >= 10
  <2>1. p.initial \in Nat /\ p.initial >= 10
    BY <1>1 DEF q, Position
  <2> QED BY <2>1 DEF LeftOf
<1>7. \A t \in DOMAIN positions' : /\ positions'[t].initial >= 10
                                   /\ positions'[t].remaining = LeftOf(positions'[t])
  BY <1>2, <1>6 DEF BooksKept, LeftOf
<1>8. SharesAccounted'
  <2>1. \A t \in DOMAIN positions' :
          /\ trades'[positions'[t].id] =
               [bought |-> positions'[t].initial,
                sold |-> positions'[t].initial - positions'[t].remaining]
          /\ positions'[t].remaining \in 1..positions'[t].initial
    <3>1. \A t \in DOMAIN positions \ {s} : positions[t].id \in DOMAIN trades \ {q.id}
      BY <1>5 DEF BooksKept, TradesAccounted, SharesAccounted, Open
    <3>2. \A t \in DOMAIN positions \ {s} :
            /\ trades[positions[t].id] =
                 [bought |-> positions[t].initial,
                  sold |-> positions[t].initial - positions[t].remaining]
            /\ positions[t].remaining \in 1..positions[t].initial
      BY DEF BooksKept, TradesAccounted, SharesAccounted
    <3>3. /\ trades'[p.id] = [bought |-> p.initial, sold |-> p.initial - p.remaining]
          /\ p.remaining \in 1..p.initial
      BY <1>3, <1>6 DEF q
    <3> QED BY <1>2, <1>3, <3>1, <3>2, <3>3
  <2>2. \A i \in Ended : i \in DOMAIN trades \ {q.id}
    BY DEF BooksKept, TradesAccounted, SharesAccounted, Open, q
  <2>3. \A i \in Ended' : trades'[i].bought = trades'[i].sold /\ trades'[i].bought > 0
    BY <1>3, <1>5, <2>2 DEF BooksKept, TradesAccounted, SharesAccounted
  <2> QED BY <1>3, <1>5, <2>1, <2>3 DEF BooksKept, TradesAccounted, SharesAccounted
<1>9. CashAccounts'
  <2>1. Invested' = Invested + q.entry * p.remaining - q.entry * q.remaining /\ Invested \in Int
    BY <1>4, InvestedChanged DEF BooksKept, q
  <2>2. q.entry \in Int /\ q.remaining \in Int /\ p.remaining = q.remaining - trim
    BY <1>1 DEF Position, q
  <2>3. q.entry * q.remaining = q.entry * p.remaining + q.entry * trim
    BY <2>2, CostParts
  <2>4. trim * price = trim * (price - q.entry) + q.entry * trim
    BY <2>2, ProfitAndCost
  <2>5. /\ q.entry * q.remaining \in Int /\ q.entry * p.remaining \in Int
        /\ q.entry * trim \in Int /\ trim * price \in Int /\ trim * (price - q.entry) \in Int
        /\ cash \in Int /\ pnl \in Int /\ Cash * 10 \in Int
    <3>1. trim \in Int /\ price - q.entry \in Int /\ p.remaining \in Int
      BY <2>2 DEF Position
    <3>2. cash \in Int /\ pnl \in Int /\ Cash * 10 \in Int
      BY BacktestConstants DEF BooksKept, BooksTyped
    <3> QED BY <2>2, <3>1, <3>2, ProductInt
  <2>6. cash = Cash * 10 + pnl - Invested /\ cash' = cash + trim * price
        /\ pnl' = pnl + trim * (price - q.entry)
    BY DEF BooksKept, TradesAccounted, CashAccounts, q
  <2> DEFINE a1 == q.entry * q.remaining
             a2 == q.entry * p.remaining
             a3 == q.entry * trim
             a4 == trim * price
             a5 == trim * (price - q.entry)
             c == Cash * 10
  <2>7. /\ a1 \in Int /\ a2 \in Int /\ a3 \in Int /\ a4 \in Int /\ a5 \in Int /\ c \in Int
        /\ Invested' = Invested + a2 - a1 /\ a1 = a2 + a3 /\ a4 = a5 + a3
        /\ cash = c + pnl - Invested /\ cash' = cash + a4 /\ pnl' = pnl + a5
    BY <2>1, <2>3, <2>4, <2>5, <2>6
  <2> HIDE DEF a1, a2, a3, a4, a5, c
  <2>8. cash' = c + pnl' - Invested'
    BY <2>1, <2>5, <2>7
  <2> QED BY <2>8 DEF CashAccounts, c
<1> QED BY <1>2, <1>3, <1>4, <1>5, <1>7, <1>8, <1>9 DEF BooksKept, TradesAccounted

LEMMA RangeAppend ==
  ASSUME NEW q \in Seq(Nat), NEW x \in Nat
  PROVE  /\ Append(q, x) \in Seq(Nat)
         /\ Range(Append(q, x)) = Range(q) \cup {x}
         /\ IsInjective(q) /\ x \notin Range(q) => IsInjective(Append(q, x))
<1>1. /\ Append(q, x) \in Seq(Nat) /\ DOMAIN Append(q, x) = DOMAIN q \cup {Len(q) + 1}
      /\ Append(q, x)[Len(q) + 1] = x
      /\ \A i \in DOMAIN q : Append(q, x)[i] = q[i] /\ i # Len(q) + 1
  OBVIOUS
<1> QED BY <1>1 DEF Range, IsInjective

(* An id that ends is listed, once, as closed or as delisted. *)
LEMMA EndedOnce ==
  ASSUME BooksKept, NEW s \in DOMAIN positions,
         \/ closed' = Append(closed, positions[s].id) /\ delisted' = delisted
         \/ closed' = closed /\ delisted' = delisted \cup {positions[s].id}
  PROVE  /\ closed' \in Seq(Nat) /\ delisted' \subseteq Nat /\ IsInjective(closed')
         /\ Ended' = Ended \cup {positions[s].id}
<1> DEFINE id == positions[s].id
<1>1. id \in Nat /\ closed \in Seq(Nat) /\ delisted \subseteq Nat
  BY DEF BooksKept, BooksTyped, Position
<1>2. id \notin Ended /\ IsInjective(closed)
  BY DEF BooksKept, TradesAccounted, SharesAccounted, Open
<1> HIDE DEF id
<1>3. CASE closed' = Append(closed, id) /\ delisted' = delisted
  BY <1>1, <1>2, <1>3, RangeAppend DEF Ended, id
<1>4. CASE closed' = closed /\ delisted' = delisted \cup {id}
  BY <1>1, <1>2, <1>4 DEF Ended, id
<1> QED BY <1>3, <1>4 DEF id

(* A position goes, for money that is its cost and a gain. *)
LEMMA Exited ==
  ASSUME BooksKept, NEW s \in DOMAIN positions, NEW money \in Int, NEW gain \in Int,
         money = gain + positions[s].entry * positions[s].remaining,
         cash' = cash + money, pnl' = pnl + gain,
         trades' = [trades EXCEPT ![positions[s].id].sold = @ + positions[s].remaining],
         positions' = Without(positions, s),
         closed' \in Seq(Nat), delisted' \subseteq Nat, IsInjective(closed'),
         Ended' = Ended \cup {positions[s].id}
  PROVE  BooksKept' /\ DOMAIN trades' = DOMAIN trades
<1> DEFINE q == positions[s]
<1>1. /\ q \in Position /\ q.id \in DOMAIN trades /\ q.remaining \in 1..q.initial
      /\ trades[q.id] = [bought |-> q.initial, sold |-> q.initial - q.remaining]
      /\ q.initial >= 10 /\ q.id \in Open
  BY DEF BooksKept, BooksTyped, TradesAccounted, SharesAccounted, Open
<1>2. /\ DOMAIN positions' = DOMAIN positions \ {s}
      /\ \A t \in DOMAIN positions \ {s} : positions'[t] = positions[t]
      /\ positions' \in [DOMAIN positions' -> Position]
  BY DEF BooksKept, BooksTyped, Without, Restrict
<1> HIDE DEF q
<1>3. /\ DOMAIN trades' = DOMAIN trades
      /\ trades'[q.id] = [bought |-> q.initial, sold |-> q.initial]
      /\ \A i \in DOMAIN trades \ {q.id} : trades'[i] = trades[i]
      /\ trades' \in [DOMAIN trades' -> Sides]
  <2>1. q.initial \in Nat /\ q.remaining \in Nat
    BY <1>1 DEF Position
  <2>2. q.initial - q.remaining + q.remaining = q.initial
    BY <2>1
  <2> DEFINE t == [bought |-> q.initial, sold |-> q.initial]
  <2>3. [trades[q.id] EXCEPT !.sold = @ + q.remaining] = t
    BY <1>1, <2>2
  <2>4. trades' = [trades EXCEPT ![q.id] = [trades[q.id] EXCEPT !.sold = @ + q.remaining]]
    BY DEF q
  <2>5. t \in Sides
    BY <2>1 DEF Sides
  <2> HIDE DEF t
  <2>6. trades' = [trades EXCEPT ![q.id] = t]
    BY <2>3, <2>4
  <2>7. /\ DOMAIN trades' = DOMAIN trades /\ trades'[q.id] = t
        /\ \A i \in DOMAIN trades \ {q.id} : trades'[i] = trades[i]
        /\ trades' \in [DOMAIN trades' -> Sides]
    BY <1>1, <2>5, <2>6 DEF BooksKept, BooksTyped
  <2> QED BY <2>7 DEF t
<1>5. Ended \subseteq DOMAIN trades
  BY DEF BooksKept, TradesAccounted, SharesAccounted
<1>6. Ended' = Ended \cup {q.id}
  BY DEF q
<1>7. BooksTyped'
  <2>3. cash' \in Int /\ pnl' \in Int
    BY DEF BooksKept, BooksTyped
  <2>4. DOMAIN positions' \subseteq Symbols
    BY <1>2 DEF BooksKept, BooksTyped
  <2> QED BY <1>2, <1>3, <1>6, <2>3, <2>4 DEF BooksTyped
<1>8. Open' = Open \ {q.id}
  <2>1. \A t \in DOMAIN positions \ {s} : positions[t].id # q.id
    BY DEF BooksKept, q
  <2> QED BY <1>2, <2>1 DEF Open, q
<1>9. /\ \A t, u \in DOMAIN positions' : positions'[t].id = positions'[u].id => t = u
      /\ \A t \in DOMAIN positions' : /\ positions'[t].initial >= 10
                                      /\ positions'[t].remaining = LeftOf(positions'[t])
  BY <1>2 DEF BooksKept, LeftOf
<1>10. SharesAccounted'
  <2>1. \A t \in DOMAIN positions' :
          /\ trades'[positions'[t].id] =
               [bought |-> positions'[t].initial,
                sold |-> positions'[t].initial - positions'[t].remaining]
          /\ positions'[t].remaining \in 1..positions'[t].initial
    <3>1. \A t \in DOMAIN positions \ {s} : positions[t].id \in DOMAIN trades \ {q.id}
      BY DEF BooksKept, TradesAccounted, SharesAccounted, Open, q
    <3>2. \A t \in DOMAIN positions \ {s} :
            /\ trades[positions[t].id] =
                 [bought |-> positions[t].initial,
                  sold |-> positions[t].initial - positions[t].remaining]
            /\ positions[t].remaining \in 1..positions[t].initial
      BY DEF BooksKept, TradesAccounted, SharesAccounted
    <3> QED BY <1>2, <1>3, <3>1, <3>2
  <2>2. \A i \in Ended' : trades'[i].bought = trades'[i].sold /\ trades'[i].bought > 0
    <3>1. \A i \in Ended : trades'[i].bought = trades'[i].sold /\ trades'[i].bought > 0
      <4>1. q.id \notin Ended
        BY <1>1 DEF BooksKept, TradesAccounted, SharesAccounted
      <4>2. \A i \in Ended : i \in DOMAIN trades \ {q.id}
        BY <1>5, <4>1
      <4> QED BY <1>3, <4>2 DEF BooksKept, TradesAccounted, SharesAccounted
    <3>2. q.initial \in Nat
      BY <1>1 DEF Position
    <3>3. trades'[q.id].bought = trades'[q.id].sold /\ trades'[q.id].bought > 0
      BY <1>1, <1>3, <3>2
    <3> QED BY <1>6, <3>1, <3>3
  <2>3. (DOMAIN trades)' = Open' \cup Ended' /\ Open' \cap Ended' = {}
    BY <1>1, <1>3, <1>6, <1>8 DEF BooksKept, TradesAccounted, SharesAccounted
  <2> QED BY <1>6, <2>1, <2>2, <2>3 DEF SharesAccounted
<1>11. CashAccounts'
  <2> DEFINE b == q.entry * q.remaining
             c == Cash * 10
  <2>1. Invested' = Invested - b /\ Invested \in Int
    BY <1>7, InvestedLess DEF BooksKept, q
  <2>2. b \in Int
    <3>1. q.entry \in Int /\ q.remaining \in Int
      BY <1>1 DEF Position
    <3> QED BY <3>1, ProductInt
  <2>3. cash \in Int /\ pnl \in Int /\ c \in Int
    BY BacktestConstants DEF BooksKept, BooksTyped
  <2>4. cash = c + pnl - Invested /\ money = gain + b
    BY DEF BooksKept, TradesAccounted, CashAccounts, q
  <2> HIDE DEF b, c
  <2>5. cash' = c + pnl' - Invested'
    BY <2>1, <2>2, <2>3, <2>4
  <2> QED BY <2>5 DEF CashAccounts, c
<1> QED BY <1>3, <1>7, <1>9, <1>10, <1>11 DEF BooksKept, TradesAccounted

-----------------------------------------------------------------------------
(* The steps of a day                                                      *)

Phases == {"start", "delist", "fill", "manage", "scan", "done", "raised"}

DaysTyped ==
  /\ e_phase \in Phases /\ todo \subseteq Symbols
  /\ bars \in [Symbols -> [o : Nat, h : Nat, l : Nat, c : Nat]]
  /\ last \in [Symbols -> Nat]
  /\ DOMAIN pending \subseteq Symbols
  /\ pending \in [DOMAIN pending -> [id : Nat, level : Nat, failed : BOOLEAN]]
  /\ next_position_id \in Nat

(* An entry that is still to come. *)
Waits(s) == e_phase \in {"start", "delist", "scan"} \/ (e_phase = "fill" /\ s \in todo)

(* Ids are given once, and used once. *)
IdsGiven ==
  /\ \A i \in DOMAIN trades : i < next_position_id
  /\ \A s \in DOMAIN pending : /\ pending[s].id < next_position_id
                               /\ Waits(s) => pending[s].id \notin DOMAIN trades
  /\ \A s, t \in DOMAIN pending : pending[s].id = pending[t].id => s = t
  /\ e_phase \in {"delist", "manage"} => todo \subseteq DOMAIN positions
  /\ e_phase = "fill" => todo \subseteq DOMAIN pending
  /\ e_phase = "manage" => DOMAIN pending = {}

EngineInv == BooksKept /\ DaysTyped /\ IdsGiven

LEMMA DaysBars == Days \subseteq [Symbols -> [o : Nat, h : Nat, l : Nat, c : Nat]]
<1>1. NoBar \in [o : Nat, h : Nat, l : Nat, c : Nat]
  BY DEF NoBar
<1>2. Bars \subseteq [o : Nat, h : Nat, l : Nat, c : Nat]
  BY BacktestConstants
<1> QED BY <1>1, <1>2 DEF Days

LEMMA EngineInitially == EngineInit => EngineInv
<1> SUFFICES ASSUME EngineInit PROVE EngineInv
  OBVIOUS
<1> USE DEF EngineInit
<1>1. DOMAIN positions = {} /\ DOMAIN trades = {} /\ DOMAIN pending = {} /\ DOMAIN closed = {}
  OBVIOUS
<1>2. BooksTyped
  <2>1. Cash * 10 \in Int
    BY BacktestConstants
  <2> QED BY <1>1, <2>1 DEF BooksTyped
<1>3. Open = {} /\ Ended = {} /\ IsInjective(closed)
  BY <1>1 DEF Open, Ended, Range, IsInjective
<1>4. SharesAccounted
  BY <1>1, <1>3 DEF SharesAccounted
<1>5. CashAccounts
  <2>1. Invested = Total(Cost, {})
    BY <1>1, <1>2, InvestedTotal
  <2>2. Total(Cost, {}) = 0
    BY FS_EmptySet, TotalRecursion
  <2>3. Cash * 10 \in Int
    BY BacktestConstants
  <2> QED BY <2>1, <2>2, <2>3 DEF CashAccounts
<1>6. BooksKept
  BY <1>1, <1>2, <1>4, <1>5 DEF BooksKept, TradesAccounted
<1>7. DaysTyped
  BY <1>1, DaysBars DEF DaysTyped, Phases
<1>8. IdsGiven
  BY <1>1 DEF IdsGiven
<1> QED BY <1>6, <1>7, <1>8 DEF EngineInv

(* An entry comes under its id, or nothing comes. *)
LEMMA EnterKept ==
  ASSUME BooksKept, NEW s \in Symbols \ DOMAIN positions, NEW id \in Nat \ DOMAIN trades,
         NEW price \in Int, NEW level \in Int, NEW failed \in BOOLEAN,
         Enter(s, id, price, level, failed), delisted' = delisted
  PROVE  /\ BooksKept' /\ e_phase' \in {e_phase, "raised"}
         /\ \/ positions' = positions /\ trades' = trades
            \/ /\ DOMAIN positions' = DOMAIN positions \cup {s}
               /\ DOMAIN trades' = DOMAIN trades \cup {id}
<1>1. CASE UNCHANGED books /\ e_phase' \in {e_phase, "raised"}
  BY <1>1, BooksRest DEF books
<1>2. ASSUME NEW base \in Sizes, NEW qty \in 1..base,
             cash' = cash - price * qty * 10,
             positions' = With(positions, s, NewPosition(id, price, qty, level, failed)),
             trades' = With(trades, id, Bought(id, qty * 10)),
             UNCHANGED <<e_phase, pnl, closed>>
      PROVE  /\ BooksKept' /\ e_phase' = e_phase
             /\ DOMAIN positions' = DOMAIN positions \cup {s}
             /\ DOMAIN trades' = DOMAIN trades \cup {id}
  <2>1. qty \in Nat \ {0}
    BY BacktestConstants
  <2> QED BY <1>2, <2>1, Entered
<1> QED BY <1>1, <1>2 DEF Enter, books

LEMMA DelistKept ==
  ASSUME EngineInv, Delist
  PROVE  EngineInv'
<1>1. PICK s \in todo :
        LET pos   == positions[s]
            price == IF Traded(s) THEN bars[s].c ELSE pos.entry
        IN /\ Sold(pos, pos.remaining, price)
           /\ positions' = Without(positions, s)
           /\ delisted' = delisted \cup {pos.id}
           /\ todo' = todo \ {s}
  BY DEF Delist
<1> DEFINE q == positions[s]
           price == IF Traded(s) THEN bars[s].c ELSE q.entry
<1>2. e_phase = "delist" /\ e_phase' = "delist" /\ closed' = closed
      /\ UNCHANGED <<entry_model, e_market, gone, pending, next_position_id>>
  BY DEF Delist
<1>3. s \in DOMAIN positions /\ s \in Symbols
  BY <1>2 DEF EngineInv, IdsGiven, DaysTyped
<1>4. q.entry \in Int /\ q.remaining \in Int /\ price \in Int
  BY <1>3 DEF EngineInv, BooksKept, BooksTyped, DaysTyped, Position
<1>5. BooksKept' /\ DOMAIN trades' = DOMAIN trades
  <2> DEFINE money == price * q.remaining
             gain  == (price - q.entry) * q.remaining
  <2>1. money \in Int /\ gain \in Int
    <3>1. price - q.entry \in Int
      BY <1>4
    <3> HIDE DEF price, q
    <3> QED BY <1>4, <3>1, ProductInt
  <2>2. money = gain + q.entry * q.remaining
    <3> HIDE DEF price, q
    <3>1. q.remaining * price = q.remaining * (price - q.entry) + q.entry * q.remaining
      BY <1>4, ProfitAndCost
    <3> QED BY <1>4, <3>1
  <2>3. /\ cash' = cash + money /\ pnl' = pnl + gain
        /\ trades' = [trades EXCEPT ![q.id].sold = @ + q.remaining]
        /\ positions' = Without(positions, s)
    BY <1>1 DEF Sold
  <2>4. /\ closed' \in Seq(Nat) /\ delisted' \subseteq Nat /\ IsInjective(closed')
        /\ Ended' = Ended \cup {q.id}
    BY <1>1, <1>2, <1>3, EndedOnce DEF EngineInv
  <2> HIDE DEF money, gain, price
  <2> QED BY <1>3, <2>1, <2>2, <2>3, <2>4, Exited DEF EngineInv
<1>6. DOMAIN positions' = DOMAIN positions \ {s}
  BY <1>1 DEF Without, Restrict
<1>7. DaysTyped'
  BY <1>1, <1>2 DEF EngineInv, DaysTyped, e_market
<1>8. IdsGiven'
  BY <1>1, <1>2, <1>5, <1>6 DEF EngineInv, IdsGiven, Waits
<1> QED BY <1>5, <1>7, <1>8 DEF EngineInv

LEMMA FillKept ==
  ASSUME EngineInv, Fill
  PROVE  EngineInv'
<1>1. PICK s \in todo :
        /\ todo' = todo \ {s}
        /\ IF s \in DOMAIN positions \/ ~Traded(s) THEN UNCHANGED <<books, e_phase>>
           ELSE Enter(s, pending[s].id, bars[s].o + Slip, pending[s].level, pending[s].failed)
  BY DEF Fill
<1>2. e_phase = "fill" /\ UNCHANGED <<entry_model, e_market, gone, pending, next_position_id,
                                      delisted>>
  BY DEF Fill
<1>3. s \in DOMAIN pending /\ s \in Symbols
  BY <1>2 DEF EngineInv, IdsGiven, DaysTyped
<1>4. /\ pending[s].id \in Nat /\ pending[s].level \in Int /\ pending[s].failed \in BOOLEAN
      /\ bars[s].o + Slip \in Int /\ pending[s].id \notin DOMAIN trades
      /\ pending[s].id < next_position_id
  BY <1>2, <1>3, BacktestConstants DEF EngineInv, DaysTyped, IdsGiven, Waits
<1>5. /\ BooksKept' /\ e_phase' \in {"fill", "raised"}
      /\ \/ DOMAIN trades' = DOMAIN trades
         \/ DOMAIN trades' = DOMAIN trades \cup {pending[s].id}
  <2>1. CASE s \in DOMAIN positions \/ ~Traded(s)
    <3>1. UNCHANGED <<books, e_phase>>
      BY <1>1, <2>1
    <3> QED BY <1>2, <3>1, BooksRest DEF EngineInv, books
  <2>2. CASE ~(s \in DOMAIN positions \/ ~Traded(s))
    <3>1. PICK id, price, level, failed :
            /\ id = pending[s].id /\ price = bars[s].o + Slip
            /\ level = pending[s].level /\ failed = pending[s].failed
      OBVIOUS
    <3>2. Enter(s, id, price, level, failed) /\ delisted' = delisted
      BY <1>1, <1>2, <2>2, <3>1
    <3>3. /\ s \in Symbols \ DOMAIN positions /\ id \in Nat \ DOMAIN trades
          /\ price \in Int /\ level \in Int /\ failed \in BOOLEAN
      BY <1>3, <1>4, <2>2, <3>1
    <3>4. BooksKept
      BY DEF EngineInv
    <3>5. /\ BooksKept' /\ e_phase' \in {e_phase, "raised"}
          /\ \/ positions' = positions /\ trades' = trades
             \/ /\ DOMAIN positions' = DOMAIN positions \cup {s}
                /\ DOMAIN trades' = DOMAIN trades \cup {id}
      BY <3>2, <3>3, <3>4, EnterKept
    <3> QED BY <1>2, <3>1, <3>5
  <2> QED BY <2>1, <2>2
<1>6. DaysTyped'
  BY <1>1, <1>2, <1>5 DEF EngineInv, DaysTyped, e_market, Phases
<1>7. IdsGiven'
  <2>1. \A i \in DOMAIN trades' : i < next_position_id'
    BY <1>2, <1>4, <1>5 DEF EngineInv, IdsGiven
  <2>2. \A t \in DOMAIN pending' :
          /\ pending'[t].id < next_position_id'
          /\ Waits(t)' => pending'[t].id \notin DOMAIN trades'
    <3> SUFFICES ASSUME NEW t \in DOMAIN pending, Waits(t)'
                 PROVE  pending[t].id \notin DOMAIN trades'
      BY <1>2 DEF EngineInv, IdsGiven
    <3>1. t \in todo /\ t # s
      BY <1>1, <1>5 DEF Waits
    <3>2. pending[t].id \notin DOMAIN trades /\ pending[t].id # pending[s].id
      BY <1>2, <1>3, <3>1 DEF EngineInv, IdsGiven, Waits
    <3> QED BY <1>5, <3>2
  <2> QED BY <1>1, <1>2, <1>5, <2>1, <2>2 DEF EngineInv, IdsGiven
<1> QED BY <1>5, <1>6, <1>7 DEF EngineInv

(* A day more of a position. *)
LEMMA DayOlder ==
  ASSUME NEW p \in Position, NEW q, q = [p EXCEPT !.hold = @ + 1]
  PROVE  /\ q \in Position /\ q.id = p.id /\ q.entry = p.entry /\ q.initial = p.initial
         /\ q.remaining = p.remaining /\ q.trimmed = p.trimmed
  BY DEF Position

(* A trim leaves what LeftOf says, and something. *)
LEMMA TrimLeaves ==
  ASSUME NEW q \in Position, q.initial >= 10, q.remaining = LeftOf(q), NEW bar,
         NEW trim \in Trims(q, bar), NEW left, left = Trimmed(q, trim)
  PROVE  /\ trim \in Nat /\ q.remaining - trim \in Nat
         /\ left \in Position /\ left.remaining = LeftOf(left)
         /\ left.id = q.id /\ left.entry = q.entry /\ left.initial = q.initial
         /\ left.remaining = q.remaining - trim
<1>1. q.initial \in Nat /\ q.remaining \in Nat /\ q.trimmed \in BOOLEAN
  BY DEF Position
<1>2. trim = 0 \/ (trim = (q.initial * 3) \div 10 /\ ~q.trimmed)
  BY DEF Trims
<1>3. /\ (q.initial * 3) \div 10 \in Nat /\ (q.initial * 3) \div 10 > 0
      /\ (q.initial * 3) \div 10 < q.initial
  BY <1>1
<1>4. /\ trim \in Nat /\ q.remaining - trim \in Nat
      /\ q.remaining - trim = IF q.trimmed \/ trim > 0
                              THEN q.initial - ((q.initial * 3) \div 10) ELSE q.initial
  BY <1>1, <1>2, <1>3 DEF LeftOf
<1>5. left \in Position /\ left.id = q.id /\ left.entry = q.entry /\ left.initial = q.initial
      /\ left.remaining = q.remaining - trim
      /\ left.trimmed = IF trim > 0 THEN TRUE ELSE q.trimmed
  BY <1>1, <1>4 DEF Position, Trimmed
<1>6. left.remaining = LeftOf(left)
  BY <1>1, <1>4, <1>5 DEF LeftOf
<1> QED BY <1>4, <1>5, <1>6

LEMMA ExitPriceInt ==
  ASSUME DaysTyped, NEW s \in Symbols, NEW q
  PROVE  ExitPrice(q, bars[s]) \in Int /\ R1 - Slip \in Int
<1>1. bars[s] \in [o : Nat, h : Nat, l : Nat, c : Nat]
  BY DEF DaysTyped
<1> QED BY <1>1, BacktestConstants DEF ExitPrice

LEMMA ManageKept ==
  ASSUME EngineInv, Manage
  PROVE  EngineInv'
<1>1. PICK s \in todo :
        /\ todo' = todo \ {s}
        /\ IF ~Traded(s) THEN UNCHANGED books
           ELSE LET pos   == [positions[s] EXCEPT !.hold = @ + 1]
                    price == ExitPrice(pos, bars[s])
                IN \E trim \in Trims(pos, bars[s]) :
                   LET left == pos.remaining - trim
                       sold == IF price = 0 THEN 0 ELSE left
                   IN /\ cash' = cash + trim * (R1 - Slip) + sold * price
                      /\ pnl' = pnl + trim * (R1 - Slip - pos.entry)
                                    + sold * (price - pos.entry)
                      /\ trades' = [trades EXCEPT ![pos.id].sold = @ + trim + sold]
                      /\ IF price = 0
                         THEN /\ positions' = [positions EXCEPT ![s] = Trimmed(pos, trim)]
                              /\ UNCHANGED closed
                         ELSE /\ positions' = Without(positions, s)
                              /\ closed' = Append(closed, pos.id)
  BY DEF Manage
<1>2. e_phase = "manage" /\ e_phase' = "manage" /\ delisted' = delisted
      /\ UNCHANGED <<entry_model, e_market, gone, pending, next_position_id>>
  BY DEF Manage
<1>3. s \in DOMAIN positions /\ s \in Symbols
  BY <1>2 DEF EngineInv, IdsGiven, DaysTyped
<1>4. /\ BooksKept' /\ DOMAIN trades' = DOMAIN trades
      /\ DOMAIN positions \ {s} \subseteq DOMAIN positions'
  <2>1. CASE ~Traded(s)
    BY <1>1, <1>2, <2>1, BooksRest DEF EngineInv, books
  <2>2. CASE Traded(s)
    <3>0. PICK q, price, level :
            /\ q = [positions[s] EXCEPT !.hold = @ + 1]
            /\ price = ExitPrice(q, bars[s]) /\ level = R1 - Slip
      OBVIOUS
    <3> DEFINE Amounts(x, y) ==
                 \E trim \in Trims(x, bars[s]) :
                   LET left == x.remaining - trim
                       sold == IF y = 0 THEN 0 ELSE left
                   IN /\ cash' = cash + trim * (R1 - Slip) + sold * y
                      /\ pnl' = pnl + trim * (R1 - Slip - x.entry) + sold * (y - x.entry)
                      /\ trades' = [trades EXCEPT ![x.id].sold = @ + trim + sold]
                      /\ IF y = 0
                         THEN /\ positions' = [positions EXCEPT ![s] = Trimmed(x, trim)]
                              /\ UNCHANGED closed
                         ELSE /\ positions' = Without(positions, s)
                              /\ closed' = Append(closed, x.id)
    <3>b. Amounts([positions[s] EXCEPT !.hold = @ + 1],
                  ExitPrice([positions[s] EXCEPT !.hold = @ + 1], bars[s]))
      BY <1>1, <2>2
    <3>c. Amounts(q, price)
      <4> HIDE DEF Amounts
      <4> QED BY <3>0, <3>b
    <3>1. PICK trim \in Trims(q, bars[s]) :
            LET left == q.remaining - trim
                sold == IF price = 0 THEN 0 ELSE left
            IN /\ cash' = cash + trim * (R1 - Slip) + sold * price
               /\ pnl' = pnl + trim * (R1 - Slip - q.entry) + sold * (price - q.entry)
               /\ trades' = [trades EXCEPT ![q.id].sold = @ + trim + sold]
               /\ IF price = 0
                  THEN /\ positions' = [positions EXCEPT ![s] = Trimmed(q, trim)]
                       /\ UNCHANGED closed
                  ELSE /\ positions' = Without(positions, s)
                       /\ closed' = Append(closed, q.id)
      BY <3>c
    <3> HIDE DEF Amounts
    <3>a. PICK p : p = Trimmed(q, trim)
      OBVIOUS
    <3>2. /\ price \in Int /\ level \in Int /\ trim \in Nat /\ q.remaining - trim \in Nat
          /\ q.id = positions[s].id /\ q.entry = positions[s].entry
          /\ q.initial = positions[s].initial /\ q.remaining = positions[s].remaining
          /\ p \in Position /\ p.remaining = LeftOf(p)
          /\ p.id = q.id /\ p.entry = q.entry /\ p.initial = q.initial
          /\ p.remaining = q.remaining - trim
      <4>1. /\ positions[s] \in Position
            /\ positions[s].initial >= 10 /\ positions[s].remaining = LeftOf(positions[s])
        BY <1>3 DEF EngineInv, BooksKept, BooksTyped
      <4>2. /\ q \in Position /\ q.id = positions[s].id /\ q.entry = positions[s].entry
            /\ q.initial = positions[s].initial /\ q.remaining = positions[s].remaining
            /\ q.trimmed = positions[s].trimmed
        BY <3>0, <4>1, DayOlder
      <4>3. q.initial >= 10 /\ q.remaining = LeftOf(q)
        BY <4>1, <4>2 DEF LeftOf
      <4>4. price \in Int /\ level \in Int
        BY <1>3, <3>0, ExitPriceInt DEF EngineInv
      <4>5. /\ trim \in Nat /\ q.remaining - trim \in Nat
            /\ p \in Position /\ p.remaining = LeftOf(p)
            /\ p.id = q.id /\ p.entry = q.entry /\ p.initial = q.initial
            /\ p.remaining = q.remaining - trim
        <5>1. PICK bar : bar = bars[s]
          OBVIOUS
        <5>2. trim \in Trims(q, bar) /\ q \in Position
          BY <3>1, <4>2, <5>1
        <5> QED BY <3>a, <4>3, <5>2, TrimLeaves
      <4> QED BY <4>2, <4>4, <4>5
    <3>3. q.entry \in Int /\ q.remaining \in Nat
      BY <1>3, <3>2 DEF EngineInv, BooksKept, BooksTyped, Position
    <3>4. CASE price = 0
      <4>1. /\ cash' = cash + trim * level + 0 * price
            /\ pnl' = pnl + trim * (level - q.entry) + 0 * (price - q.entry)
            /\ trades' = [trades EXCEPT ![q.id].sold = @ + trim + 0]
            /\ positions' = [positions EXCEPT ![s] = p] /\ closed' = closed
        BY <3>0, <3>1, <3>4, <3>a
      <4>2. /\ trim * level \in Int /\ trim * (level - q.entry) \in Int
            /\ cash \in Int /\ pnl \in Int
        <5>1. trim \in Int /\ level - q.entry \in Int
          BY <3>2, <3>3
        <5>2. cash \in Int /\ pnl \in Int
          BY DEF EngineInv, BooksKept, BooksTyped
        <5> QED BY <3>2, <5>1, <5>2, ProductInt
      <4>3. cash' = cash + trim * level /\ pnl' = pnl + trim * (level - q.entry)
        <5>1. 0 * price = 0 /\ 0 * (price - q.entry) = 0
          BY <3>2, <3>3
        <5> QED BY <4>1, <4>2, <5>1
      <4>4. trades' = [trades EXCEPT ![q.id].sold = @ + trim]
        <5>1. q.id \in DOMAIN trades
          BY <1>3, <3>2 DEF EngineInv, BooksKept, TradesAccounted, SharesAccounted, Open
        <5>2. trades[q.id] \in Sides
          BY <5>1 DEF EngineInv, BooksKept, BooksTyped
        <5>3. trades[q.id].sold + trim + 0 = trades[q.id].sold + trim
          BY <3>2, <5>2 DEF Sides
        <5> QED BY <4>1, <5>3
      <4>5. BooksKept' /\ DOMAIN trades' = DOMAIN trades
        <5>1. /\ pnl' = pnl + trim * (level - positions[s].entry)
              /\ trades' = [trades EXCEPT ![positions[s].id].sold = @ + trim]
          BY <3>2, <4>3, <4>4
        <5>2. /\ p.id = positions[s].id /\ p.entry = positions[s].entry
              /\ p.initial = positions[s].initial
              /\ p.remaining = positions[s].remaining - trim
          BY <3>2
        <5>3. BooksKept /\ closed' = closed /\ delisted' = delisted
          BY <1>2, <4>1 DEF EngineInv
        <5> QED BY <1>3, <3>2, <4>1, <4>3, <5>1, <5>2, <5>3, Reduced
      <4> QED BY <4>1, <4>5
    <3>5. CASE price # 0
      <4> DEFINE left  == q.remaining - trim
                 money == trim * level + left * price
                 gain  == trim * (level - q.entry) + left * (price - q.entry)
      <4>1. /\ cash' = cash + trim * level + left * price
            /\ pnl' = pnl + trim * (level - q.entry) + left * (price - q.entry)
            /\ trades' = [trades EXCEPT ![q.id].sold = @ + trim + left]
            /\ positions' = Without(positions, s) /\ closed' = Append(closed, q.id)
        BY <3>0, <3>1, <3>5
      <4>2. left \in Int /\ left = q.remaining - trim
        BY <3>2
      <4> HIDE DEF left
      <4>3. /\ trim * level \in Int /\ left * price \in Int
            /\ trim * (level - q.entry) \in Int /\ left * (price - q.entry) \in Int
            /\ q.entry * trim \in Int /\ q.entry * left \in Int
            /\ q.entry * q.remaining \in Int
            /\ cash \in Int /\ pnl \in Int
        <5>1. level - q.entry \in Int /\ price - q.entry \in Int /\ trim \in Int
              /\ q.remaining \in Int
          BY <3>2, <3>3
        <5>2. cash \in Int /\ pnl \in Int
          BY DEF EngineInv, BooksKept, BooksTyped
        <5> QED BY <3>2, <3>3, <4>2, <5>1, <5>2, ProductInt
      <4>4. /\ cash' = cash + money /\ pnl' = pnl + gain
            /\ money \in Int /\ gain \in Int
        BY <4>1, <4>3
      <4>5. money = gain + q.entry * q.remaining
        <5>1. q.entry * q.remaining = q.entry * left + q.entry * trim
          BY <3>2, <3>3, <4>2, CostParts
        <5>2. trim * level = trim * (level - q.entry) + q.entry * trim
          BY <3>2, <3>3, ProfitAndCost
        <5>3. left * price = left * (price - q.entry) + q.entry * left
          BY <3>2, <3>3, <4>2, ProfitAndCost
        <5> QED BY <4>3, <5>1, <5>2, <5>3
      <4>6. trades' = [trades EXCEPT ![q.id].sold = @ + q.remaining]
        <5>1. q.id \in DOMAIN trades
          BY <1>3, <3>2 DEF EngineInv, BooksKept, TradesAccounted, SharesAccounted, Open
        <5>2. trades[q.id] \in Sides
          BY <5>1 DEF EngineInv, BooksKept, BooksTyped
        <5>3. trades[q.id].sold + trim + left = trades[q.id].sold + q.remaining
          BY <3>2, <3>3, <4>2, <5>2 DEF Sides
        <5> QED BY <4>1, <5>3
      <4>7. /\ closed' \in Seq(Nat) /\ delisted' \subseteq Nat /\ IsInjective(closed')
            /\ Ended' = Ended \cup {positions[s].id}
        BY <1>2, <1>3, <3>2, <4>1, EndedOnce DEF EngineInv
      <4> HIDE DEF money, gain
      <4>8. BooksKept' /\ DOMAIN trades' = DOMAIN trades
        <5>1. /\ money = gain + positions[s].entry * positions[s].remaining
              /\ trades' = [trades EXCEPT ![positions[s].id].sold
                                             = @ + positions[s].remaining]
          BY <3>2, <4>5, <4>6
        <5>2. BooksKept
          BY DEF EngineInv
        <5> QED BY <1>3, <4>1, <4>4, <4>7, <5>1, <5>2, Exited
      <4>9. DOMAIN positions' = DOMAIN positions \ {s}
        BY <4>1 DEF Without, Restrict
      <4> QED BY <4>8, <4>9
    <3> QED BY <3>4, <3>5
  <2> QED BY <2>1, <2>2
<1>5. DaysTyped'
  BY <1>1, <1>2 DEF EngineInv, DaysTyped, e_market
<1>6. IdsGiven'
  <2>1. todo' \subseteq DOMAIN positions' /\ DOMAIN pending' = {}
    BY <1>1, <1>2, <1>4 DEF EngineInv, IdsGiven
  <2> QED BY <1>2, <1>4, <2>1 DEF EngineInv, IdsGiven
<1> QED BY <1>4, <1>5, <1>6 DEF EngineInv

LEMMA ScanKept ==
  ASSUME EngineInv, Scan
  PROVE  EngineInv'
<1>1. PICK s \in todo :
        /\ todo' = todo \ {s}
        /\ \/ UNCHANGED <<books, e_phase, pending, next_position_id>>
           \/ /\ Scanned(s) /\ Free(s)
              /\ \E failed \in BOOLEAN :
                 IF entry_model = "next_open"
                 THEN /\ e_day < LastDay
                      /\ pending' = With(pending, s, Queued(s, failed))
                      /\ next_position_id' = next_position_id + 1
                      /\ UNCHANGED <<books, e_phase>>
                 ELSE /\ Traded(s)
                      /\ Enter(s, next_position_id, bars[s].c + Slip, bars[s].c, failed)
                      /\ next_position_id' = next_position_id
                           + Cardinality(DOMAIN positions' \ DOMAIN positions)
                      /\ UNCHANGED pending
  BY DEF Scan
<1>2. e_phase = "scan" /\ UNCHANGED <<entry_model, e_market, gone, delisted>>
  BY DEF Scan
<1>3. s \in Symbols
  BY DEF EngineInv, DaysTyped
<1>4. LastClose(s) \in Nat /\ bars[s].c \in Nat /\ next_position_id \in Nat
  BY <1>3 DEF EngineInv, DaysTyped, LastClose
<1>5. CASE UNCHANGED <<books, e_phase, pending, next_position_id>>
  <2>1. BooksKept'
    BY <1>2, <1>5, BooksRest DEF EngineInv
  <2>2. DaysTyped'
    BY <1>1, <1>2, <1>5 DEF EngineInv, DaysTyped, e_market
  <2>3. IdsGiven'
    BY <1>2, <1>5 DEF EngineInv, IdsGiven, Waits, books
  <2> QED BY <2>1, <2>2, <2>3 DEF EngineInv
<1>6. ASSUME NEW failed \in BOOLEAN, Free(s),
             pending' = With(pending, s, Queued(s, failed)),
             next_position_id' = next_position_id + 1,
             UNCHANGED <<books, e_phase>>
      PROVE  EngineInv'
  <2>1. BooksKept'
    BY <1>2, <1>6, BooksRest DEF EngineInv
  <2> DEFINE p == [id |-> next_position_id, level |-> LastClose(s), failed |-> failed]
  <2>2. /\ DOMAIN pending' = DOMAIN pending \cup {s} /\ pending'[s] = p
        /\ \A t \in DOMAIN pending : t # s /\ pending'[t] = pending[t]
        /\ p \in [id : Nat, level : Nat, failed : BOOLEAN] /\ p.id = next_position_id
    BY <1>4, <1>6 DEF With, Queued, Free
  <2> HIDE DEF p
  <2>3. pending' \in [DOMAIN pending' -> [id : Nat, level : Nat, failed : BOOLEAN]]
    <3>1. pending' = [t \in DOMAIN pending' |-> pending'[t]]
      BY <1>6 DEF With
    <3>2. \A t \in DOMAIN pending' : pending'[t] \in [id : Nat, level : Nat, failed : BOOLEAN]
      BY <2>2 DEF EngineInv, DaysTyped
    <3> QED BY <3>1, <3>2
  <2>4. DaysTyped'
    BY <1>1, <1>2, <1>3, <1>4, <1>6, <2>2, <2>3 DEF EngineInv, DaysTyped, e_market
  <2>5. IdsGiven'
    <3>1. DOMAIN trades' = DOMAIN trades /\ e_phase' = "scan"
      BY <1>2, <1>6 DEF books
    <3>2. \A i \in DOMAIN trades : i < next_position_id /\ i # next_position_id
      <4>1. \A i \in DOMAIN trades : i < next_position_id
        BY DEF EngineInv, IdsGiven
      <4>2. \A i \in DOMAIN trades : i \in Nat
        BY DEF EngineInv, BooksKept, BooksTyped, TradesAccounted, SharesAccounted, Open,
               Ended, Range, Position
      <4> QED BY <1>4, <4>1, <4>2
    <3>3. \A t \in DOMAIN pending : /\ pending[t].id < next_position_id
                                    /\ pending[t].id # next_position_id
                                    /\ pending[t].id \in Nat
                                    /\ pending[t].id \notin DOMAIN trades
      BY <1>2, <1>4 DEF EngineInv, IdsGiven, DaysTyped, Waits
    <3>4. \A i \in DOMAIN trades : i < next_position_id + 1
      <4>1. \A i \in DOMAIN trades : i \in Nat
        BY DEF EngineInv, BooksKept, BooksTyped, TradesAccounted, SharesAccounted, Open,
               Ended, Range, Position
      <4> QED BY <1>4, <3>2, <4>1
    <3>5. \A t \in DOMAIN pending' : /\ pending'[t].id < next_position_id + 1
                                     /\ pending'[t].id \notin DOMAIN trades
      BY <1>4, <2>2, <3>2, <3>3
    <3>6. \A t, u \in DOMAIN pending' : pending'[t].id = pending'[u].id => t = u
      BY <2>2, <3>3 DEF EngineInv, IdsGiven
    <3> QED BY <1>6, <3>1, <3>4, <3>5, <3>6 DEF IdsGiven
  <2> QED BY <2>1, <2>4, <2>5 DEF EngineInv
<1>7. ASSUME NEW failed \in BOOLEAN, Free(s), Traded(s),
             Enter(s, next_position_id, bars[s].c + Slip, bars[s].c, failed),
             next_position_id' = next_position_id
                                   + Cardinality(DOMAIN positions' \ DOMAIN positions),
             UNCHANGED pending
      PROVE  EngineInv'
  <2>1. PICK id, price, level, fails :
          /\ id = next_position_id /\ price = bars[s].c + Slip
          /\ level = bars[s].c /\ fails = failed
    OBVIOUS
  <2>2. Enter(s, id, price, level, fails) /\ delisted' = delisted
    BY <1>2, <1>7, <2>1
  <2>3. \A i \in DOMAIN trades : i \in Nat /\ i < id
    <3>1. \A i \in DOMAIN trades : i \in Nat
      BY DEF EngineInv, BooksKept, BooksTyped, TradesAccounted, SharesAccounted, Open,
             Ended, Range, Position
    <3> QED BY <2>1, <3>1 DEF EngineInv, IdsGiven
  <2>4. /\ s \in Symbols \ DOMAIN positions /\ id \in Nat \ DOMAIN trades
        /\ price \in Int /\ level \in Int /\ fails \in BOOLEAN
    BY <1>3, <1>4, <1>7, <2>1, <2>3, BacktestConstants DEF Free
  <2>5. /\ BooksKept' /\ e_phase' \in {e_phase, "raised"}
        /\ \/ positions' = positions /\ trades' = trades
           \/ /\ DOMAIN positions' = DOMAIN positions \cup {s}
              /\ DOMAIN trades' = DOMAIN trades \cup {id}
    <3>1. BooksKept
      BY DEF EngineInv
    <3> QED BY <2>2, <2>4, <3>1, EnterKept
  <2>6. \/ DOMAIN trades' = DOMAIN trades /\ next_position_id' = id
        \/ DOMAIN trades' = DOMAIN trades \cup {id} /\ next_position_id' = id + 1
    <3>1. CASE positions' = positions /\ trades' = trades
      <4>1. DOMAIN positions' \ DOMAIN positions = {}
        BY <3>1
      <4>2. Cardinality({}) = 0
        BY FS_EmptySet
      <4>3. next_position_id' = id + 0
        BY <1>7, <2>1, <4>1, <4>2
      <4>4. id + 0 = id
        BY <2>4
      <4> QED BY <3>1, <4>3, <4>4
    <3>2. CASE /\ DOMAIN positions' = DOMAIN positions \cup {s}
               /\ DOMAIN trades' = DOMAIN trades \cup {id}
      <4>1. DOMAIN positions' \ DOMAIN positions = {s}
        BY <2>4, <3>2
      <4>2. Cardinality({s}) = 1
        BY FS_Singleton
      <4> QED BY <1>7, <2>1, <3>2, <4>1, <4>2
    <3> QED BY <2>5, <3>1, <3>2
  <2>7. next_position_id' \in Nat /\ id <= next_position_id'
    BY <2>4, <2>6
  <2>8. DaysTyped'
    BY <1>1, <1>2, <1>7, <2>5, <2>7 DEF EngineInv, DaysTyped, e_market, Phases
  <2>9. IdsGiven'
    <3>1. \A i \in DOMAIN trades' : i < next_position_id'
      BY <2>3, <2>4, <2>6
    <3>2. \A t \in DOMAIN pending : /\ pending[t].id \in Nat /\ pending[t].id < id
                                    /\ pending[t].id \notin DOMAIN trades
      BY <1>2, <2>1 DEF EngineInv, IdsGiven, DaysTyped, Waits
    <3>3. \A t \in DOMAIN pending : /\ pending[t].id < next_position_id'
                                    /\ pending[t].id \notin DOMAIN trades'
      BY <2>4, <2>6, <3>2
    <3>4. e_phase' \in {"scan", "raised"} /\ pending' = pending
      BY <1>2, <1>7, <2>5
    <3> QED BY <3>1, <3>3, <3>4 DEF EngineInv, IdsGiven
  <2> QED BY <2>5, <2>8, <2>9 DEF EngineInv
<1> QED BY <1>1, <1>5, <1>6, <1>7

LEMMA OthersKept ==
  ASSUME EngineInv, StartDay \/ Turn \/ EndDay
  PROVE  EngineInv'
<1>1. BooksKept'
  <2>1. UNCHANGED books /\ delisted' = delisted
    BY DEF StartDay, Turn, EndDay
  <2> QED BY <2>1, BooksRest DEF EngineInv
<1>2. CASE StartDay
  <2>1. /\ e_phase' = "delist" /\ todo' \subseteq DOMAIN positions
        /\ e_phase = "start" /\ UNCHANGED <<e_market, pending, next_position_id, books>>
    BY <1>2 DEF StartDay
  <2>2. DaysTyped'
    BY <2>1 DEF EngineInv, BooksKept, BooksTyped, DaysTyped, e_market, Phases
  <2>3. IdsGiven'
    BY <2>1 DEF EngineInv, IdsGiven, Waits, books
  <2> QED BY <1>1, <2>2, <2>3 DEF EngineInv
<1>3. CASE Turn
  <2>1. UNCHANGED <<e_market, next_position_id, books>> /\ todo = {}
    BY <1>3 DEF Turn
  <2>2. CASE e_phase = "delist" /\ e_phase' = "fill" /\ todo' = DOMAIN pending
             /\ UNCHANGED pending
    <3>1. DaysTyped'
      BY <2>1, <2>2 DEF EngineInv, DaysTyped, e_market, Phases
    <3>2. IdsGiven'
      BY <2>1, <2>2 DEF EngineInv, IdsGiven, Waits, books
    <3> QED BY <1>1, <3>1, <3>2 DEF EngineInv
  <2>3. CASE e_phase = "fill" /\ e_phase' = "manage" /\ todo' = DOMAIN positions
             /\ pending' = [s \in {} |-> 0]
    <3>1. DOMAIN pending' = {}
      BY <2>3
    <3>2. DaysTyped'
      BY <2>1, <2>3, <3>1 DEF EngineInv, BooksKept, BooksTyped, DaysTyped, e_market, Phases
    <3>3. IdsGiven'
      BY <2>1, <2>3, <3>1 DEF EngineInv, IdsGiven, Waits, books
    <3> QED BY <1>1, <3>2, <3>3 DEF EngineInv
  <2>4. CASE e_phase = "manage" /\ e_phase' = "scan" /\ todo' = Symbols /\ UNCHANGED pending
    <3>1. DaysTyped'
      BY <2>1, <2>4 DEF EngineInv, DaysTyped, e_market, Phases
    <3>2. IdsGiven'
      BY <2>1, <2>4 DEF EngineInv, IdsGiven, Waits, books
    <3> QED BY <1>1, <3>1, <3>2 DEF EngineInv
  <2> QED BY <1>3, <2>2, <2>3, <2>4 DEF Turn
<1>4. CASE EndDay
  <2>1. /\ e_phase = "scan" /\ e_phase' \in {"start", "done"} /\ bars' \in Days \cup {bars}
        /\ UNCHANGED <<todo, pending, next_position_id, books>>
        /\ last' = [s \in Symbols |-> LastClose(s)]
    BY <1>4 DEF EndDay
  <2>2. \A s \in Symbols : LastClose(s) \in Nat
    BY DEF EngineInv, DaysTyped, LastClose
  <2>3. DaysTyped'
    BY <2>1, <2>2, DaysBars DEF EngineInv, DaysTyped, Phases
  <2>4. IdsGiven'
    BY <2>1 DEF EngineInv, IdsGiven, Waits, books
  <2> QED BY <1>1, <2>3, <2>4 DEF EngineInv
<1> QED BY <1>2, <1>3, <1>4

LEMMA EngineInvAlways == EngineSpec => []EngineInv
<1>1. EngineInit => EngineInv
  BY EngineInitially
<1>2. EngineInv /\ [EngineNext]_e_vars => EngineInv'
  <2> SUFFICES ASSUME EngineInv, [EngineNext]_e_vars PROVE EngineInv'
    OBVIOUS
  <2>1. CASE Delist \/ Fill \/ Manage \/ Scan
    BY <2>1, DelistKept, FillKept, ManageKept, ScanKept
  <2>2. CASE StartDay \/ Turn \/ EndDay
    BY <2>2, OthersKept
  <2>3. CASE UNCHANGED e_vars
    <3>1. BooksKept'
      BY <2>3, BooksRest DEF EngineInv, e_vars
    <3>2. DaysTyped' /\ IdsGiven'
      BY <2>3 DEF EngineInv, DaysTyped, IdsGiven, Waits, e_vars, e_market, books
    <3> QED BY <3>1, <3>2 DEF EngineInv
  <2> QED BY <2>1, <2>2, <2>3 DEF EngineNext
<1> QED BY <1>1, <1>2, PTL DEF EngineSpec

(* The shares sold, held and bought of every position agree, and the money *)
(* of the backtest is what was put in and earned less what is invested.    *)
THEOREM TradesAddUp == EngineSpec => []TradesAccounted
<1>1. EngineInv => TradesAccounted
  BY DEF EngineInv, BooksKept
<1> QED BY <1>1, EngineInvAlways, PTL

-----------------------------------------------------------------------------
(* Quotients and products.  Quotients are cut. *)
LEMMA QuotientIs ==
  ASSUME NEW a \in Int, NEW d \in Nat \ {0}
  PROVE  /\ a \div d \in Int /\ (a \div d) * d <= a
         /\ a >= 0 => a \div d >= 0
  OBVIOUS

LEMMA ProductLess ==
  ASSUME NEW a \in Int, NEW b \in Int, NEW d \in Nat \ {0}, a * d <= b * d
  PROVE  a <= b
<1> SUFFICES ASSUME b + 1 <= a PROVE FALSE
  OBVIOUS
<1>1. (b + 1) * d <= a * d
  OBVIOUS
<1>2. (b + 1) * d = b * d + d /\ b * d \in Int /\ a * d \in Int
  OBVIOUS
<1> QED BY <1>1, <1>2

-----------------------------------------------------------------------------
(* Shares, weights, books                                                  *)

LEMMA SumTotal == \A w : Sum(w) = Total(w, DOMAIN w)
  BY DEF Sum, Total

LEMMA Caps ==
  /\ Ids = {"trend", "equity", "sector", "theme", "bond", "crypto", "crisis"}
  /\ \A s \in Ids : Cap[s] \in Nat
  BY DEF Ids, Cap

LEMMA FewIds == IsFiniteSet(Ids) /\ Cardinality(Ids) <= 7
<1> DEFINE f == [i \in 1..7 |-> CASE i = 1 -> "trend" [] i = 2 -> "equity" [] i = 3 -> "sector"
                                  [] i = 4 -> "theme" [] i = 5 -> "bond" [] i = 6 -> "crypto"
                                  [] i = 7 -> "crisis"]
<1>1. \A i \in 1..7 : f[i] \in Ids
  BY Caps
<1>2. \A s \in Ids : \E i \in 1..7 : f[i] = s
  <2>1. /\ f[1] = "trend" /\ f[2] = "equity" /\ f[3] = "sector" /\ f[4] = "theme"
        /\ f[5] = "bond" /\ f[6] = "crypto" /\ f[7] = "crisis"
    OBVIOUS
  <2> QED BY <2>1, Caps
<1>3. f \in Surjection(1..7, Ids)
  BY <1>1, <1>2 DEF Surjection
<1>4. IsFiniteSet(1..7) /\ Cardinality(1..7) = 7
  <2>1. PICK k \in Nat : k = 7
    OBVIOUS
  <2>2. IsFiniteSet(1..k) /\ Cardinality(1..k) = IF 1 > k THEN 0 ELSE k - 1 + 1
    BY FS_Interval
  <2>3. Cardinality(1..k) = k
    BY <2>1, <2>2
  <2> QED BY <2>1, <2>2, <2>3, Zenon
<1> HIDE DEF f
<1> QED BY <1>3, <1>4, FS_Surjection

(* Weights or shares of some of a set. *)
Weighs(w, S) == DOMAIN w \subseteq S /\ w \in [DOMAIN w -> Nat]

LEMMA QuotientOfTotal ==
  ASSUME NEW S, IsFiniteSet(S), NEW w, \A s \in S : w[s] \in Nat,
         NEW k \in Nat, NEW d \in Nat \ {0}, NEW v, \A s \in S : v[s] = (k * w[s]) \div d
  PROVE  /\ \A s \in S : v[s] \in Nat
         /\ Total(v, S) * d <= k * Total(w, S)
<1>1. ASSUME NEW s \in S
      PROVE  v[s] \in Nat /\ v[s] * d <= k * w[s]
  <2>1. k * w[s] \in Int /\ k * w[s] >= 0
    <3>1. \A m, n \in Nat : m * n \in Int /\ m * n >= 0
      OBVIOUS
    <3> QED BY <3>1
  <2> DEFINE a == k * w[s]
  <2>2. a \in Int /\ a >= 0
    BY <2>1
  <2>3. v[s] = a \div d
    OBVIOUS
  <2>4. v[s] \in Nat /\ v[s] * d <= a
    <3> HIDE DEF a
    <3> QED BY <2>2, <2>3, QuotientIs
  <2> QED BY <2>4
<1>2. Total(v, S) * d <= k * Total(w, S)
  <2>1. \A s \in S : v[s] \in Int /\ w[s] \in Int /\ v[s] * d <= k * w[s]
    BY <1>1
  <2> QED BY <2>1, TotalProduct
<1> QED BY <1>1, <1>2

(* What is too much for the whole is scaled down to it. *)
LEMMA FitFacts ==
  ASSUME NEW S, IsFiniteSet(S), NEW w, Weighs(w, S)
  PROVE  /\ Weighs(Fit(w), S) /\ DOMAIN Fit(w) = DOMAIN w
         /\ \A s \in DOMAIN w : Fit(w)[s] <= w[s]
         /\ Sum(Fit(w)) <= One
<1> DEFINE D == DOMAIN w
           all == Total(w, D)
           v == [s \in D |-> (w[s] * One) \div all]
<1>1. IsFiniteSet(D) /\ \A s \in D : w[s] \in Nat
  BY FS_Subset DEF Weighs
<1>2. all \in Nat
  BY <1>1, TotalNat
<1>3. Fit(w) = IF all > One THEN v ELSE w
  BY SumTotal DEF Fit
<1>4. One = 10000
  BY DEF One
<1>5. CASE all > One
  <2>1. all \in Nat \ {0} /\ One \in Nat
    BY <1>2, <1>4, <1>5
  <2>2. /\ \A s \in D : v[s] \in Nat
        /\ Total(v, D) * all <= One * all
    <3>1. \A s \in D : v[s] = (One * w[s]) \div all
      BY <1>1, <1>4
    <3>2. all = Total(w, D)
      OBVIOUS
    <3> HIDE DEF D, all, v
    <3> QED BY <1>1, <2>1, <3>1, <3>2, QuotientOfTotal
  <2>3. Total(v, D) \in Nat
    <3> HIDE DEF D, v
    <3> QED BY <1>1, <2>2, TotalNat
  <2>4. Total(v, D) <= One
    <3> HIDE DEF D, all, v
    <3>1. Total(v, D) \in Int /\ One \in Int
      BY <2>1, <2>3
    <3> QED BY <2>1, <2>2, <3>1, ProductLess
  <2>5. ASSUME NEW s \in D
        PROVE  v[s] <= w[s]
    <3> DEFINE a == w[s] * One
    <3>1. a \in Int /\ w[s] \in Nat /\ a <= w[s] * all
      <4>1. \A x, y, z \in Nat : y <= z => x * y <= x * z
        OBVIOUS
      <4> HIDE DEF all
      <4> QED BY <1>1, <1>4, <1>5, <2>1, <4>1
    <3>2. v[s] = a \div all
      OBVIOUS
    <3>3. v[s] \in Int /\ v[s] * all <= a
      <4> HIDE DEF a, all, v
      <4> QED BY <2>1, <3>1, <3>2, QuotientIs
    <3>4. v[s] * all \in Int /\ w[s] * all \in Int
      <4> HIDE DEF a, all, v
      <4> QED BY <2>1, <3>1, <3>3, ProductInt
    <3>5. v[s] * all <= w[s] * all
      <4> HIDE DEF a, all, v
      <4> QED BY <3>1, <3>3, <3>4
    <3> HIDE DEF a, all, v
    <3> QED BY <2>1, <3>1, <3>3, <3>5, ProductLess
  <2>6. DOMAIN v = D /\ v \in [D -> Nat]
    BY <2>2
  <2>7. Fit(w) = v
    BY <1>3, <1>5
  <2>8. Sum(v) = Total(v, D)
    BY SumTotal
  <2> HIDE DEF v
  <2> QED BY <2>4, <2>5, <2>6, <2>7, <2>8 DEF Weighs
<1>6. CASE ~(all > One)
  <2>1. Fit(w) = w /\ all <= One
    BY <1>2, <1>3, <1>4, <1>6
  <2>2. Sum(w) = all
    BY SumTotal
  <2> HIDE DEF all
  <2> QED BY <1>1, <2>1, <2>2
<1> QED BY <1>5, <1>6

-----------------------------------------------------------------------------
(* The rounds of the caps                                                  *)

CapsOf(O) == Total(Cap, O)

LEMMA LiftedFacts ==
  ASSUME NEW w, Weighs(w, Ids), NEW O \in SUBSET DOMAIN w, CapsOf(O) <= Sum(w)
  PROVE  /\ Weighs(Lifted(w, O), Ids) /\ DOMAIN Lifted(w, O) = DOMAIN w
         /\ \A s \in O : Lifted(w, O)[s] = Cap[s]
         /\ Total(Lifted(w, O), DOMAIN w \ O) <= Sum(w) - CapsOf(O)
<1> DEFINE D == DOMAIN w
           R == D \ O
           rest == Total(w, R)
           give == Sum(w) - CapsOf(O)
           d == Most(1, rest)
           v == [s \in D |-> IF s \in O THEN Cap[s] ELSE (give * w[s]) \div d]
<1>1. Lifted(w, O) = v
  BY DEF Lifted, Total, CapsOf
<1>2. /\ IsFiniteSet(D) /\ IsFiniteSet(R) /\ IsFiniteSet(O)
      /\ \A s \in D : w[s] \in Nat /\ s \in Ids
  BY FewIds, FS_Subset DEF Weighs
<1>3. rest \in Nat /\ Sum(w) \in Nat /\ CapsOf(O) \in Nat
  <2>1. \A s \in O : Cap[s] \in Nat
    BY <1>2, Caps
  <2> QED BY <1>2, <2>1, TotalNat, SumTotal DEF CapsOf
<1>4. give \in Nat
  BY <1>3
<1>5. d \in Nat \ {0} /\ d >= rest /\ (rest > 0 => d = rest)
  <2> HIDE DEF rest
  <2> QED BY <1>3 DEF Most
<1>6. /\ \A s \in R : v[s] \in Nat
      /\ Total(v, R) * d <= give * rest
  <2>1. \A s \in R : v[s] = (give * w[s]) \div d /\ w[s] \in Nat
    BY <1>2
  <2>2. rest = Total(w, R)
    OBVIOUS
  <2> HIDE DEF D, R, rest, give, d, v
  <2> QED BY <1>2, <1>4, <1>5, <2>1, <2>2, QuotientOfTotal
<1>7. \A s \in O : v[s] = Cap[s] /\ Cap[s] \in Nat
  BY <1>2, Caps
<1>8. v \in [D -> Nat] /\ DOMAIN v = D
  BY <1>6, <1>7
<1>9. Total(v, R) <= give
  <2>1. Total(v, R) \in Nat
    <3> HIDE DEF R, v
    <3> QED BY <1>2, <1>6, TotalNat
  <2>2. give * rest <= give * d
    <3>1. \A x, y, z \in Nat : y <= z => x * y <= x * z
      OBVIOUS
    <3> HIDE DEF give, rest, d
    <3> QED BY <1>3, <1>4, <1>5, <3>1
  <2>3. give * rest \in Int /\ give * d \in Int /\ Total(v, R) * d \in Int
    <3> HIDE DEF give, rest, d, v, R
    <3> QED BY <1>3, <1>4, <1>5, <2>1, ProductInt
  <2>4. Total(v, R) * d <= give * d
    <3> HIDE DEF give, rest, d, v, R
    <3> QED BY <1>6, <2>2, <2>3
  <2> HIDE DEF give, rest, d, v, R
  <2> QED BY <1>4, <1>5, <2>1, <2>4, ProductLess
<1> HIDE DEF v
<1> QED BY <1>1, <1>2, <1>7, <1>8, <1>9 DEF Weighs

(* Those put at their caps have room: they take no more than there is. *)
LEMMA OverFacts ==
  ASSUME NEW w, Weighs(w, Ids), NEW O \in SUBSET DOMAIN w, CapsOf(O) <= Sum(w)
  PROVE  /\ Over(w, O) \subseteq DOMAIN w \ O
         /\ CapsOf(O \cup Over(w, O)) <= Sum(w)
<1> DEFINE v == Lifted(w, O)
           M == Over(w, O)
           R == DOMAIN w \ O
<1>1. /\ v \in [DOMAIN w -> Nat] /\ DOMAIN w \subseteq Ids
      /\ \A s \in O : v[s] = Cap[s]
      /\ Total(v, R) <= Sum(w) - CapsOf(O)
  BY LiftedFacts DEF Weighs
<1>2. M = {s \in DOMAIN w : v[s] > Cap[s]}
  BY DEF Over
<1> HIDE DEF v, M
<1>3. \A s \in Ids : Cap[s] \in Nat
  BY Caps
<1>4. M \subseteq R
  BY <1>1, <1>2, <1>3
<1>5. IsFiniteSet(DOMAIN w) /\ IsFiniteSet(R) /\ IsFiniteSet(O) /\ IsFiniteSet(M)
  <2>1. IsFiniteSet(DOMAIN w)
    BY <1>1, FewIds, FS_Subset
  <2> QED BY <1>4, <2>1, FS_Subset
<1>6. CapsOf(M) <= Total(v, M)
  <2>1. \A s \in M : Cap[s] \in Int /\ v[s] \in Int /\ Cap[s] <= v[s]
    BY <1>1, <1>2, <1>3, <1>4
  <2> QED BY <1>5, <2>1, TotalLeq DEF CapsOf
<1>7. Total(v, M) <= Total(v, R)
  <2>1. \A s \in R : v[s] \in Nat
    BY <1>1
  <2> HIDE DEF R
  <2> QED BY <1>4, <1>5, <2>1, TotalPart
<1>8. CapsOf(O \cup M) = CapsOf(O) + CapsOf(M)
  <2>1. \A s \in O \cup M : Cap[s] \in Int
    BY <1>1, <1>3, <1>4
  <2>2. O \cap M = {}
    BY <1>4
  <2> QED BY <1>5, <2>1, <2>2, TotalUnion DEF CapsOf
<1>9. /\ CapsOf(O) \in Nat /\ CapsOf(M) \in Nat /\ Sum(w) \in Nat
      /\ Total(v, M) \in Nat /\ Total(v, R) \in Nat
  <2>1. /\ \A s \in O : Cap[s] \in Nat
        /\ \A s \in M : Cap[s] \in Nat /\ v[s] \in Nat
        /\ \A s \in R : v[s] \in Nat
        /\ \A s \in DOMAIN w : w[s] \in Nat
    BY <1>1, <1>3, <1>4 DEF Weighs
  <2> HIDE DEF R
  <2> QED BY <1>5, <2>1, TotalNat, SumTotal DEF CapsOf
<1>10. CapsOf(O \cup M) <= Sum(w)
  BY <1>1, <1>6, <1>7, <1>8, <1>9
<1> QED BY <1>4, <1>10 DEF M

Rounds(w, N, f) ==
  f = [n \in 0..N |-> IF n = 0 THEN {} ELSE LET O == f[n - 1] IN O \cup Over(w, O)]

LEMMA RoundsExist ==
  ASSUME NEW w, NEW K \in Nat
  PROVE  \E f : Rounds(w, K, f)
<1> DEFINE P == {N \in Nat : ~ \E f : Rounds(w, N, f)}
<1>1. ASSUME P # {} PROVE FALSE
  <2>1. PICK N \in P : \A M \in P : N <= M
    <3>1. P \in SUBSET Nat
      OBVIOUS
    <3> HIDE DEF P
    <3> QED BY <1>1, <3>1, LeastNumber
  <2>2. N \in Nat /\ ~ \E f : Rounds(w, N, f)
    BY <2>1
  <2>3. N # 0
    <3> DEFINE g == [n \in 0..0 |-> {}]
    <3>1. g = [n \in 0..0 |-> IF n = 0 THEN {} ELSE LET O == g[n - 1] IN O \cup Over(w, O)]
      OBVIOUS
    <3>2. Rounds(w, 0, g)
      BY <3>1 DEF Rounds
    <3> QED BY <2>2, <3>2
  <2>4. N - 1 \in Nat /\ N - 1 \notin P
    <3>1. N - 1 \in Nat /\ ~(N <= N - 1)
      BY <2>2, <2>3
    <3> HIDE DEF P
    <3> QED BY <2>1, <3>1
  <2>5. PICK f : Rounds(w, N - 1, f)
    BY <2>4
  <2> DEFINE Next1(O) == O \cup Over(w, O)
             g == [n \in 0..N |-> IF n = N THEN Next1(f[N - 1]) ELSE f[n]]
  <2>6. \A n \in 0..(N - 1) : f[n] = IF n = 0 THEN {} ELSE Next1(f[n - 1])
    BY <2>5 DEF Rounds
  <2>7. \A n \in 0..N : g[n] = IF n = 0 THEN {} ELSE Next1(g[n - 1])
    <3> HIDE DEF Next1
    <3>1. ASSUME NEW n \in 0..N, n = N
          PROVE  g[n] = IF n = 0 THEN {} ELSE Next1(g[n - 1])
      <4>1. n - 1 \in 0..N /\ n - 1 # N /\ n # 0
        BY <2>2, <2>3, <3>1
      <4>2. g[n - 1] = f[N - 1]
        BY <3>1, <4>1
      <4> QED BY <3>1, <4>1, <4>2
    <3>2. ASSUME NEW n \in 0..N, n # N
          PROVE  g[n] = IF n = 0 THEN {} ELSE Next1(g[n - 1])
      <4>1. n \in 0..(N - 1) /\ g[n] = f[n]
        BY <2>2, <3>2
      <4>2. n # 0 => n - 1 \in 0..N /\ n - 1 # N /\ g[n - 1] = f[n - 1]
        BY <2>2, <3>2
      <4> QED BY <2>6, <4>1, <4>2
    <3> QED BY <3>1, <3>2
  <2>8. g = [n \in 0..N |-> IF n = 0 THEN {} ELSE Next1(g[n - 1])]
    <3>1. g = [n \in 0..N |-> g[n]]
      OBVIOUS
    <3> HIDE DEF g, Next1
    <3> QED BY <2>7, <3>1
  <2>9. Rounds(w, N, g)
    BY <2>8 DEF Rounds
  <2> QED BY <2>2, <2>9
<1> QED BY <1>1

(* After n rounds nobody is above the cap, or n at least are at it: eight  *)
(* rounds are enough for seven strategies.                                 *)
LEMMA CappedFacts ==
  ASSUME NEW w, Weighs(w, Ids)
  PROVE  /\ Weighs(Capped(w), Ids) /\ DOMAIN Capped(w) = DOMAIN w
         /\ \A s \in DOMAIN w : Capped(w)[s] <= Cap[s]
<1> DEFINE R(f) == [n \in 0..8 |-> IF n = 0 THEN {} ELSE LET O == f[n - 1] IN O \cup Over(w, O)]
<1>1. PICK f : f = CHOOSE g : g = R(g)
  OBVIOUS
<1>2. \E g : g = R(g)
  <2>1. PICK g : Rounds(w, 8, g)
    BY RoundsExist
  <2>2. g = R(g)
    BY <2>1 DEF Rounds
  <2> HIDE DEF R
  <2> QED BY <2>2
<1>3. f = R(f)
  <2> HIDE DEF R
  <2> QED BY <1>1, <1>2
<1>4. Capped(w) = Lifted(w, f[8])
  BY <1>1 DEF Capped
<1>5. /\ f[0] = {}
      /\ \A n \in 0..7 : f[n + 1] = f[n] \cup Over(w, f[n])
  <2>1. \A n \in 0..8 : f[n] = IF n = 0 THEN {} ELSE f[n - 1] \cup Over(w, f[n - 1])
    BY <1>3
  <2>2. \A n \in 0..7 : n + 1 \in 0..8 /\ n + 1 # 0 /\ (n + 1) - 1 = n
    OBVIOUS
  <2> QED BY <2>1, <2>2
<1> HIDE DEF R
<1> DEFINE D == DOMAIN w
           Good(n) == /\ f[n] \in SUBSET D /\ CapsOf(f[n]) <= Sum(w)
                      /\ Cardinality(f[n]) >= n \/ Over(w, f[n]) = {}
<1>6. IsFiniteSet(D) /\ Cardinality(D) <= 7 /\ Cardinality(D) \in Nat
  <2>1. D \in SUBSET Ids
    BY DEF Weighs
  <2>2. IsFiniteSet(D) /\ Cardinality(D) <= Cardinality(Ids)
    <3> HIDE DEF D
    <3> QED BY <2>1, FewIds, FS_Subset
  <2>3. Cardinality(D) \in Nat /\ Cardinality(Ids) \in Nat
    BY <2>2, FewIds, FS_CardinalityType
  <2> QED BY <2>2, <2>3, FewIds
<1>7. Good(0)
  <2>1. f[0] \in SUBSET D
    BY <1>5
  <2>2. CapsOf({}) = 0 /\ Sum(w) \in Nat
    <3>1. \A s \in D : w[s] \in Nat
      BY DEF Weighs
    <3>2. Total(Cap, {}) = 0
      BY FS_EmptySet, TotalRecursion
    <3> QED BY <1>6, <3>1, <3>2, TotalNat, SumTotal DEF CapsOf
  <2>3. Cardinality(f[0]) >= 0
    BY <1>5, FS_EmptySet
  <2> QED BY <1>5, <2>1, <2>2, <2>3
<1>8. ASSUME NEW n \in 0..7, Good(n)
      PROVE  Good(n + 1)
  <2> DEFINE O == f[n]
             M == Over(w, O)
  <2>1. O \in SUBSET D /\ CapsOf(O) <= Sum(w) /\ (Cardinality(O) >= n \/ M = {})
    BY <1>8
  <2>2. f[n + 1] = O \cup M
    BY <1>5
  <2>3. M \subseteq D \ O /\ CapsOf(O \cup M) <= Sum(w)
    BY <2>1, OverFacts
  <2>4. IsFiniteSet(O) /\ IsFiniteSet(O \cup M)
    <3>1. O \in SUBSET D /\ O \cup M \in SUBSET D
      BY <2>1, <2>3
    <3> HIDE DEF O, M, D
    <3> QED BY <1>6, <3>1, FS_Subset
  <2>5. CASE M = {}
    <3>1. f[n + 1] = O
      BY <2>2, <2>5
    <3> QED BY <2>1, <2>5, <3>1
  <2>6. CASE M # {}
    <3>1. PICK a \in M : TRUE
      BY <2>6
    <3>2. O \cup {a} \in SUBSET (O \cup M) /\ a \notin O
      BY <2>3
    <3>3. Cardinality(O \cup {a}) = Cardinality(O) + 1
      <4> HIDE DEF O, M
      <4> QED BY <2>4, <3>2, FS_AddElement
    <3>4. Cardinality(O \cup {a}) <= Cardinality(O \cup M)
      <4> HIDE DEF O, M
      <4> QED BY <2>4, <3>2, FS_Subset
    <3>5. Cardinality(O) >= n /\ Cardinality(O) \in Nat /\ Cardinality(O \cup M) \in Nat
      <4> HIDE DEF O, M
      <4> QED BY <2>1, <2>4, <2>6, FS_CardinalityType
    <3>6. Cardinality(f[n + 1]) >= n + 1
      <4> HIDE DEF O, M
      <4> QED BY <2>2, <3>3, <3>4, <3>5
    <3>7. f[n + 1] \in SUBSET D /\ CapsOf(f[n + 1]) <= Sum(w)
      <4> HIDE DEF O, M, D
      <4> QED BY <2>1, <2>2, <2>3
    <3> QED BY <3>6, <3>7
  <2> QED BY <2>5, <2>6
<1> HIDE DEF Good
<1>9. Good(8)
  <2>1. 0 \in 0..7 /\ 1 \in 0..7 /\ 2 \in 0..7 /\ 3 \in 0..7
        /\ 4 \in 0..7 /\ 5 \in 0..7 /\ 6 \in 0..7 /\ 7 \in 0..7
    OBVIOUS
  <2>2. Good(1)
    BY <1>7, <1>8, <2>1
  <2>3. Good(2)
    BY <1>8, <2>1, <2>2
  <2>4. Good(3)
    BY <1>8, <2>1, <2>3
  <2>5. Good(4)
    BY <1>8, <2>1, <2>4
  <2>6. Good(5)
    BY <1>8, <2>1, <2>5
  <2>7. Good(6)
    BY <1>8, <2>1, <2>6
  <2>8. Good(7)
    BY <1>8, <2>1, <2>7
  <2> QED BY <1>8, <2>1, <2>8
<1>10. /\ f[8] \in SUBSET D /\ CapsOf(f[8]) <= Sum(w)
       /\ Cardinality(f[8]) >= 8 \/ Over(w, f[8]) = {}
  BY <1>9 DEF Good
<1>11. Over(w, f[8]) = {}
  <2>1. Cardinality(f[8]) <= Cardinality(D) /\ IsFiniteSet(f[8])
    <3> HIDE DEF D
    <3> QED BY <1>6, <1>10, FS_Subset
  <2>2. Cardinality(f[8]) \in Nat
    BY <2>1, FS_CardinalityType
  <2> QED BY <1>6, <1>10, <2>1, <2>2
<1>12. /\ Weighs(Lifted(w, f[8]), Ids) /\ DOMAIN Lifted(w, f[8]) = DOMAIN w
  BY <1>10, LiftedFacts
<1>13. \A s \in DOMAIN w : ~(Lifted(w, f[8])[s] > Cap[s])
  BY <1>11 DEF Over
<1>14. ASSUME NEW s \in DOMAIN w
       PROVE  Lifted(w, f[8])[s] <= Cap[s]
  <2>1. Lifted(w, f[8])[s] \in Nat /\ Cap[s] \in Nat
    BY <1>12, Caps DEF Weighs
  <2> QED BY <1>13, <2>1
<1> QED BY <1>4, <1>12, <1>14

-----------------------------------------------------------------------------
(* The allocator                                                           *)

(* What the allocator uses of an accepted proposal. *)
Rated(o) == o.conviction \in 0..100 /\ o.gate \in {0, 50, 100} /\ o.vol \in Nat

LEMMA ProductNat == \A m, n \in Nat : m * n \in Nat
  OBVIOUS

LEMMA SkillNat == \A s, stars : Skill(s, stars) \in Nat
<1>1. Sigmoid(10) \in Nat
  <2>1. Least(4, Most(-4, 10 \div 10)) = 1
    BY DEF Least, Most
  <2> QED BY <2>1 DEF Sigmoid
<1>2. Sigmoid(0) \in Nat
  <2>1. Least(4, Most(-4, 0 \div 10)) = 0
    BY DEF Least, Most
  <2> QED BY <2>1 DEF Sigmoid
<1> QED BY <1>1, <1>2 DEF Skill

LEMMA WeightedNat ==
  ASSUME NEW s, NEW o, Rated(o), NEW stars
  PROVE  Weighted(s, o, stars) \in Nat
<1>1. CASE o.vol = 0
  BY <1>1 DEF Weighted
<1>2. CASE o.vol # 0
  <2> DEFINE q == 36000 \div o.vol
             c == 50 + (o.conviction \div 2)
             g == q * o.gate
             k == Skill(s, stars)
  <2>1. o.vol \in Nat \ {0} /\ o.gate \in Nat /\ o.conviction \in Nat
    BY <1>2 DEF Rated
  <2>2. q \in Nat
    BY <2>1, QuotientIs
  <2>3. c \in Nat
    BY <2>1
  <2>4. g \in Nat
    <3> HIDE DEF q
    <3> QED BY <2>1, <2>2, ProductNat
  <2>5. g * c \in Nat
    <3> HIDE DEF g, c
    <3> QED BY <2>3, <2>4, ProductNat
  <2> DEFINE p == (g * c) \div 100
  <2>6. p \in Nat
    <3> DEFINE x == g * c
    <3>1. x \in Nat
      BY <2>5
    <3> HIDE DEF x
    <3>2. x \div 100 \in Nat
      BY <3>1
    <3> QED BY <3>2 DEF x
  <2>7. p * k \in Nat
    <3> HIDE DEF p
    <3> QED BY <2>6, SkillNat, ProductNat
  <2> DEFINE y == p * k
  <2>8. Weighted(s, o, stars) = y \div 1000
    BY <1>2 DEF Weighted
  <2>9. y \in Nat
    BY <2>7
  <2> HIDE DEF y
  <2> QED BY <2>8, <2>9
<1> QED BY <1>1, <1>2

LEMMA DerateNat ==
  ASSUME NEW s, NEW valid \in SUBSET Ids, NEW group
  PROVE  Derate(s, valid, group) \in Nat
<1> DEFINE peers == valid \ {s}
           with == IF s \in group THEN peers \cap group ELSE {}
           n == Cardinality(with)
           m == Most(1, Cardinality(peers))
           mean == (95 * n) \div m
<1>1. n \in Nat /\ Cardinality(peers) \in Nat
  <2>1. peers \in SUBSET Ids /\ with \in SUBSET Ids
    OBVIOUS
  <2> HIDE DEF peers, with
  <2>2. IsFiniteSet(peers) /\ IsFiniteSet(with)
    BY <2>1, FewIds, FS_Subset
  <2> QED BY <2>2, FS_CardinalityType
<1>2. m \in Nat \ {0}
  <2> HIDE DEF peers
  <2> QED BY <1>1 DEF Most
<1>3. mean \in Int
  <2> HIDE DEF n, m
  <2>1. 95 * n \in Int
    BY <1>1
  <2> QED BY <1>2, <2>1, QuotientIs
<1>4. Derate(s, valid, group) = IF mean > 70 THEN Most(50, 170 - mean) ELSE 100
  BY DEF Derate
<1> HIDE DEF mean
<1> QED BY <1>3, <1>4 DEF Most

(* Nobody who was there gains more than the step. *)
LEMMA DampedFacts ==
  ASSUME NEW w, Weighs(w, Ids), \A s \in DOMAIN w : w[s] <= Cap[s],
         NEW prior, Weighs(prior, Ids), \A s \in DOMAIN prior : prior[s] <= Cap[s]
  PROVE  /\ Weighs(Damped(w, prior), Ids) /\ DOMAIN Damped(w, prior) = DOMAIN w
         /\ \A s \in DOMAIN w : Damped(w, prior)[s] <= Cap[s]
         /\ \A s \in DOMAIN w \cap DOMAIN prior : Damped(w, prior)[s] <= prior[s] + 500
<1> DEFINE v == Damped(w, prior)
<1>1. /\ DOMAIN v = DOMAIN w
      /\ \A s \in DOMAIN w :
           v[s] = IF s \notin DOMAIN prior THEN w[s]
                  ELSE Most(0, Least(prior[s] + 500, Most(prior[s] - 500, w[s])))
      /\ v = [s \in DOMAIN w |-> v[s]]
  BY DEF Damped
<1> HIDE DEF v
<1>2. ASSUME NEW s \in DOMAIN w
      PROVE  v[s] \in Nat /\ v[s] <= Cap[s] /\ (s \in DOMAIN prior => v[s] <= prior[s] + 500)
  <2>1. w[s] \in Nat /\ Cap[s] \in Nat /\ w[s] <= Cap[s]
    BY Caps DEF Weighs
  <2>2. s \in DOMAIN prior => prior[s] \in Nat /\ prior[s] <= Cap[s]
    BY DEF Weighs
  <2> QED BY <1>1, <2>1, <2>2 DEF Most, Least
<1>3. v \in [DOMAIN w -> Nat]
  BY <1>1, <1>2
<1> QED BY <1>1, <1>2, <1>3 DEF v, Weighs

LEMMA AllocatedFacts ==
  ASSUME NEW out, DOMAIN out \subseteq Ids, \A i \in DOMAIN out : Rated(out[i]),
         NEW prior, Weighs(prior, Ids), \A s \in DOMAIN prior : prior[s] <= Cap[s],
         NEW old \in 0..3, NEW group, NEW stars, NEW a, a = Allocated(out, prior, old, group, stars)
  PROVE  /\ Weighs(a, Ids) /\ DOMAIN a = DOMAIN out
         /\ Sum(a) <= One /\ \A s \in DOMAIN a : a[s] <= Cap[s]
         /\ old > 0 => \A s \in DOMAIN a \cap DOMAIN prior : a[s] <= prior[s] + 500
<1> DEFINE valid == DOMAIN out
           base == [s \in valid |-> Weighted(s, out[s], IF old > 0 THEN stars ELSE {})]
           all == Sum(base)
           cut(s) == IF old > 1 THEN Derate(s, valid, group) ELSE 100
           pre == [s \in valid |-> (base[s] * cut(s) * 100) \div all]
           fit == Fit(Capped(pre))
<1>1. IsFiniteSet(valid)
  BY FewIds, FS_Subset
<1>2. \A s \in valid : base[s] \in Nat
  BY WeightedNat
<1>3. all \in Nat
  <2>1. all = Total(base, valid)
    BY SumTotal
  <2> HIDE DEF base, all
  <2> QED BY <1>1, <1>2, <2>1, TotalNat
<1>4. a = IF valid = {} THEN <<>>
          ELSE IF all = 0 THEN [s \in valid |-> 0]
          ELSE IF prior = <<>> \/ old = 0 THEN fit ELSE Fit(Damped(fit, prior))
  BY DEF Allocated
<1>5. CASE valid = {}
  <2>1. a = <<>> /\ DOMAIN a = {}
    BY <1>4, <1>5
  <2>2. Sum(a) = 0 /\ One = 10000
    BY <2>1, FS_EmptySet, TotalRecursion, SumTotal DEF One
  <2>3. a \in [{} -> Nat]
    BY <2>1
  <2> QED BY <1>5, <2>1, <2>2, <2>3 DEF Weighs
<1>6. CASE valid # {} /\ all = 0
  <2>1. a = [s \in valid |-> 0]
    BY <1>4, <1>6
  <2>2. DOMAIN a = valid /\ a \in [valid -> Nat] /\ \A s \in valid : a[s] = 0
    BY <2>1
  <2>3. Sum(a) <= One
    <3>1. Total(a, valid) * 1 <= 0 * Total(a, valid)
      <4>1. \A s \in valid : a[s] \in Int /\ a[s] * 1 <= 0 * a[s]
        BY <2>2
      <4> HIDE DEF valid
      <4> QED BY <1>1, <4>1, TotalProduct
    <3>2. Total(a, valid) \in Nat
      BY <1>1, <2>2, TotalNat
    <3>3. Sum(a) = Total(a, valid)
      BY <2>2, SumTotal
    <3> QED BY <3>1, <3>2, <3>3 DEF One
  <2>4. \A s \in valid : a[s] <= Cap[s]
    BY <2>2, Caps
  <2>5. \A s \in valid \cap DOMAIN prior : a[s] <= prior[s] + 500
    <3>1. \A s \in DOMAIN prior : prior[s] \in Nat
      BY DEF Weighs
    <3> QED BY <2>2, <3>1
  <2> QED BY <2>2, <2>3, <2>4, <2>5 DEF Weighs
<1>7. CASE valid # {} /\ all # 0
  <2>1. \A s \in valid : pre[s] \in Nat
    <3> TAKE s \in valid
    <3>1. cut(s) \in Nat
      BY DerateNat
    <3> DEFINE x == base[s] * cut(s) * 100
    <3>2. x \in Nat
      <4> DEFINE b == base[s]
                 c == cut(s)
      <4>1. b \in Nat /\ c \in Nat
        BY <1>2, <3>1
      <4>2. x = b * c * 100
        OBVIOUS
      <4> HIDE DEF b, c, x
      <4>3. b * c \in Nat
        BY <4>1, ProductNat
      <4> QED BY <4>2, <4>3, ProductNat
    <3>3. pre[s] = x \div all
      OBVIOUS
    <3>4. all \in Nat \ {0}
      BY <1>3, <1>7
    <3> HIDE DEF x, all, pre
    <3> QED BY <3>2, <3>3, <3>4, QuotientIs
  <2>2. Weighs(pre, Ids) /\ DOMAIN pre = valid
    <3>1. DOMAIN pre = valid /\ pre \in [valid -> Nat]
      BY <2>1
    <3> HIDE DEF pre
    <3> QED BY <3>1 DEF Weighs
  <2> DEFINE w == Capped(pre)
  <2>3. Weighs(w, Ids) /\ DOMAIN w = valid /\ \A s \in valid : w[s] <= Cap[s]
    <3> HIDE DEF pre
    <3> QED BY <2>2, CappedFacts
  <2>4. fit = Fit(w)
    OBVIOUS
  <2> HIDE DEF w, fit
  <2>5. /\ Weighs(fit, Ids) /\ DOMAIN fit = valid /\ Sum(fit) <= One
        /\ \A s \in valid : fit[s] <= w[s]
    BY <2>3, <2>4, FewIds, FitFacts
  <2>6. \A s \in valid : fit[s] <= Cap[s]
    <3>1. \A s \in valid : fit[s] \in Nat /\ w[s] \in Nat /\ Cap[s] \in Nat
      BY <2>3, <2>5, Caps DEF Weighs
    <3> QED BY <2>3, <2>5, <3>1
  <2>7. CASE prior = <<>> \/ old = 0
    <3>1. a = fit
      BY <1>4, <1>7, <2>7
    <3>2. old > 0 => DOMAIN prior = {}
      BY <2>7
    <3> QED BY <2>5, <2>6, <3>1, <3>2
  <2>8. CASE ~(prior = <<>> \/ old = 0)
    <3> DEFINE v == Damped(fit, prior)
    <3>1. a = Fit(v)
      BY <1>4, <1>7, <2>8
    <3>2. /\ Weighs(v, Ids) /\ DOMAIN v = valid
          /\ \A s \in valid : v[s] <= Cap[s]
          /\ \A s \in valid \cap DOMAIN prior : v[s] <= prior[s] + 500
      BY <2>5, <2>6, DampedFacts
    <3> HIDE DEF v
    <3>3. /\ Weighs(a, Ids) /\ DOMAIN a = valid /\ Sum(a) <= One
          /\ \A s \in valid : a[s] <= v[s]
      BY <3>1, <3>2, FewIds, FitFacts
    <3>4. \A s \in valid : a[s] \in Nat /\ v[s] \in Nat /\ Cap[s] \in Nat
      BY <3>2, <3>3, Caps DEF Weighs
    <3>5. \A s \in DOMAIN prior : prior[s] \in Nat
      BY DEF Weighs
    <3>6. \A s \in valid : a[s] <= Cap[s]
      BY <3>2, <3>3, <3>4
    <3>7. \A s \in valid \cap DOMAIN prior : a[s] <= prior[s] + 500
      BY <3>2, <3>3, <3>4, <3>5
    <3> QED BY <3>3, <3>6, <3>7
  <2> QED BY <2>7, <2>8
<1> QED BY <1>5, <1>6, <1>7

-----------------------------------------------------------------------------
(* The book and its exposure                                               *)

(* A finite function with natural values. *)
Weights(w) == IsFiniteSet(DOMAIN w) /\ w \in [DOMAIN w -> Nat]

LEMMA SumNat == \A w : Weights(w) => Sum(w) \in Nat
<1> TAKE w
<1> HAVE Weights(w)
<1>1. IsFiniteSet(DOMAIN w) /\ \A s \in DOMAIN w : w[s] \in Nat
  BY DEF Weights
<1> QED BY <1>1, TotalNat, SumTotal

LEMMA LeastIs == \A x \in Nat : Least(One \div 4, x) \in Nat /\ Least(One \div 4, x) <= One \div 4
  BY DEF Least, One

LEMMA BookFacts ==
  ASSUME NEW out, NEW share, Weighs(share, Ids), DOMAIN share = DOMAIN out,
         \A i \in DOMAIN out : Weights(out[i].weights),
         NEW b, b = Book(out, share)
  PROVE  Weights(b) /\ \A s \in DOMAIN b : b[s] <= One \div 4
<1> DEFINE J == {j \in DOMAIN share : share[j] > 0}
           W == [i \in J |-> DOMAIN out[i].weights]
           in(s) == {i \in DOMAIN share : share[i] > 0 /\ s \in DOMAIN out[i].weights}
           part(s) == [i \in in(s) |-> (share[i] * out[i].weights[s]) \div One]
           S == UNION {DOMAIN out[i].weights : i \in J}
<1>1. b = [s \in S |-> Least(One \div 4, Sum(part(s)))]
  BY DEF Book
<1>2. IsFiniteSet(DOMAIN share)
  BY FewIds, FS_Subset DEF Weighs
<1>3. IsFiniteSet(S)
  <2>1. IsFiniteSet(J)
    BY <1>2, FS_Subset
  <2>2. IsFiniteSet({W[i] : i \in J})
    <3> HIDE DEF J, W
    <3> QED BY <2>1, ImageFinite
  <2>3. \A A \in {W[i] : i \in J} : IsFiniteSet(A)
    BY DEF Weights
  <2>4. S = UNION {W[i] : i \in J}
    OBVIOUS
  <2> HIDE DEF S, W, J
  <2> QED BY <2>2, <2>3, <2>4, FS_UNION
<1>4. ASSUME NEW s \in S
      PROVE  Sum(part(s)) \in Nat
  <2> DEFINE I == in(s)
             f == part(s)
  <2>1. IsFiniteSet(I)
    BY <1>2, FS_Subset
  <2>2. DOMAIN f = I
    OBVIOUS
  <2>3. ASSUME NEW i \in I
        PROVE  f[i] \in Nat
    <3>1. share[i] \in Nat /\ out[i].weights[s] \in Nat
      BY DEF Weighs, Weights
    <3> DEFINE x == share[i] * out[i].weights[s]
    <3>2. x \in Nat
      BY <3>1, ProductNat
    <3>3. f[i] = x \div 10000
      BY DEF One
    <3> HIDE DEF x, f
    <3>4. x \div 10000 \in Nat
      BY <3>2
    <3> QED BY <3>3, <3>4
  <2>4. Sum(f) = Total(f, I)
    BY <2>2, SumTotal
  <2>5. Total(f, I) \in Nat
    <3> HIDE DEF f, I
    <3> QED BY <2>1, <2>3, TotalNat
  <2> QED BY <2>4, <2>5
<1> HIDE DEF part, S
<1>6. DOMAIN b = S /\ \A s \in S : b[s] = Least(One \div 4, Sum(part(s)))
  BY <1>1
<1>7. \A s \in S : b[s] \in Nat /\ b[s] <= One \div 4
  BY <1>4, <1>6, LeastIs, Zenon
<1>8. b = [s \in S |-> b[s]]
  BY <1>1
<1> QED BY <1>3, <1>6, <1>7, <1>8 DEF Weights

(* Between a tenth and twice the whole. *)
Scales(y) == y \in Nat /\ y <= 2 * One

LEMMA ScaleBounds == Scales(One) /\ \A y \in Int : Scales(Most(One \div 10, Least(2 * One, y)))
  BY DEF Most, Least, Scales, One

LEMMA ScaleBelow == \A y, z \in Nat : Scales(z) /\ y <= z => Scales(y)
  BY DEF Scales, One

LEMMA TimesZero == \A y \in Nat : y * 0 = 0
  OBVIOUS

LEMMA PartFacts ==
  ASSUME NEW c \in Nat, Scales(c), NEW y \in Nat, y <= One \div 4
  PROVE  /\ (y * c) \div One = (c * y) \div One
         /\ (y * c) \div One \in Nat /\ (y * c) \div One <= One \div 2
<1> DEFINE x == y * c
<1>1. x \in Nat /\ x = c * y
  BY ProductNat
<1>2. x <= y * 20000
  <2>1. c <= 20000
    BY DEF Scales, One
  <2>2. \A u, v, w \in Nat : u <= v => w * u <= w * v
    OBVIOUS
  <2> QED BY <2>1, <2>2
<1> HIDE DEF x
<1>3. x \div 10000 \in Nat /\ x \div 10000 <= 5000
  BY <1>1, <1>2 DEF One
<1>4. (y * c) \div One = x \div 10000 /\ (c * y) \div One = x \div 10000
  BY <1>1 DEF x, One
<1> QED BY <1>3, <1>4 DEF One

(* The overlay never asks for more than the whole. *)
LEMMA ExposureFacts ==
  ASSUME NEW m, m.vol \in Nat, m.vix \in Nat, m.vols \in [DOMAIN m.vols -> Nat],
         NEW b, Weights(b), NEW old, NEW ewma \in Nat,
         NEW e, e = Exposure(m, b, old, ewma)
  PROVE  Scales(e) /\ e * Sum(b) <= One * One
<1> DEFINE want == IF m.vol > 0 THEN (3 * m.vol) \div 2 ELSE 24
           part == [s \in DOMAIN b |-> (b[s] * At(m.vols, s) * 85) \div (100 * One)]
           composition == Sum(part)
           seen == Most(Most(ewma, (m.vix * 7) \div 10), IF old = 3 THEN 0 ELSE composition)
           raw == IF seen = 0 THEN One ELSE Most(One \div 10, Least(2 * One, (want * One) \div seen))
           total == Sum(b)
<1>1. e = IF total > 0 /\ raw * total > One * One THEN (One * One) \div total ELSE raw
  BY DEF Exposure
<1>2. One = 10000
  BY DEF One
<1>3. want \in Nat
  OBVIOUS
<1>4. composition \in Nat
  <2>1. ASSUME NEW s \in DOMAIN b
        PROVE  part[s] \in Nat
    <3> DEFINE x == b[s]
               y == At(m.vols, s)
    <3>1. x \in Nat /\ y \in Nat
      BY DEF Weights, At
    <3>2. part[s] = (x * y * 85) \div 1000000
      BY <1>2
    <3> HIDE DEF x, y, part
    <3> DEFINE z == x * y
    <3>3. z \in Nat
      BY <3>1, ProductNat
    <3>4. part[s] = (z * 85) \div 1000000
      BY <3>2
    <3> HIDE DEF z
    <3> QED BY <3>3, <3>4
  <2>2. DOMAIN part = DOMAIN b /\ part = [s \in DOMAIN b |-> part[s]]
    OBVIOUS
  <2> HIDE DEF part
  <2>3. Weights(part)
    BY <2>1, <2>2 DEF Weights
  <2> QED BY <2>3, SumNat
<1>5. seen \in Nat
  <2> HIDE DEF composition
  <2>1. (m.vix * 7) \div 10 \in Nat
    OBVIOUS
  <2> DEFINE v == (m.vix * 7) \div 10
  <2> HIDE DEF v
  <2>2. v \in Nat
    BY <2>1 DEF v
  <2>3. seen = Most(Most(ewma, v), IF old = 3 THEN 0 ELSE composition)
    BY DEF v
  <2> HIDE DEF seen
  <2> QED BY <1>4, <2>2, <2>3 DEF Most
<1>6. Scales(raw)
  <2>1. CASE seen = 0
    BY <2>1, ScaleBounds, Zenon
  <2>2. CASE seen # 0
    <3> DEFINE x == want * One
               q == x \div seen
    <3>1. x \in Int
      <4> HIDE DEF want
      <4> QED BY <1>2, <1>3
    <3>2. q \in Int
      <4> HIDE DEF x, seen
      <4> QED BY <1>5, <2>2, <3>1, QuotientIs
    <3>3. raw = Most(One \div 10, Least(2 * One, q))
      BY <2>2
    <3> HIDE DEF q, raw
    <3> QED BY <3>2, <3>3, ScaleBounds, Zenon
  <2> HIDE DEF raw, seen
  <2> QED BY <2>1, <2>2, Zenon
<1>7. total \in Nat
  BY SumNat
<1> HIDE DEF raw, total
<1>8. raw \in Nat
  BY <1>6, Zenon DEF Scales
<1>9. One * One = 100000000 /\ One * One \in Nat
  BY <1>2
<1>10. raw * total \in Nat
  BY <1>7, <1>8, ProductNat
<1>11. CASE total > 0 /\ raw * total > One * One
  <2>1. e = (One * One) \div total /\ total \in Nat \ {0}
    BY <1>1, <1>7, <1>11
  <2> DEFINE x == One * One
  <2>2. x \in Nat /\ e = x \div total /\ raw * total > x
    BY <1>9, <1>11, <2>1
  <2> HIDE DEF x
  <2>3. e \in Nat /\ e * total <= x
    BY <2>1, <2>2, QuotientIs
  <2>4. e * total <= raw * total
    <3>1. e * total \in Int
      BY <1>7, <2>3, ProductInt
    <3> QED BY <1>10, <2>2, <2>3, <3>1
  <2>5. e <= raw
    BY <1>8, <2>1, <2>3, <2>4, ProductLess
  <2>7. Scales(e)
    BY <1>6, <1>8, <2>3, <2>5, ScaleBelow, Zenon
  <2>8. e * Sum(b) <= One * One
    BY <2>3, Zenon DEF x, total
  <2> QED BY <2>7, <2>8, Zenon
<1>12. CASE ~(total > 0 /\ raw * total > One * One)
  <2>1. e = raw
    BY <1>1, <1>12
  <2>2. CASE total = 0
    <3>1. raw * total = 0
      <4>1. raw * 0 = 0
        BY <1>8, TimesZero, Zenon
      <4> QED BY <2>2, <4>1, Zenon
    <3>2. 0 <= One * One
      BY <1>9
    <3> QED BY <1>6, <2>1, <3>1, <3>2, Zenon DEF total
  <2>3. CASE total # 0
    <3>1. ~(raw * total > One * One)
      BY <1>7, <1>12, <2>3
    <3>2. raw * total <= One * One
      BY <1>9, <1>10, <3>1
    <3> QED BY <1>6, <2>1, <3>2, Zenon DEF total
  <2> QED BY <2>2, <2>3
<1> QED BY <1>11, <1>12

LEMMA ProductMore == \A x, y, z \in Nat : x <= y => x * z <= y * z
  OBVIOUS

(* A cut of the exposure cuts what is asked for. *)
LEMMA FinalFacts ==
  ASSUME NEW b, Weights(b), \A s \in DOMAIN b : b[s] <= One \div 4,
         NEW e, Scales(e), e * Sum(b) <= One * One, NEW k \in {1, 2},
         NEW f, f = [s \in DOMAIN b |-> (b[s] * (e \div k)) \div One]
  PROVE  /\ Weights(f) /\ \A s \in DOMAIN f : f[s] <= One \div 2
         /\ Sum(f) <= One \div k
<1> DEFINE c == e \div k
           S == DOMAIN b
<1>1. One = 10000 /\ One \in Nat \ {0} /\ e \in Nat /\ e <= 20000
  BY DEF One, Scales
<1>2. c \in Nat /\ Scales(c) /\ k * c <= e
  <2>1. c \in Nat /\ c <= 20000 /\ k * c <= e
    <3>1. CASE k = 1
      BY <1>1, <3>1
    <3>2. CASE k = 2
      BY <1>1, <3>2
    <3> HIDE DEF c
    <3> QED BY <3>1, <3>2
  <2> HIDE DEF c
  <2> QED BY <2>1 DEF Scales, One
<1>3. f = [s \in S |-> (b[s] * c) \div One] /\ DOMAIN f = S
  OBVIOUS
<1> HIDE DEF c
<1>4. ASSUME NEW s \in S
      PROVE  f[s] = (c * b[s]) \div One /\ f[s] \in Nat /\ f[s] <= One \div 2
  <2>1. b[s] \in Nat /\ b[s] <= One \div 4
    BY DEF Weights
  <2>2. f[s] = (b[s] * c) \div One
    BY <1>3
  <2> DEFINE y == b[s]
  <2>3. y \in Nat /\ y <= One \div 4
    BY <2>1
  <2> HIDE DEF y
  <2>4. /\ (y * c) \div One = (c * y) \div One
        /\ (y * c) \div One \in Nat /\ (y * c) \div One <= One \div 2
    BY <1>2, <2>3, PartFacts
  <2> QED BY <2>2, <2>4, Zenon DEF y
<1>5. IsFiniteSet(S) /\ \A s \in S : b[s] \in Nat
  BY DEF Weights
<1>6. Weights(f)
  <2>1. f = [s \in S |-> f[s]]
    BY <1>3
  <2> QED BY <1>3, <1>4, <1>5, <2>1 DEF Weights
<1>7. Total(f, S) * One <= c * Total(b, S)
  <2>1. \A s \in S : f[s] = (c * b[s]) \div One
    BY <1>4
  <2> HIDE DEF S
  <2>2. One \in Nat \ {0} /\ c \in Nat
    BY <1>1, <1>2
  <2> QED BY <1>5, <2>1, <2>2, QuotientOfTotal, Zenon
<1>8. Total(b, S) = Sum(b) /\ Total(f, S) = Sum(f)
  BY <1>3, SumTotal
<1> DEFINE t == Sum(b)
           u == Sum(f)
<1>9. t \in Nat /\ u \in Nat
  BY <1>6, SumNat
<1>10. u * 10000 <= c * t /\ e * t <= 100000000
  BY <1>1, <1>7, <1>8
<1> HIDE DEF t, u
<1>11. k * c \in Nat
  BY <1>2, ProductNat
<1>12. e \in Nat
  BY <1>1
<1>13. k * (c * t) <= 100000000
  <2>1. k * (c * t) = (k * c) * t
    BY <1>2, <1>9
  <2>2. (k * c) * t <= e * t
    BY <1>2, <1>9, <1>11, <1>12, ProductMore, Zenon
  <2>3. e * t \in Nat /\ (k * c) * t \in Nat
    BY <1>9, <1>11, <1>12, ProductNat, Zenon
  <2> QED BY <1>10, <2>1, <2>2, <2>3
<1>14. c * t \in Nat
  BY <1>2, <1>9, ProductNat
<1>15. u <= One \div k
  <2>1. CASE k = 1
    BY <1>1, <1>9, <1>10, <1>13, <1>14, <2>1
  <2>2. CASE k = 2
    BY <1>1, <1>9, <1>10, <1>13, <1>14, <2>2
  <2> QED BY <2>1, <2>2
<1> QED BY <1>3, <1>4, <1>6, <1>15, Zenon DEF u

(* What a day's trades leave is what was asked for, but for half a percent *)
(* of a symbol.                                                            *)
LEMMA StepFacts ==
  ASSUME NEW old, Weights(old), NEW new, Weights(new), NEW v, v = Step(old, new)
  PROVE  /\ Weights(v) /\ Sum(v) <= Sum(new) + 50 * Cardinality(DOMAIN v)
         /\ \A s \in DOMAIN v : v[s] <= At(new, s) + 50
<1> DEFINE U == DOMAIN old \cup DOMAIN new
           all == [s \in U |-> IF Abs(At(new, s) - At(old, s)) < 50 THEN At(old, s) ELSE At(new, s)]
           V == {s \in U : all[s] > 0}
           to == [s \in U |-> At(new, s)]
<1>1. v = [s \in V |-> all[s]] /\ DOMAIN v = V
  BY DEF Step, Keep
<1>2. \A s \in U : At(new, s) \in Nat /\ At(old, s) \in Nat
  BY DEF Weights, At
<1>3. \A s \in U : all[s] \in Nat /\ all[s] <= At(new, s) + 50
  BY <1>2 DEF Abs
<1>4. IsFiniteSet(U) /\ IsFiniteSet(V) /\ IsFiniteSet(DOMAIN new) /\ IsFiniteSet(U \ DOMAIN new)
  <2>1. IsFiniteSet(DOMAIN old) /\ IsFiniteSet(DOMAIN new)
    BY DEF Weights
  <2>2. IsFiniteSet(U)
    BY <2>1, FS_Union
  <2>3. V \in SUBSET U /\ U \ DOMAIN new \in SUBSET U
    OBVIOUS
  <2> HIDE DEF U, V
  <2> QED BY <2>1, <2>2, <2>3, FS_Subset
<1>5. \A s \in V : v[s] \in Nat /\ v[s] <= At(new, s) + 50 /\ v[s] = all[s]
  BY <1>1, <1>3
<1> HIDE DEF all
<1>6. Total(v, V) <= Total(to, V) + 50 * Cardinality(V)
  <2>1. \A s \in V : v[s] \in Int /\ to[s] \in Int /\ v[s] <= to[s] + 50
    BY <1>2, <1>5
  <2> HIDE DEF V, to
  <2> QED BY <1>4, <2>1, TotalSlack
<1>7. Total(to, V) <= Total(to, U)
  <2>1. V \in SUBSET U /\ \A s \in U : to[s] \in Nat
    BY <1>2
  <2> HIDE DEF U, V, to
  <2> QED BY <1>4, <2>1, TotalPart
<1>8. Total(to, U) = Sum(new)
  <2> DEFINE N == DOMAIN new
             R == U \ N
  <2>1. N \cap R = {} /\ N \cup R = U
    OBVIOUS
  <2>2. \A s \in N \cup R : to[s] \in Int
    BY <1>2
  <2>3. \A s \in R : to[s] = 0
    BY DEF At
  <2>4. \A s \in N : to[s] = new[s]
    BY DEF At
  <2>5. Sum(new) = Total(new, N)
    BY SumTotal
  <2>6. IsFiniteSet(N) /\ IsFiniteSet(R)
    BY <1>4
  <2> HIDE DEF N, R, U, to
  <2>7. Total(to, U) = Total(to, N) + Total(to, R)
    BY <2>1, <2>2, <2>6, TotalUnion
  <2>8. Total(to, R) = 0
    BY <2>3, <2>6, TotalZero
  <2>9. Total(to, N) = Total(new, N)
    BY <2>4, <2>6, TotalSame
  <2>10. Total(to, N) \in Int
    BY <2>2, <2>6, TotalType
  <2> QED BY <2>5, <2>7, <2>8, <2>9, <2>10
<1>9. Sum(v) = Total(v, V)
  BY <1>1, SumTotal
<1>10. /\ Total(v, V) \in Nat /\ Total(to, V) \in Nat /\ Total(to, U) \in Nat
       /\ Cardinality(V) \in Nat
  <2>1. \A s \in U : to[s] \in Nat
    BY <1>2
  <2>2. \A s \in V : to[s] \in Nat /\ v[s] \in Nat
    BY <1>2, <1>5
  <2> HIDE DEF U, V, to
  <2> QED BY <1>4, <2>1, <2>2, TotalNat, FS_CardinalityType
<1>11. Sum(v) <= Sum(new) + 50 * Cardinality(V)
  <2> HIDE DEF U, V, to
  <2> QED BY <1>6, <1>7, <1>8, <1>9, <1>10
<1>12. Weights(v)
  <2>1. v = [s \in V |-> v[s]]
    BY <1>1
  <2> HIDE DEF V
  <2> QED BY <1>1, <1>4, <1>5, <2>1 DEF Weights
<1> QED BY <1>1, <1>5, <1>11, <1>12

-----------------------------------------------------------------------------
(* The days of the ensemble                                                *)

(* Shares are of strategies and keep the caps; the book has a quarter of a *)
(* symbol at most; the breaker is tripped exactly from fifteen percent     *)
(* down until the drawdown has healed.                                     *)
V6Typed ==
  /\ market \in Markets /\ age \in 0..3 /\ freeze \in 0..2
  /\ breaker \in BOOLEAN /\ frozen \in BOOLEAN /\ below = breaker
Shared == Weighs(shares, Ids) /\ SharesWithinCaps
Booked == Weights(book) /\ \A s \in DOMAIN book : book[s] <= One \div 4
Owned  == Weights(owned) /\ ExposureHolds
V6Inv  == V6Typed /\ Shared /\ Booked /\ Owned

LEMMA NothingOwned == Weights(<<>>) /\ DOMAIN <<>> = {} /\ Sum(<<>>) = 0
<1>1. DOMAIN <<>> = {} /\ <<>> = [s \in {} |-> <<>>[s]]
  OBVIOUS
<1>2. Weights(<<>>)
  <2>1. IsFiniteSet({})
    BY FS_EmptySet
  <2> QED BY <1>1, <2>1 DEF Weights
<1>3. Sum(<<>>) = Total(<<>>, {})
  BY <1>1, SumTotal
<1>4. Total(<<>>, {}) = 0
  BY FS_EmptySet, TotalZero, Zenon
<1> QED BY <1>1, <1>2, <1>3, <1>4

LEMMA V6Begins == V6Init => V6Inv
<1> SUFFICES ASSUME V6Init PROVE V6Inv
  OBVIOUS
<1> USE DEF V6Init
<1>1. V6Typed
  <2>1. market \in Markets /\ age \in 0..3 /\ freeze \in 0..2
    OBVIOUS
  <2>2. breaker \in BOOLEAN /\ frozen \in BOOLEAN /\ below = breaker
    BY Zenon
  <2> QED BY <2>1, <2>2, Zenon DEF V6Typed
<1>2. Shared
  <2>1. shares = [s \in Ids |-> 0] /\ DOMAIN shares = Ids /\ \A s \in Ids : shares[s] = 0
    OBVIOUS
  <2>2. Weighs(shares, Ids)
    BY <2>1 DEF Weighs
  <2>3. Total(shares, Ids) = 0
    BY <2>1, FewIds, TotalZero
  <2>4. Sum(shares) = Total(shares, Ids)
    BY <2>1, SumTotal
  <2>5. Sum(shares) <= One
    BY <2>3, <2>4 DEF One
  <2> QED BY <2>1, <2>2, <2>5, Caps DEF Shared, SharesWithinCaps
<1>3. Booked
  BY NothingOwned DEF Booked
<1>4. Owned
  <2>1. Weights(owned) /\ DOMAIN owned = {} /\ Sum(owned) = 0
    BY NothingOwned
  <2>2. Cardinality(DOMAIN owned) = 0
    BY <2>1, FS_EmptySet
  <2> QED BY <2>1, <2>2 DEF Owned, ExposureHolds, NeverOnMargin, BreakerHalves, One
<1> QED BY <1>1, <1>2, <1>3, <1>4 DEF V6Inv

(* What the strategies that answer give to the allocator. *)
LEMMA AllocateFacts ==
  ASSUME V6Inv, Allocate
  PROVE  /\ Shared' /\ Booked'
         /\ \A s \in fresh' : shares'[s] <= shares[s] + 500
<1>1. market' \in Markets /\ age' \in 0..3
  BY DEF Allocate, V6Inv, V6Typed
<1>2. PICK failed \in Failures, group \in Groups, stars \in Stars :
        LET valid == Ids \ failed
            out   == [s \in valid |-> Proposed[market'][s]]
        IN /\ shares' = Allocated(out, shares, age', group, stars)
           /\ book' = Book(out, shares')
           /\ fresh' = IF age' = 0 THEN {} ELSE valid \cap DOMAIN shares
  BY DEF Allocate
<1> DEFINE valid == Ids \ failed
           o == [s \in valid |-> Proposed[market'][s]]
<1>3. PICK out : out = o
  OBVIOUS
<1>4. PICK a : a = Allocated(out, shares, age', group, stars)
  OBVIOUS
<1>5. PICK b : b = Book(out, a)
  OBVIOUS
<1>6. shares' = a /\ book' = b /\ fresh' = IF age' = 0 THEN {} ELSE valid \cap DOMAIN shares
  BY <1>2, <1>3, <1>4, <1>5
<1>7. /\ DOMAIN out = valid /\ valid \subseteq Ids
      /\ \A i \in valid : Rated(out[i]) /\ Weights(out[i].weights)
  <2>1. DOMAIN out = valid /\ valid \subseteq Ids /\ \A i \in valid : out[i] = Proposed[market'][i]
    BY <1>3
  <2>2. \A i \in Ids : /\ Rated(Proposed[market'][i])
                       /\ Weights(Proposed[market'][i].weights)
    BY <1>1, ProposalsAccepted DEF Rated, Weights
  <2> HIDE DEF valid
  <2> QED BY <2>1, <2>2
<1>8. Weighs(shares, Ids) /\ \A s \in DOMAIN shares : shares[s] <= Cap[s]
  BY DEF V6Inv, Shared, SharesWithinCaps
<1> HIDE DEF valid, o
<1>9. PICK prior : prior = shares
  OBVIOUS
<1>10. PICK old \in 0..3 : old = age'
  BY <1>1
<1>11. /\ Weighs(a, Ids) /\ DOMAIN a = DOMAIN out
       /\ Sum(a) <= One /\ \A s \in DOMAIN a : a[s] <= Cap[s]
       /\ old > 0 => \A s \in DOMAIN a \cap DOMAIN prior : a[s] <= prior[s] + 500
  <2>1. Weighs(prior, Ids) /\ \A s \in DOMAIN prior : prior[s] <= Cap[s]
    BY <1>8, <1>9
  <2>2. a = Allocated(out, prior, old, group, stars)
    BY <1>4, <1>9, <1>10
  <2> QED BY <1>7, <2>1, <2>2, AllocatedFacts
<1>12. Weights(b) /\ \A s \in DOMAIN b : b[s] <= One \div 4
  BY <1>5, <1>7, <1>11, BookFacts
<1>13. Shared'
  BY <1>6, <1>11 DEF Shared, SharesWithinCaps
<1>14. Booked'
  BY <1>6, <1>12 DEF Booked
<1>15. \A s \in fresh' : shares'[s] <= shares[s] + 500
  <2>1. CASE age' = 0
    BY <1>6, <2>1
  <2>2. CASE age' # 0
    <3>1. old > 0
      BY <1>10, <2>2
    <3>2. fresh' = valid \cap DOMAIN shares
      BY <1>6, <2>2
    <3> QED BY <1>6, <1>7, <1>9, <1>11, <3>1, <3>2
  <2> QED BY <2>1, <2>2
<1> QED BY <1>13, <1>14, <1>15

(* Drifted weights, traded to the overlay's or back. *)
LEMMA TradeFacts ==
  ASSUME V6Inv, Trade
  PROVE  Owned' /\ freeze' \in 0..2 /\ breaker' \in BOOLEAN /\ frozen' \in BOOLEAN /\ below' = breaker'
<1>1. PICK ewma \in Realized, drift \in Drifts :
       LET scale  == Exposure(market, book, age, ewma)
           marked == [s \in DOMAIN owned |-> Most(0, owned[s] + At(drift, s))]
       IN \E down \in Falls, shock \in (IF age = 3 THEN BOOLEAN ELSE {FALSE}) :
            LET on    == Tripped(breaker, down)
                cut   == scale \div (IF on THEN 2 ELSE 1)
                final == [s \in DOMAIN book |-> (book[s] * cut) \div One]
            IN /\ breaker' = on
               /\ owned' = Step(marked, IF freeze > 0 THEN owned ELSE final)
               /\ freeze' = IF shock THEN 2 ELSE Most(0, freeze - 1)
               /\ below' = (down >= 15 \/ (below /\ down > 7))
               /\ frozen' = (freeze > 0)
  BY DEF Trade
<1>2. PICK e : e = Exposure(market, book, age, ewma)
  OBVIOUS
<1>3. PICK marked : marked = [s \in DOMAIN owned |-> Most(0, owned[s] + At(drift, s))]
  OBVIOUS
<1>4. PICK down \in Falls, shock \in (IF age = 3 THEN BOOLEAN ELSE {FALSE}) :
        LET on    == Tripped(breaker, down)
            cut   == e \div (IF on THEN 2 ELSE 1)
            final == [s \in DOMAIN book |-> (book[s] * cut) \div One]
        IN /\ breaker' = on
           /\ owned' = Step(marked, IF freeze > 0 THEN owned ELSE final)
           /\ freeze' = IF shock THEN 2 ELSE Most(0, freeze - 1)
           /\ below' = (down >= 15 \/ (below /\ down > 7))
           /\ frozen' = (freeze > 0)
  BY <1>1, <1>2, <1>3
<1>5. PICK k \in {1, 2} : k = IF Tripped(breaker, down) THEN 2 ELSE 1
  OBVIOUS
<1>6. PICK f : f = [s \in DOMAIN book |-> (book[s] * (e \div k)) \div One]
  OBVIOUS
<1>7. /\ breaker' = Tripped(breaker, down)
      /\ owned' = Step(marked, IF freeze > 0 THEN owned ELSE f)
      /\ freeze' = IF shock THEN 2 ELSE Most(0, freeze - 1)
      /\ below' = (down >= 15 \/ (below /\ down > 7))
      /\ frozen' = (freeze > 0)
  BY <1>4, <1>5, <1>6
<1>8. down \in Nat /\ freeze \in 0..2 /\ breaker \in BOOLEAN /\ below = breaker
  BY V6Constants DEF V6Inv, V6Typed
<1>9. freeze' \in 0..2 /\ breaker' \in BOOLEAN /\ frozen' \in BOOLEAN
  <2>1. freeze' \in 0..2
    BY <1>7, <1>8 DEF Most
  <2>2. frozen' \in BOOLEAN
    BY <1>7, <1>8
  <2>3. breaker' \in BOOLEAN
    <3>1. CASE breaker
      BY <1>7, <1>8, <3>1 DEF Tripped
    <3>2. CASE ~breaker
      BY <1>7, <1>8, <3>2 DEF Tripped
    <3> QED BY <3>1, <3>2
  <2> QED BY <2>1, <2>2, <2>3, Zenon
<1>10. below' = breaker'
  BY <1>7, <1>8 DEF Tripped
<1>11. Weights(marked)
  <2>1. Weights(owned)
    BY DEF V6Inv, Owned
  <2>2. ASSUME NEW s \in DOMAIN owned
        PROVE  Most(0, owned[s] + At(drift, s)) \in Nat
    <3>1. owned[s] \in Nat
      BY <2>1 DEF Weights
    <3>2. At(drift, s) \in Int
      BY V6Constants DEF At
    <3> QED BY <3>1, <3>2 DEF Most
  <2> QED BY <1>3, <2>1, <2>2 DEF Weights
<1>12. Scales(e) /\ e * Sum(book) <= One * One
  <2>1. PICK m, b, old : m = market /\ b = book /\ old = age
    OBVIOUS
  <2>2. m.vol \in Nat /\ m.vix \in Nat /\ m.vols \in [DOMAIN m.vols -> Nat] /\ ewma \in Nat
    BY <2>1, V6Constants DEF V6Inv, V6Typed
  <2>3. Weights(b)
    BY <2>1 DEF V6Inv, Booked
  <2>4. e = Exposure(m, b, old, ewma)
    BY <1>2, <2>1
  <2>5. Scales(e) /\ e * Sum(b) <= One * One
    BY <2>2, <2>3, <2>4, ExposureFacts
  <2> QED BY <2>1, <2>5, Zenon
<1>13. /\ Weights(f) /\ \A s \in DOMAIN f : f[s] <= One \div 2
       /\ Sum(f) <= One \div k
  <2>1. PICK b : b = book
    OBVIOUS
  <2>2. Weights(b) /\ \A s \in DOMAIN b : b[s] <= One \div 4
    BY <2>1 DEF V6Inv, Booked
  <2>3. e * Sum(b) <= One * One
    BY <1>12, <2>1
  <2>4. f = [s \in DOMAIN b |-> (b[s] * (e \div k)) \div One]
    BY <1>6, <2>1
  <2> QED BY <1>12, <2>2, <2>3, <2>4, FinalFacts
<1>14. CASE freeze > 0
  <2>1. frozen' = TRUE
    BY <1>7, <1>8, <1>14
  <2>2. PICK new, v : new = owned /\ v = Step(marked, new)
    OBVIOUS
  <2>3. owned' = v /\ Weights(new)
    BY <1>7, <1>14, <2>2 DEF V6Inv, Owned
  <2>4. Weights(v)
    BY <1>11, <2>2, <2>3, StepFacts
  <2> QED BY <1>9, <1>10, <2>1, <2>3, <2>4 DEF Owned, ExposureHolds
<1>15. CASE ~(freeze > 0)
  <2>1. PICK v : v = Step(marked, f)
    OBVIOUS
  <2>2. owned' = v
    BY <1>7, <1>15, <2>1
  <2>3. /\ Weights(v) /\ Sum(v) <= Sum(f) + 50 * Cardinality(DOMAIN v)
        /\ \A s \in DOMAIN v : v[s] <= At(f, s) + 50
    BY <1>11, <1>13, <2>1, StepFacts
  <2>4. Sum(v) \in Nat /\ Sum(f) \in Nat /\ Cardinality(DOMAIN v) \in Nat
    BY <1>13, <2>3, SumNat, FS_CardinalityType DEF Weights
  <2>5. Sum(v) <= One \div k + 50 * Cardinality(DOMAIN v)
    BY <1>13, <2>3, <2>4 DEF One
  <2>6. NeverOnMargin'
    <3>1. Sum(v) <= One + 50 * Cardinality(DOMAIN v)
      BY <2>4, <2>5 DEF One
    <3>2. ASSUME NEW s \in DOMAIN v
          PROVE  v[s] <= One \div 2 + 50
      <4>1. v[s] \in Nat /\ v[s] <= At(f, s) + 50
        BY <2>3 DEF Weights
      <4>2. At(f, s) \in Nat /\ At(f, s) <= One \div 2
        BY <1>13 DEF At, Weights, One
      <4> QED BY <4>1, <4>2 DEF One
    <3> QED BY <2>2, <3>1, <3>2 DEF NeverOnMargin
  <2>7. BreakerHalves'
    <3>1. breaker' => k = 2
      BY <1>5, <1>7
    <3>2. k = 2 => Sum(v) <= One \div 2 + 50 * Cardinality(DOMAIN v)
      BY <2>5
    <3> QED BY <1>10, <2>2, <3>1, <3>2 DEF BreakerHalves
  <2>8. Owned'
    BY <2>2, <2>3, <2>6, <2>7 DEF Owned, ExposureHolds
  <2> QED BY <1>9, <1>10, <2>8
<1> QED BY <1>14, <1>15

LEMMA V6Kept == V6Inv /\ [V6Next]_v6_vars => V6Inv'
<1> SUFFICES ASSUME V6Inv, [V6Next]_v6_vars PROVE V6Inv'
  OBVIOUS
<1>1. CASE Allocate
  <2>1. V6Typed'
    BY <1>1 DEF V6Inv, V6Typed, Allocate
  <2>2. Owned'
    BY <1>1 DEF V6Inv, Owned, Weights, ExposureHolds, NeverOnMargin, BreakerHalves, Allocate
  <2> QED BY <1>1, <2>1, <2>2, AllocateFacts DEF V6Inv
<1>2. CASE Trade
  <2>1. market' = market /\ age' = age /\ shares' = shares /\ book' = book
    BY <1>2 DEF Trade
  <2>2. V6Typed'
    BY <1>2, <2>1, TradeFacts DEF V6Inv, V6Typed
  <2>3. Shared' /\ Booked'
    BY <2>1 DEF V6Inv, Shared, Weighs, SharesWithinCaps, Booked, Weights
  <2> QED BY <1>2, <2>2, <2>3, TradeFacts DEF V6Inv
<1>3. CASE UNCHANGED v6_vars
  BY <1>3 DEF v6_vars, V6Inv, V6Typed, Shared, Weighs, SharesWithinCaps, Booked, Owned, Weights,
              ExposureHolds, NeverOnMargin, BreakerHalves
<1> QED BY <1>1, <1>2, <1>3 DEF V6Next

LEMMA V6Always == V6Spec => []V6Inv
  BY V6Begins, V6Kept, PTL DEF V6Spec

(* Whatever strategies propose, fail or go together, the allocator gives   *)
(* no strategy more than its cap and all of them no more than the book:    *)
(* eight rounds of the caps' water-filling always suffice.                 *)
THEOREM SharesKeepCaps == V6Spec => []SharesWithinCaps
<1>1. V6Inv => SharesWithinCaps
  BY DEF V6Inv, Shared
<1> QED BY <1>1, V6Always, PTL

(* On a day that no shock froze, the shadow book is not on margin after    *)
(* its trades, has no more than half of itself in a symbol, and is halved  *)
(* while the drawdown breaker is tripped.                                  *)
THEOREM ExposureKept == V6Spec => []ExposureHolds
<1>1. V6Inv => ExposureHolds
  BY DEF V6Inv, Owned
<1> QED BY <1>1, V6Always, PTL

(* Once there is a track record, the share of a strategy that answers on   *)
(* two days in a row rises by no more than five percent of the book: what  *)
(* fits the damped shares to the whole only lowers them.                   *)
THEOREM DamperKept == V6Spec => DamperHolds
<1>1. V6Inv /\ [V6Next]_v6_vars => [\A s \in fresh' : shares'[s] <= shares[s] + 500]_shares
  <2> SUFFICES ASSUME V6Inv, V6Next
               PROVE  (\A s \in fresh' : shares'[s] <= shares[s] + 500) \/ shares' = shares
    BY DEF v6_vars
  <2>1. CASE Allocate
    BY <2>1, AllocateFacts
  <2>2. CASE Trade
    BY <2>2 DEF Trade
  <2> QED BY <2>1, <2>2 DEF V6Next
<1> QED BY <1>1, V6Always, PTL DEF V6Spec, DamperHolds

-----------------------------------------------------------------------------
(* The daily live run of RAEC v6: types                                    *)

Account    == [cash : Nat, pos : Nat]
ShadowBook == [curve : Seq(Nat), cash : Int, pos : Int, ret : Int]
Saved      == [book : ShadowBook, dd : BOOLEAN, freeze : 0..Shock, n : 0..History]

(* Nothing is owed: what the owner and the API hold is never negative.     *)
RunTyped ==
  /\ account \in Account /\ reported \in Account
  /\ snap \in [age : 0..Old, cash : Nat, pos : Nat]
  /\ st \in Saved
  /\ stage \in {"night", "sync", "run", "ledger", "post"}
  /\ issued \in Int /\ ticket \in Int /\ target \in 0..FullParts
  /\ equities \in Seq(Nat) /\ calm \in 0..(Shock + 1)

(* Min of FiniteSetsExt, for the pair a capped counter takes it of. *)
LEMMA MinOfTwo ==
  ASSUME NEW a \in Int, NEW b \in Int
  PROVE  Min({a, b}) = IF a <= b THEN a ELSE b
<1>1. CASE a <= b
  <2>1. a \in {a, b} /\ \A y \in {a, b} : a <= y
    BY <1>1
  <2>2. \A x \in {a, b} : (\A y \in {a, b} : x <= y) => x = a
    BY <1>1
  <2>. QED
    BY <1>1, <2>1, <2>2 DEF Min
<1>2. CASE ~(a <= b)
  <2>1. b \in {a, b} /\ \A y \in {a, b} : b <= y
    BY <1>2
  <2>2. \A x \in {a, b} : (\A y \in {a, b} : x <= y) => x = b
    BY <1>2
  <2>. QED
    BY <1>2, <2>1, <2>2 DEF Min
<1>. QED
  BY <1>1, <1>2

(* Dropping the oldest entry leaves a sequence of numbers. *)
LEMMA DropOldType ==
  ASSUME NEW s \in Seq(Nat), NEW e \in Nat
  PROVE  DropOld(Append(s, e)) \in Seq(Nat)
<1>1. Append(s, e) \in Seq(Nat) /\ Len(Append(s, e)) = Len(s) + 1 /\ Len(s) \in Nat
  OBVIOUS
<1>2. Append(s, e) # <<>>
  BY <1>1
<1>. DEFINE t == Append(s, e)
<1>3. t \in Seq(Nat) /\ t # <<>>
  BY <1>1, <1>2
<1>. HIDE DEF t
<1>4. Tail(t) \in Seq(Nat)
  BY <1>3
<1>. QED
  BY <1>3, <1>4 DEF DropOld, t

(* The target of a position is a number. *)
LEMMA FinalType ==
  ASSUME target \in 0..FullParts, NEW eq \in Nat, NEW halved \in BOOLEAN
  PROVE  Final(eq, halved) \in Int
<1>1. target * eq \in Int /\ FullParts \in Nat \ {0}
  BY RaecV6Assumption
<1>2. 2 * FullParts \in Nat \ {0}
  BY <1>1
<1>. DEFINE x == target * eq
            y == 2 * FullParts
<1>3. x \in Int /\ y \in Nat \ {0}
  BY <1>1, <1>2
<1>. HIDE DEF x, y
<1>4. x \div y \in Int /\ x \div FullParts \in Int
  BY <1>1, <1>3
<1>. QED
  BY <1>4 DEF Final, x, y

(* What Run leaves in the state file. *)
LEMMA RunFacts ==
  ASSUME RunTyped, NEW shock \in BOOLEAN, Run(shock)
  PROVE  /\ st' \in Saved /\ issued' \in Int /\ equities' \in Seq(Nat)
         /\ st'.dd = Breaker(st.dd, st.book.curve)
         /\ st'.book.curve = DropOld(Append(st.book.curve, Worth(snap)))
         /\ equities' = DropOld(Append(equities, Worth(snap)))
         /\ st'.freeze = FreezeAfter(st.freeze, shock)
         /\ st.freeze # 0 => issued' = 0
         /\ calm' = IF shock THEN 0 ELSE IF calm <= Shock THEN calm + 1 ELSE Shock + 1
<1> DEFINE synced  == SyncBook(st.book)
           eq    == Worth(snap)
           dd    == Breaker(st.dd, st.book.curve)
           delta == Final(eq, dd) - snap.pos
           goes  == st.freeze = 0 /\ Drifted(delta, eq)
           goal  == IF goes THEN snap.pos + delta ELSE snap.pos
           after == StepBook(synced, goal)
<1>1. /\ st' = [book |-> after, dd |-> dd, freeze |-> FreezeAfter(st.freeze, shock),
                n |-> Min({st.n + 1, History})]
      /\ issued' = IF goes THEN delta ELSE 0
      /\ equities' = DropOld(Append(equities, eq))
      /\ calm' = IF shock THEN 0 ELSE Min({calm + 1, Shock + 1})
  BY DEF Run, CurrentPos
<1>2. /\ eq \in Nat /\ dd \in BOOLEAN /\ snap.pos \in Nat /\ snap.cash \in Nat
      /\ st.book \in ShadowBook /\ st.freeze \in 0..Shock /\ st.n \in 0..History
      /\ equities \in Seq(Nat) /\ target \in 0..FullParts
  BY DEF RunTyped, Saved, Worth, Breaker
<1> HIDE DEF eq, dd
<1>3. delta \in Int
  <2>1. Final(eq, dd) \in Int
    BY <1>2, FinalType
  <2>. QED
    BY <1>2, <2>1
<1>4. synced = [st.book EXCEPT !.cash = snap.cash, !.pos = snap.pos]
  BY DEF SyncBook
<1>5. /\ synced.curve = st.book.curve /\ synced.cash = snap.cash /\ synced.pos = snap.pos
      /\ synced.curve \in Seq(Nat)
  BY <1>2, <1>4 DEF ShadowBook
<1>6. Worth(synced) = eq
  BY <1>5 DEF Worth, eq
<1>7. goal \in Int
  BY <1>2, <1>3
<1> DEFINE prior == IF synced.curve = <<>> THEN synced.cash ELSE Last(synced.curve)
<1> HIDE DEF synced, delta, goes, goal
<1>8. after = [curve |-> DropOld(Append(st.book.curve, eq)), pos |-> goal,
               cash |-> eq - goal,
               ret |-> IF prior > 0 THEN eq - prior ELSE 0]
  BY <1>5, <1>6 DEF StepBook
<1>9. prior \in Int
  BY <1>2, <1>5 DEF Last
<1> HIDE DEF prior, after
<1>10. after \in ShadowBook
  <2>1. DropOld(Append(st.book.curve, eq)) \in Seq(Nat)
    BY <1>2, <1>5, DropOldType
  <2>2. eq - goal \in Int /\ (IF prior > 0 THEN eq - prior ELSE 0) \in Int
    BY <1>2, <1>7, <1>9
  <2>. QED
    BY <1>7, <1>8, <2>1, <2>2 DEF ShadowBook
<1>11. FreezeAfter(st.freeze, shock) \in 0..Shock
  BY <1>2 DEF FreezeAfter, Shock
<1>12. Min({st.n + 1, History}) \in 0..History
  <2>1. History \in Nat /\ st.n + 1 \in Nat
    BY <1>2, RaecV6Assumption
  <2>2. Min({st.n + 1, History}) = IF st.n + 1 <= History THEN st.n + 1 ELSE History
    BY <2>1, MinOfTwo
  <2>. QED
    BY <2>1, <2>2
<1>13. Min({calm + 1, Shock + 1}) = IF calm <= Shock THEN calm + 1 ELSE Shock + 1
  BY MinOfTwo DEF RunTyped, Shock
<1>14. st' \in Saved
  BY <1>1, <1>2, <1>10, <1>11, <1>12 DEF Saved
<1>15. /\ st'.dd = dd /\ st'.book = after
       /\ st'.freeze = FreezeAfter(st.freeze, shock)
  BY <1>1
<1>16. after.curve = DropOld(Append(st.book.curve, eq))
  BY <1>8
<1>17. issued' \in Int /\ (st.freeze # 0 => issued' = 0)
  BY <1>1, <1>3 DEF goes
<1>18. equities' \in Seq(Nat)
  BY <1>1, <1>2, DropOldType
<1>. QED
  BY <1>1, <1>13, <1>14, <1>15, <1>16, <1>17, <1>18 DEF eq, dd

(* Every variable keeps its type. *)
LEMMA RunTypedNext ==
  ASSUME RunTyped, [RunsNext]_run_vars
  PROVE  RunTyped'
<1>1. ASSUME NEW d \in {-1, 1}, Move(d) PROVE RunTyped'
  <2>1. account' \in Account /\ reported' \in Account
    <3>1. /\ account.pos + d \in Nat /\ account \in Account /\ reported \in Account
          /\ account' = [account EXCEPT !.pos = @ + d]
          /\ reported' = IF reported.pos + d >= 0 /\ reported.pos > 0
                         THEN [reported EXCEPT !.pos = @ + d] ELSE reported
      BY <1>1 DEF Move, RunTyped, Account
    <3>2. account' \in Account
      BY <3>1 DEF Account
    <3>3. reported.pos + d >= 0 => reported.pos + d \in Nat
      BY <3>1 DEF Account
    <3>. QED
      BY <3>1, <3>2, <3>3 DEF Account
  <2>. QED
    BY <1>1, <2>1 DEF Move, RunTyped
<1>2. CASE NewTarget
  BY <1>2 DEF NewTarget, RunTyped
<1>3. ASSUME NEW d \in -Worth(account)..Worth(account), Execute(d) PROVE RunTyped'
  <2>1. d \in Int
    BY DEF Worth, RunTyped, Account
  <2>2. account' \in Account
    BY <1>3, <2>1 DEF Execute, RunTyped, Account
  <2>. QED
    BY <1>3, <2>2 DEF Execute, RunTyped
<1>4. CASE CatchUp \/ Override \/ NextDay \/ Again \/ Sync \/ SyncFails \/ RunRefused
           \/ AppendLedger \/ Post \/ PostLost \/ RunDies
  <2>1. Old \in Nat /\ MaxStale \in Nat
    BY RaecV6Assumption DEF Old
  <2>. QED
    BY <1>4, <2>1
       DEF CatchUp, Override, NextDay, Again, Sync, SyncFails, RunRefused, AppendLedger,
           Post, PostLost, RunDies, Written, Old, Account, outside, RunTyped
<1>5. ASSUME NEW shock \in BOOLEAN, Run(shock) PROVE RunTyped'
  <2>1. /\ UNCHANGED <<account, reported, target, snap, ticket>> /\ stage' = "ledger"
    BY <1>5 DEF Run, outside
  <2>2. st' \in Saved /\ issued' \in Int /\ equities' \in Seq(Nat)
    BY <1>5, RunFacts
  <2>3. calm' = IF shock THEN 0 ELSE IF calm <= Shock THEN calm + 1 ELSE Shock + 1
    BY <1>5, RunFacts
  <2>4. calm' \in 0..(Shock + 1)
    BY <2>3 DEF RunTyped, Shock
  <2>. QED
    BY <2>1, <2>2, <2>4 DEF RunTyped
<1>6. CASE UNCHANGED run_vars
  BY <1>6 DEF run_vars, RunTyped
<1>. QED
  BY <1>1, <1>2, <1>3, <1>4, <1>5, <1>6 DEF RunsNext

-----------------------------------------------------------------------------
(* The freeze and the breaker                                              *)

(* The saved counter is what the shocks left of it: the runs still to be   *)
(* frozen and the runs since the last shock add up.                        *)
FreezeCounted == st.freeze = IF calm >= Shock THEN 0 ELSE Shock - calm

(* The curve of the shadow book is the list of equities Schwab showed,     *)
(* although the book booked tickets nobody executed in between.            *)
Shown == st.book.curve = equities

RunInv == RunTyped /\ FreezeCounted /\ Shown /\ FreezeHolds

(* The invariant holds at first and is kept by every step. *)
LEMMA RunInvAlways == RunsSpec => []RunInv
<1>1. RunsInit => RunInv
  <2>1. SUFFICES ASSUME RunsInit PROVE RunInv
    OBVIOUS
  <2>2. RunTyped
    BY <2>1, RaecV6Assumption
       DEF RunsInit, RunTyped, Account, ShadowBook, Saved, FreshBook, Old, Shock
  <2>. QED
    BY <2>1, <2>2 DEF RunsInit, RunInv, FreezeCounted, Shown, FreezeHolds, FreshBook, Shock
<1>2. ASSUME RunInv, [RunsNext]_run_vars PROVE RunInv'
  <2>1. RunTyped'
    BY <1>2, RunTypedNext DEF RunInv
  <2>2. CASE \E shock \in BOOLEAN : Run(shock)
    <3>1. PICK shock \in BOOLEAN : Run(shock)
      BY <2>2
    <3>2. /\ st'.book.curve = equities'
          /\ st'.freeze = FreezeAfter(st.freeze, shock)
          /\ st.freeze # 0 => issued' = 0
          /\ calm' = IF shock THEN 0 ELSE IF calm <= Shock THEN calm + 1 ELSE Shock + 1
      BY <1>2, <3>1, RunFacts DEF RunInv, Shown
    <3>3. calm \in 0..3 /\ st.freeze = IF calm >= 2 THEN 0 ELSE 2 - calm
      BY <1>2 DEF RunInv, RunTyped, FreezeCounted, Shock
    <3>. QED
      BY <2>1, <3>2, <3>3 DEF RunInv, FreezeCounted, Shown, FreezeHolds, FreezeAfter, Shock
  <2>3. CASE AppendLedger
    BY <1>2, <2>1, <2>3 DEF AppendLedger, outside, RunInv, FreezeCounted, Shown, FreezeHolds
  <2>4. CASE ~(\E shock \in BOOLEAN : Run(shock)) /\ ~AppendLedger
    <3>1. /\ UNCHANGED <<st, equities, calm>>
          /\ stage' \in {"ledger", "post"} => stage' = stage /\ issued' = issued
      BY <1>2, <2>4
         DEF RunsNext, Move, NewTarget, Execute, CatchUp, Override, NextDay, Again, Sync,
             SyncFails, RunRefused, Post, PostLost, RunDies, run_vars
    <3>. QED
      BY <1>2, <2>1, <3>1 DEF RunInv, FreezeCounted, Shown, FreezeHolds
  <2>. QED
    BY <2>2, <2>3, <2>4
<1>. QED
  BY <1>1, <1>2, PTL DEF RunsSpec

(* Every variable keeps its type; no account ever goes below zero. *)
THEOREM RunTypesHold == RunsSpec => []RunTyped
<1>1. RunInv => RunTyped
  BY DEF RunInv
<1>. QED
  BY <1>1, RunInvAlways, PTL

(* In the two runs after a shock no intent is issued, whatever crashed,    *)
(* was run again, or found the next shock in between.                      *)
THEOREM ShocksFreeze == RunsSpec => []FreezeHolds
<1>1. RunInv => FreezeHolds
  BY DEF RunInv
<1>. QED
  BY <1>1, RunInvAlways, PTL

(* The drawdown breaker is turned on only by a fall of the equities Schwab *)
(* showed: no ticket left undone, or executed in part, can look like one.  *)
THEOREM BreakerJudgesTheAccount == RunsSpec => BreakerIsReal
<1>1. RunInv /\ [RunsNext]_run_vars =>
        [st'.dd /\ ~ st.dd => 100 * Last(equities) <= 85 * Max(Range(equities))]_run_vars
  <2>1. SUFFICES ASSUME RunInv, [RunsNext]_run_vars, st'.dd, ~ st.dd
                 PROVE  100 * Last(equities) <= 85 * Max(Range(equities))
    OBVIOUS
  <2>2. PICK shock \in BOOLEAN : Run(shock)
    BY <2>1
       DEF RunsNext, Move, NewTarget, Execute, CatchUp, Override, NextDay, Again, Sync,
           SyncFails, RunRefused, AppendLedger, Post, PostLost, RunDies, run_vars
  <2>3. Breaker(st.dd, equities)
    BY <2>1, <2>2, RunFacts DEF RunInv, Shown
  <2>. QED
    BY <2>1, <2>3 DEF Breaker
<1>. QED
  BY <1>1, RunInvAlways, PTL DEF RunsSpec, BreakerIsReal

-----------------------------------------------------------------------------
(* The portfolio book.  What was bought and sold at an instant, and what    *)
(* the lots keep of it: both follow the entries one by one, from the first  *)
(* to the last of the order fills are sorted in, as the folds of            *)
(* PortfolioBook take the last of them first.                               *)

Entry == [sym : Tickers, side : {"buy", "sell", "unknown"}, qty : Nat, price : Nat,
          time : 1..MaxTime]
Lot   == [sym : Tickers, price : Nat, time : 1..MaxTime, left : Nat]

LedgerTyped == ledger \in Seq(Entry)

LEMMA EntriesFinite ==
  ASSUME LedgerTyped
  PROVE  /\ IsFiniteSet(DOMAIN ledger) /\ DOMAIN ledger = 1..Len(ledger)
         /\ \A i \in DOMAIN ledger : ledger[i] \in Entry
         /\ \A S \in SUBSET DOMAIN ledger : IsFiniteSet(S)
<1>1. DOMAIN ledger = 1..Len(ledger) /\ Len(ledger) \in Nat
  BY DEF LedgerTyped
<1>2. IsFiniteSet(1..Len(ledger))
  BY <1>1, FS_Interval
<1>3. \A i \in DOMAIN ledger : ledger[i] \in Entry
  BY DEF LedgerTyped
<1> QED BY <1>1, <1>2, <1>3, FS_Subset

(* Some entry of a set is before none of them, as times and sides are numbers. *)
LEMMA LastFillIs ==
  ASSUME LedgerTyped, NEW S \in SUBSET DOMAIN ledger, S # {}
  PROVE  LastFill(S) \in S /\ \A j \in S : ~FillBefore(ledger[LastFill(S)], ledger[j])
<1> DEFINE Rank(f) == IF f.side = "buy" THEN 1 ELSE IF f.side = "sell" THEN 2 ELSE 3
           Key == [i \in S |-> 4 * ledger[i].time + Rank(ledger[i])]
           Keys == {Key[i] : i \in S}
<1>1. \A i \in S : /\ ledger[i] \in Entry /\ ledger[i].time \in Nat
                   /\ Rank(ledger[i]) \in 1..3 /\ SideRank[ledger[i].side] = Rank(ledger[i])
  <2>1. \A i \in S : ledger[i] \in Entry
    BY EntriesFinite
  <2> QED BY <2>1 DEF Entry, SideRank
<1> HIDE DEF Rank
<1>2. Keys \subseteq Nat /\ Keys # {}
  BY <1>1
<1>3. IsFiniteSet(Keys)
  <2> HIDE DEF Key
  <2> QED BY EntriesFinite, ImageFinite
<1>4. PICK n \in Keys : \A m \in Keys : m <= n
  <2> HIDE DEF Keys
  <2> QED BY <1>2, <1>3, GreatestNumber
<1>5. PICK i \in S : Key[i] = n
  BY <1>4
<1>6. \A j \in S : ~FillBefore(ledger[i], ledger[j])
  <2> TAKE j \in S
  <2>1. 4 * ledger[j].time + Rank(ledger[j]) <= 4 * ledger[i].time + Rank(ledger[i])
    BY <1>4, <1>5
  <2>2. ~(ledger[i].time < ledger[j].time)
    BY <1>1, <2>1
  <2>3. ledger[i].time = ledger[j].time => ~(Rank(ledger[i]) < Rank(ledger[j]))
    BY <1>1, <2>1
  <2> QED BY <1>1, <2>2, <2>3 DEF FillBefore
<1> QED BY <1>6 DEF LastFill

-----------------------------------------------------------------------------
(* The recursion that a book is. *)
IsBook(S, h) ==
  h = [T \in SUBSET S |-> IF T = {} THEN NoBook
                          ELSE Reconstruct(LastFill(T), h[T \ {LastFill(T)}])]

LEMMA BookUnique ==
  ASSUME LedgerTyped, NEW S \in SUBSET DOMAIN ledger, NEW g, NEW h, IsBook(S, g), IsBook(S, h)
  PROVE  g = h
<1> DEFINE D == {T \in SUBSET S : g[T] # h[T]}
<1>1. ASSUME D # {} PROVE FALSE
  <2>1. PICK T \in D : \A U \in D : U \subseteq T => U = T
    <3>1. D \subseteq SUBSET S /\ IsFiniteSet(S)
      BY EntriesFinite
    <3> HIDE DEF D
    <3> QED BY <1>1, <3>1, LeastSubset
  <2> DEFINE x == LastFill(T)
  <2>2. \A U \in SUBSET S :
          /\ g[U] = IF U = {} THEN NoBook ELSE Reconstruct(LastFill(U), g[U \ {LastFill(U)}])
          /\ h[U] = IF U = {} THEN NoBook ELSE Reconstruct(LastFill(U), h[U \ {LastFill(U)}])
    BY DEF IsBook
  <2>3. T # {} /\ T \in SUBSET S /\ g[T] # h[T]
    BY <2>1, <2>2
  <2>4. x \in T
    <3>1. T \in SUBSET DOMAIN ledger
      BY <2>3
    <3> QED BY <2>3, <3>1, LastFillIs
  <2>5. T \ {x} \in SUBSET S /\ T \ {x} # T /\ T \ {x} \subseteq T
    BY <2>3, <2>4
  <2>6. g[T \ {x}] = h[T \ {x}]
    BY <2>1, <2>5
  <2> QED BY <2>2, <2>3, <2>6
<1>2. \A T \in SUBSET S : g[T] = h[T]
  BY <1>1
<1>3. /\ g = [T \in SUBSET S |-> g[T]]
      /\ h = [T \in SUBSET S |-> h[T]]
  BY DEF IsBook
<1> QED BY <1>2, <1>3

LEMMA BookRestricted ==
  ASSUME LedgerTyped, NEW S \in SUBSET DOMAIN ledger, NEW h, IsBook(S, h), NEW T \in SUBSET S
  PROVE  IsBook(T, [U \in SUBSET T |-> h[U]])
<1> DEFINE k == [U \in SUBSET T |-> h[U]]
<1>1. \A U \in SUBSET T :
        h[U] = IF U = {} THEN NoBook ELSE Reconstruct(LastFill(U), h[U \ {LastFill(U)}])
  BY DEF IsBook
<1>2. \A U \in SUBSET T : U # {} => k[U \ {LastFill(U)}] = h[U \ {LastFill(U)}]
  OBVIOUS
<1>3. k = [U \in SUBSET T |-> IF U = {} THEN NoBook
                              ELSE Reconstruct(LastFill(U), k[U \ {LastFill(U)}])]
  BY <1>1, <1>2
<1> QED BY <1>3 DEF IsBook

LEMMA BookExists ==
  ASSUME LedgerTyped, NEW S \in SUBSET DOMAIN ledger
  PROVE  \E h : IsBook(S, h)
<1> DEFINE D == {T \in SUBSET S : ~ \E h : IsBook(T, h)}
<1>1. ASSUME D # {} PROVE FALSE
  <2>1. PICK T \in D : \A U \in D : U \subseteq T => U = T
    <3>1. D \subseteq SUBSET S /\ IsFiniteSet(S)
      BY EntriesFinite
    <3> HIDE DEF D
    <3> QED BY <1>1, <3>1, LeastSubset
  <2>2. T \in SUBSET S /\ ~ \E h : IsBook(T, h)
    BY <2>1
  <2>3. \A U \in SUBSET T : U # T => \E h : IsBook(U, h)
    BY <2>1, <2>2
  <2> DEFINE H(U) == CHOOSE h : IsBook(U, h)
             Less(U) == U \ {LastFill(U)}
             k == [U \in SUBSET T |-> IF U = {} THEN NoBook
                                      ELSE Reconstruct(LastFill(U), H(Less(U))[Less(U)])]
  <2>4. \A U \in SUBSET T : U # T => IsBook(U, H(U))
    BY <2>3
  <2>5. \A U \in SUBSET T : U # {} => Less(U) \in SUBSET U /\ Less(U) # U
    <3> TAKE U \in SUBSET T
    <3>1. U \in SUBSET DOMAIN ledger
      BY <2>2
    <3>2. U # {} => LastFill(U) \in U
      BY <3>1, LastFillIs
    <3> QED BY <3>2
  <2>6. ASSUME NEW V \in SUBSET T, V # T
        PROVE  k[V] = H(V)[V]
    <3>1. IsBook(V, H(V))
      BY <2>4, <2>6
    <3> HIDE DEF H
    <3>2. H(V)[V] = IF V = {} THEN NoBook ELSE Reconstruct(LastFill(V), H(V)[Less(V)])
      BY <3>1 DEF IsBook
    <3>3. k[V] = IF V = {} THEN NoBook ELSE Reconstruct(LastFill(V), H(Less(V))[Less(V)])
      OBVIOUS
    <3>4. CASE V # {}
      <4> DEFINE W == Less(V)
      <4>1. W \in SUBSET V /\ W \in SUBSET T /\ W # T
        BY <2>5, <2>6, <3>4
      <4>2. V \in SUBSET DOMAIN ledger /\ W \in SUBSET DOMAIN ledger
        BY <2>2, <4>1
      <4> HIDE DEF W
      <4>3. IsBook(W, H(W))
        BY <2>4, <4>1
      <4>4. IsBook(W, [U \in SUBSET W |-> H(V)[U]])
        BY <3>1, <4>1, <4>2, BookRestricted
      <4>5. H(W) = [U \in SUBSET W |-> H(V)[U]]
        BY <4>2, <4>3, <4>4, BookUnique
      <4>6. H(W)[W] = H(V)[W]
        BY <4>5
      <4> QED BY <3>2, <3>3, <3>4, <4>6 DEF W
    <3> QED BY <3>2, <3>3, <3>4
  <2>7. \A U \in SUBSET T : U # {} => k[Less(U)] = H(Less(U))[Less(U)]
    <3> HIDE DEF k, H
    <3> SUFFICES ASSUME NEW U \in SUBSET T, U # {}
                 PROVE  k[Less(U)] = H(Less(U))[Less(U)]
      OBVIOUS
    <3>1. Less(U) \in SUBSET T /\ Less(U) # T
      BY <2>5
    <3> HIDE DEF Less
    <3> QED BY <2>6, <3>1
  <2>8. k = [U \in SUBSET T |-> IF U = {} THEN NoBook ELSE Reconstruct(LastFill(U), k[Less(U)])]
    <3>1. \A U \in SUBSET T :
            k[U] = IF U = {} THEN NoBook ELSE Reconstruct(LastFill(U), k[Less(U)])
      <4>1. \A U \in SUBSET T :
              k[U] = IF U = {} THEN NoBook ELSE Reconstruct(LastFill(U), H(Less(U))[Less(U)])
        OBVIOUS
      <4> HIDE DEF k, H, Less
      <4> QED BY <2>7, <4>1
    <3>2. k = [U \in SUBSET T |-> k[U]]
      OBVIOUS
    <3> HIDE DEF k
    <3> QED BY <3>1, <3>2
  <2>9. IsBook(T, k)
    <3> HIDE DEF k
    <3> QED BY <2>8 DEF IsBook
  <2> QED BY <2>2, <2>9
<1>2. S \in SUBSET S
  OBVIOUS
<1> QED BY <1>1, <1>2

LEMMA BookIs ==
  ASSUME LedgerTyped, NEW S \in SUBSET DOMAIN ledger, NEW h, IsBook(S, h)
  PROVE  BookOf(S) = h[S]
<1> DEFINE R(g) == [s \in SUBSET S |->
                      IF s = {} THEN NoBook
                      ELSE LET x == LastFill(s) IN Reconstruct(x, g[s \ {x}])]
<1>1. PICK g : g = CHOOSE k : k = R(k)
  OBVIOUS
<1>2. h = R(h)
  BY DEF IsBook
<1>3. g = R(g)
  BY <1>1, <1>2
<1>4. IsBook(S, g)
  BY <1>3 DEF IsBook
<1>5. g = h
  BY <1>4, BookUnique
<1>6. BookOf(S) = g[S]
  BY <1>1 DEF BookOf, MapThenFoldSet
<1> QED BY <1>5, <1>6

(* The book of some entries is that of all but the last, and the last. *)
LEMMA BookRecursion ==
  ASSUME LedgerTyped
  PROVE  /\ BookOf({}) = NoBook
         /\ \A T \in SUBSET DOMAIN ledger : T # {} =>
              BookOf(T) = Reconstruct(LastFill(T), BookOf(T \ {LastFill(T)}))
<1>1. PICK h : IsBook(DOMAIN ledger, h)
  BY BookExists
<1>2. ASSUME NEW T \in SUBSET DOMAIN ledger
      PROVE  BookOf(T) = h[T]
  <2> DEFINE k == [U \in SUBSET T |-> h[U]]
  <2>1. IsBook(T, k)
    BY <1>1, BookRestricted
  <2>2. k[T] = h[T]
    OBVIOUS
  <2> HIDE DEF k
  <2> QED BY <2>1, <2>2, BookIs
<1>3. \A T \in SUBSET DOMAIN ledger :
        h[T] = IF T = {} THEN NoBook ELSE Reconstruct(LastFill(T), h[T \ {LastFill(T)}])
  BY <1>1 DEF IsBook
<1>4. BookOf({}) = NoBook
  BY <1>2, <1>3
<1>5. ASSUME NEW T \in SUBSET DOMAIN ledger, T # {}
      PROVE  BookOf(T) = Reconstruct(LastFill(T), BookOf(T \ {LastFill(T)}))
  <2>1. T \ {LastFill(T)} \in SUBSET DOMAIN ledger
    OBVIOUS
  <2> QED BY <1>2, <1>3, <1>5, <2>1
<1> QED BY <1>4, <1>5

-----------------------------------------------------------------------------
(* One more day of trades: never below zero. *)
More(x, y) == Max({0, x + y})

LEMMA MoreIs == \A x, y \in Int : More(x, y) = (IF x + y >= 0 THEN x + y ELSE 0) /\ More(x, y) \in Nat
<1> SUFFICES ASSUME NEW x \in Int, NEW y \in Int
             PROVE  More(x, y) = (IF x + y >= 0 THEN x + y ELSE 0) /\ More(x, y) \in Nat
  OBVIOUS
<1> DEFINE b == x + y
<1>1. b \in Int /\ 0 \in Int
  OBVIOUS
<1> HIDE DEF b
<1>2. Max({0, b}) = IF b >= 0 THEN b ELSE 0
  <2>1. b >= 0 => Max({0, b}) = b
    BY <1>1 DEF Max
  <2>2. ~(b >= 0) => Max({0, b}) = 0
    BY <1>1 DEF Max
  <2> QED BY <2>1, <2>2
<1>3. More(x, y) = Max({0, b})
  BY DEF More, b
<1> QED BY <1>1, <1>2, <1>3 DEF b

Runs(N, f) ==
  /\ f \in [0..MaxTime -> Nat] /\ f[0] = 0
  /\ \A t \in 1..MaxTime : f[t] = More(f[t - 1], N[t])

LEMMA MaxTimeIs == MaxTime \in Nat \ {0}
  BY PortfolioBookConstants

LEMMA RunningIs ==
  ASSUME NEW N \in [1..MaxTime -> Int]
  PROVE  \E f : Runs(N, f) /\ Running(N) = f[MaxTime]
<1> DEFINE R(k) == [t \in 0..MaxTime |-> IF t = 0 THEN 0 ELSE More(k[t - 1], N[t])]
           Made(m) == \E f \in [0..m -> Nat] :
                        f[0] = 0 /\ \A t \in 1..m : f[t] = More(f[t - 1], N[t])
           P == {m \in 0..MaxTime : Made(m)}
<1>1. 0 \in P
  <2> DEFINE f == [t \in 0..0 |-> 0]
  <2>1. f \in [0..0 -> Nat] /\ f[0] = 0 /\ \A t \in 1..0 : f[t] = More(f[t - 1], N[t])
    OBVIOUS
  <2>2. Made(0)
    <3> HIDE DEF f
    <3> QED BY <2>1
  <2> HIDE DEF Made
  <2> QED BY <2>2, MaxTimeIs
<1>2. ASSUME NEW m \in 1..MaxTime, m - 1 \in P PROVE m \in P
  <2>1. PICK f \in [0..(m - 1) -> Nat] :
          f[0] = 0 /\ \A t \in 1..(m - 1) : f[t] = More(f[t - 1], N[t])
    BY <1>2
  <2> DEFINE e == More(f[m - 1], N[m])
             g == [t \in 0..m |-> IF t = m THEN e ELSE f[t]]
  <2>2. f[m - 1] \in Nat /\ N[m] \in Int /\ m \in Nat \ {0}
    BY MaxTimeIs
  <2>3. e \in Nat
    <3>1. f[m - 1] \in Int /\ N[m] \in Int
      BY <2>2
    <3> QED BY <3>1, MoreIs, Zenon
  <2> HIDE DEF e
  <2>4. g \in [0..m -> Nat]
    BY <2>2, <2>3
  <2>5. g[0] = 0
    BY <2>1, <2>2
  <2>6. ASSUME NEW t \in 1..m PROVE g[t] = More(g[t - 1], N[t])
    <3>1. g[t - 1] = f[t - 1]
      BY <2>2
    <3>2. CASE t = m
      BY <2>2, <3>1, <3>2 DEF e
    <3>3. CASE t # m
      <4>1. t \in 1..(m - 1) /\ g[t] = f[t]
        BY <2>2, <3>3
      <4> QED BY <2>1, <3>1, <4>1
    <3> QED BY <3>2, <3>3
  <2>7. Made(m)
    <3> HIDE DEF g
    <3> QED BY <2>4, <2>5, <2>6
  <2> HIDE DEF Made
  <2> QED BY <2>7, MaxTimeIs
<1>3. Made(MaxTime)
  <2>1. 0..MaxTime \subseteq P
    <3> HIDE DEF P
    <3> QED BY <1>1, <1>2, MaxTimeIs, UpTo
  <2>2. MaxTime \in 0..MaxTime
    BY MaxTimeIs
  <2> QED BY <2>1, <2>2
<1>4. PICK f \in [0..MaxTime -> Nat] :
        f[0] = 0 /\ \A t \in 1..MaxTime : f[t] = More(f[t - 1], N[t])
  BY <1>3
<1>5. f = R(f)
  <2>1. \A t \in 0..MaxTime : f[t] = IF t = 0 THEN 0 ELSE More(f[t - 1], N[t])
    BY <1>4, MaxTimeIs
  <2> QED BY <2>1
<1> DEFINE g == CHOOSE k : k = R(k)
<1>6. g = R(g)
  <2> HIDE DEF R
  <2> QED BY <1>5
<1>7. Running(N) = g[MaxTime]
  BY DEF Running, More
<1> HIDE DEF g
<1>8. /\ g[0] = 0
      /\ \A t \in 1..MaxTime : g[t] = More(g[t - 1], N[t])
      /\ g = [t \in 0..MaxTime |-> g[t]]
  <2>1. 0 \in 0..MaxTime /\ \A t \in 1..MaxTime : t \in 0..MaxTime /\ t # 0
    BY MaxTimeIs
  <2> QED BY <1>6, <2>1
<1>9. \A t \in 0..MaxTime : g[t] \in Nat
  <2> DEFINE Q == {t \in 0..MaxTime : g[t] \in Nat}
  <2>1. 0 \in Q
    BY <1>8, MaxTimeIs
  <2>2. ASSUME NEW t \in 1..MaxTime, t - 1 \in Q PROVE t \in Q
    <3>1. g[t - 1] \in Int /\ N[t] \in Int
      BY <2>2
    <3>2. More(g[t - 1], N[t]) \in Nat
      BY <3>1, MoreIs, Zenon
    <3>3. g[t] = More(g[t - 1], N[t])
      BY <1>8, Zenon
    <3>4. t \in 0..MaxTime
      BY MaxTimeIs
    <3> QED BY <3>2, <3>3, <3>4
  <2>3. 0..MaxTime \subseteq Q
    <3> HIDE DEF Q
    <3> QED BY <2>1, <2>2, MaxTimeIs, UpTo
  <2> QED BY <2>3
<1>10. Runs(N, g)
  <2>1. g \in [0..MaxTime -> Nat]
    BY <1>8, <1>9
  <2> QED BY <1>8, <2>1 DEF Runs
<1> QED BY <1>7, <1>10

(* Up to an instant the runs of two days' trades agree where the trades do. *)
LEMMA RunsAgree ==
  ASSUME NEW N \in [1..MaxTime -> Int], NEW O \in [1..MaxTime -> Int], NEW T \in 1..MaxTime,
         NEW f, NEW g, Runs(N, f), Runs(O, g), \A t \in 1..(T - 1) : N[t] = O[t]
  PROVE  f[T - 1] = g[T - 1] /\ f[T - 1] \in Nat
<1> DEFINE P == {t \in 0..(T - 1) : f[t] = g[t]}
<1>0. T \in Nat /\ T - 1 \in Nat /\ T <= MaxTime
  BY MaxTimeIs
<1>1. 0 \in P
  BY <1>0 DEF Runs
<1>2. ASSUME NEW t \in 1..(T - 1), t - 1 \in P PROVE t \in P
  <2>1. t \in 1..MaxTime /\ t \in 0..(T - 1)
    BY <1>0, MaxTimeIs
  <2>2. f[t - 1] = g[t - 1] /\ N[t] = O[t]
    BY <1>2
  <2>3. f[t] = More(f[t - 1], N[t]) /\ g[t] = More(g[t - 1], O[t])
    BY <2>1 DEF Runs
  <2> QED BY <2>1, <2>2, <2>3
<1>3. 0..(T - 1) \subseteq P
  <2> HIDE DEF P
  <2> QED BY <1>0, <1>1, <1>2, UpTo
<1>4. T - 1 \in 0..(T - 1) /\ T - 1 \in 0..MaxTime
  BY <1>0, MaxTimeIs
<1> QED BY <1>3, <1>4 DEF Runs

(* Without trades after an instant nothing changes after it. *)
LEMMA RunsRest ==
  ASSUME NEW N \in [1..MaxTime -> Int], NEW T \in 1..MaxTime, NEW f, Runs(N, f),
         \A t \in (T + 1)..MaxTime : N[t] = 0
  PROVE  f[MaxTime] = f[T] /\ f[T] \in Nat
<1> DEFINE M == MaxTime - T
           P == {d \in 0..M : f[T + d] = f[T]}
<1>0. T \in Nat /\ M \in Nat /\ T + M = MaxTime /\ MaxTime \in Nat
  BY MaxTimeIs
<1>1. 0 \in P
  BY <1>0
<1>2. ASSUME NEW d \in 1..M, d - 1 \in P PROVE d \in P
  <2>1. T + d \in (T + 1)..MaxTime /\ T + d \in 1..MaxTime /\ (T + d) - 1 = T + (d - 1)
        /\ T + (d - 1) \in 0..MaxTime
    BY <1>0
  <2>2. f[T + (d - 1)] = f[T] /\ f[T + (d - 1)] \in Nat
    BY <1>2, <2>1 DEF Runs
  <2>3. f[T + d] = More(f[T + (d - 1)], 0)
    <3>1. f[T + d] = More(f[(T + d) - 1], N[T + d]) /\ N[T + d] = 0
      BY <2>1 DEF Runs
    <3> QED BY <2>1, <3>1
  <2>4. More(f[T], 0) = f[T]
    <3> DEFINE x == f[T]
    <3>1. x \in Nat
      BY <2>2
    <3> HIDE DEF x
    <3>2. x \in Int /\ 0 \in Int /\ x + 0 = x /\ x >= 0
      BY <3>1
    <3>3. More(x, 0) = IF x + 0 >= 0 THEN x + 0 ELSE 0
      BY <3>2, MoreIs, Zenon
    <3>4. More(x, 0) = x
      BY <3>2, <3>3
    <3> QED BY <3>4 DEF x
  <2>5. d \in 0..M
    OBVIOUS
  <2> QED BY <2>2, <2>3, <2>4, <2>5
<1>3. 0..M \subseteq P
  <2> HIDE DEF P, M
  <2> QED BY <1>0, <1>1, <1>2, UpTo
<1>4. M \in 0..M
  BY <1>0
<1>5. f[T + M] = f[T]
  BY <1>3, <1>4
<1> QED BY <1>0, <1>5 DEF Runs

(* Two runs of trades that differ at their last instant only. *)
LEMMA RunningLast ==
  ASSUME NEW N \in [1..MaxTime -> Int], NEW O \in [1..MaxTime -> Int], NEW T \in 1..MaxTime,
         \A t \in 1..(T - 1) : N[t] = O[t],
         \A t \in (T + 1)..MaxTime : N[t] = 0 /\ O[t] = 0
  PROVE  \E x \in Nat : Running(N) = More(x, N[T]) /\ Running(O) = More(x, O[T])
<1>1. PICK f : Runs(N, f) /\ Running(N) = f[MaxTime]
  BY RunningIs
<1>2. PICK g : Runs(O, g) /\ Running(O) = g[MaxTime]
  BY RunningIs
<1>3. f[MaxTime] = f[T] /\ g[MaxTime] = g[T]
  BY <1>1, <1>2, RunsRest
<1>4. f[T - 1] = g[T - 1] /\ f[T - 1] \in Nat
  <2>1. Runs(N, f) /\ Runs(O, g)
    BY <1>1, <1>2
  <2> QED BY <2>1, RunsAgree, Zenon
<1>5. f[T] = More(f[T - 1], N[T]) /\ g[T] = More(g[T - 1], O[T])
  BY <1>1, <1>2 DEF Runs
<1> QED BY <1>1, <1>2, <1>3, <1>4, <1>5

(* A purchase at the last instant, when nothing was sold at it, adds up. *)
LEMMA RunningBuy ==
  ASSUME NEW N \in [1..MaxTime -> Int], NEW O \in [1..MaxTime -> Int], NEW T \in 1..MaxTime,
         NEW q \in Nat, \A t \in 1..(T - 1) : N[t] = O[t], N[T] >= 0, O[T] = N[T] + q,
         \A t \in (T + 1)..MaxTime : N[t] = 0 /\ O[t] = 0
  PROVE  Running(O) = Running(N) + q /\ Running(N) \in Nat
<1>1. PICK x \in Nat : Running(N) = More(x, N[T]) /\ Running(O) = More(x, O[T])
  BY RunningLast
<1>2. x \in Int /\ N[T] \in Int /\ O[T] \in Int
  OBVIOUS
<1>3. /\ More(x, N[T]) = IF x + N[T] >= 0 THEN x + N[T] ELSE 0
      /\ More(x, O[T]) = IF x + O[T] >= 0 THEN x + O[T] ELSE 0
  BY <1>2, MoreIs, Zenon
<1> QED BY <1>1, <1>2, <1>3

(* A sale at the last instant takes off what is there at most. *)
LEMMA RunningSell ==
  ASSUME NEW N \in [1..MaxTime -> Int], NEW O \in [1..MaxTime -> Int], NEW T \in 1..MaxTime,
         NEW q \in Nat, \A t \in 1..(T - 1) : N[t] = O[t], O[T] = N[T] - q,
         \A t \in (T + 1)..MaxTime : N[t] = 0 /\ O[t] = 0
  PROVE  /\ Running(N) \in Nat
         /\ Running(O) = IF q <= Running(N) THEN Running(N) - q ELSE 0
<1>1. PICK x \in Nat : Running(N) = More(x, N[T]) /\ Running(O) = More(x, O[T])
  BY RunningLast
<1>2. x \in Int /\ N[T] \in Int /\ O[T] \in Int
  OBVIOUS
<1>3. /\ More(x, N[T]) = IF x + N[T] >= 0 THEN x + N[T] ELSE 0
      /\ More(x, O[T]) = IF x + O[T] >= 0 THEN x + O[T] ELSE 0
  BY <1>2, MoreIs, Zenon
<1> QED BY <1>1, <1>2, <1>3

-----------------------------------------------------------------------------
(* What is left of the lots, and of a symbol among the first of them. *)
LotLeft(lots) == [n \in DOMAIN lots |-> lots[n].left]
FirstOf(lots, s, k) == {n \in 1..k : lots[n].sym = s}
MatchedOf(lots, fill) == [n \in DOMAIN lots |-> Match(lots, fill, n)]

LEMMA LotsFacts ==
  ASSUME NEW lots \in Seq(Lot)
  PROVE  /\ DOMAIN lots = 1..Len(lots) /\ Len(lots) \in Nat /\ IsFiniteSet(DOMAIN lots)
         /\ \A n \in DOMAIN lots : lots[n] \in Lot /\ LotLeft(lots)[n] = lots[n].left
                                   /\ lots[n].left \in Nat /\ lots[n].price \in Nat
         /\ \A s : \A k \in 0..Len(lots) :
              FirstOf(lots, s, k) \in SUBSET DOMAIN lots /\ IsFiniteSet(FirstOf(lots, s, k))
              /\ Total(LotLeft(lots), FirstOf(lots, s, k)) \in Nat
<1>1. DOMAIN lots = 1..Len(lots) /\ Len(lots) \in Nat
  OBVIOUS
<1>2. IsFiniteSet(DOMAIN lots)
  BY <1>1, FS_Interval
<1>3. \A n \in DOMAIN lots : lots[n] \in Lot /\ LotLeft(lots)[n] = lots[n].left
                             /\ lots[n].left \in Nat /\ lots[n].price \in Nat
  <2> TAKE n \in DOMAIN lots
  <2>1. lots[n] \in Lot
    OBVIOUS
  <2>2. LotLeft(lots)[n] = lots[n].left
    BY DEF LotLeft
  <2> QED BY <2>1, <2>2 DEF Lot
<1>4. ASSUME NEW s, NEW k \in 0..Len(lots)
      PROVE  FirstOf(lots, s, k) \in SUBSET DOMAIN lots /\ IsFiniteSet(FirstOf(lots, s, k))
             /\ Total(LotLeft(lots), FirstOf(lots, s, k)) \in Nat
  <2>1. FirstOf(lots, s, k) \in SUBSET DOMAIN lots
    BY <1>1 DEF FirstOf
  <2>2. IsFiniteSet(FirstOf(lots, s, k))
    BY <1>2, <2>1, FS_Subset
  <2>3. \A n \in FirstOf(lots, s, k) : LotLeft(lots)[n] \in Nat
    BY <1>3, <2>1
  <2>4. Total(LotLeft(lots), FirstOf(lots, s, k)) \in Nat
    BY <2>2, <2>3, TotalNat
  <2> QED BY <2>1, <2>2, <2>4
<1> QED BY <1>1, <1>2, <1>3, <1>4

LEMMA MatchIs ==
  ASSUME NEW lots \in Seq(Lot), NEW fill \in Entry, NEW n \in DOMAIN lots,
         NEW r, r = fill.qty - Total(LotLeft(lots), FirstOf(lots, fill.sym, n - 1))
  PROVE  /\ Match(lots, fill, n) = IF lots[n].sym # fill.sym \/ r <= 0 THEN 0
                                   ELSE IF r <= lots[n].left THEN r ELSE lots[n].left
         /\ Match(lots, fill, n) \in Nat /\ Match(lots, fill, n) <= lots[n].left
<1> DEFINE Ahead == {m \in 1..(n - 1) : lots[m].sym = fill.sym}
           F == [m \in Ahead |-> lots[m].left]
           x == lots[n].left
<1>1. n \in 1..Len(lots) /\ n - 1 \in 0..Len(lots)
  BY LotsFacts
<1>2. Ahead = FirstOf(lots, fill.sym, n - 1)
  BY DEF FirstOf
<1>3. SumOf(F) = Total(LotLeft(lots), FirstOf(lots, fill.sym, n - 1))
  <2>1. Ahead \in SUBSET DOMAIN lots /\ IsFiniteSet(Ahead)
    BY <1>1, <1>2, LotsFacts
  <2>2. \A m \in Ahead : F[m] = LotLeft(lots)[m]
    BY <2>1, LotsFacts
  <2>3. SumOf(F) = Total(F, Ahead)
    BY DEF SumOf, Total
  <2>4. Total(F, Ahead) = Total(LotLeft(lots), Ahead)
    <3> HIDE DEF F, Ahead
    <3> QED BY <2>1, <2>2, TotalSame
  <2> QED BY <1>2, <2>3, <2>4
<1>4. r = fill.qty - SumOf(F)
  BY <1>3
<1>5. Match(lots, fill, n) = IF lots[n].sym # fill.sym THEN 0 ELSE Min({x, Max({0, r})})
  BY <1>4 DEF Match
<1>6. x \in Nat
  BY LotsFacts
<1>7. r \in Int
  <2>1. Total(LotLeft(lots), FirstOf(lots, fill.sym, n - 1)) \in Nat
    BY <1>1, LotsFacts
  <2>2. fill.qty \in Nat
    BY DEF Entry
  <2> QED BY <2>1, <2>2
<1> HIDE DEF x, F, Ahead
<1> DEFINE y == Max({0, r})
<1>8. y = IF r <= 0 THEN 0 ELSE r
  <2>1. r <= 0 => Max({0, r}) = 0
    BY <1>7 DEF Max
  <2>2. ~(r <= 0) => Max({0, r}) = r
    BY <1>7 DEF Max
  <2> QED BY <2>1, <2>2
<1>9. y \in Nat
  <2> HIDE DEF y
  <2> QED BY <1>7, <1>8
<1> HIDE DEF y
<1>10. Min({x, y}) = IF y <= x THEN y ELSE x
  <2>1. y <= x => Min({x, y}) = y
    BY <1>6, <1>9 DEF Min
  <2>2. ~(y <= x) => Min({x, y}) = x
    BY <1>6, <1>9 DEF Min
  <2> QED BY <2>1, <2>2
<1>11. Match(lots, fill, n) = IF lots[n].sym # fill.sym THEN 0 ELSE IF y <= x THEN y ELSE x
  BY <1>5, <1>10 DEF y
<1>12. /\ Match(lots, fill, n) = IF lots[n].sym # fill.sym \/ r <= 0 THEN 0
                                 ELSE IF r <= x THEN r ELSE x
       /\ Match(lots, fill, n) \in Nat /\ Match(lots, fill, n) <= x
  BY <1>6, <1>7, <1>8, <1>9, <1>11
<1> QED BY <1>12 DEF x

(* All that is matched of a symbol is the fill, or what there is. *)
LEMMA MatchedTotal ==
  ASSUME NEW lots \in Seq(Lot), NEW fill \in Entry
  PROVE  LET all == FirstOf(lots, fill.sym, Len(lots))
             l   == Total(LotLeft(lots), all)
         IN Total(MatchedOf(lots, fill), all) = IF fill.qty <= l THEN fill.qty ELSE l
<1> DEFINE s == fill.sym
           L(k) == Total(LotLeft(lots), FirstOf(lots, s, k))
           M(k) == Total(MatchedOf(lots, fill), FirstOf(lots, s, k))
           P == {k \in 0..Len(lots) : M(k) = IF fill.qty <= L(k) THEN fill.qty ELSE L(k)}
<1>0. fill.qty \in Nat /\ Len(lots) \in Nat /\ DOMAIN lots = 1..Len(lots)
  BY LotsFacts DEF Entry
<1>1. 0 \in P
  <2>1. FirstOf(lots, s, 0) = {}
    BY DEF FirstOf
  <2>2. L(0) = 0 /\ M(0) = 0
    BY <2>1, FS_EmptySet, TotalRecursion
  <2> HIDE DEF L, M, s
  <2> QED BY <1>0, <2>2
<1>2. ASSUME NEW k \in 1..Len(lots), k - 1 \in P PROVE k \in P
  <2>1. k \in DOMAIN lots /\ k \in Nat \ {0} /\ k \in 0..Len(lots) /\ k - 1 \in 0..Len(lots)
    BY <1>0
  <2>2. M(k - 1) = IF fill.qty <= L(k - 1) THEN fill.qty ELSE L(k - 1)
    BY <1>2
  <2>3. L(k - 1) \in Nat /\ L(k) \in Nat
    BY <2>1, LotsFacts
  <2> DEFINE A == FirstOf(lots, s, k - 1)
             x == lots[k].left
             m == Match(lots, fill, k)
             r == fill.qty - L(k - 1)
  <2>4. r \in Int
    <3> HIDE DEF L
    <3> QED BY <1>0, <2>3
  <2>5. /\ m = IF lots[k].sym # s \/ r <= 0 THEN 0 ELSE IF r <= x THEN r ELSE x
        /\ m \in Nat /\ m <= x
    <3> HIDE DEF r
    <3>1. r = fill.qty - Total(LotLeft(lots), FirstOf(lots, fill.sym, k - 1))
      BY DEF r
    <3> QED BY <2>1, <3>1, MatchIs
  <2>6. x \in Nat
    BY <2>1, LotsFacts
  <2>7. A \in SUBSET DOMAIN lots /\ IsFiniteSet(A) /\ k \notin A
    <3>1. k \notin A
      BY <2>1 DEF FirstOf
    <3> QED BY <2>1, <3>1, LotsFacts
  <2>8. \A n \in DOMAIN lots : /\ MatchedOf(lots, fill)[n] = Match(lots, fill, n)
                               /\ Match(lots, fill, n) \in Int
                               /\ LotLeft(lots)[n] = lots[n].left /\ lots[n].left \in Int
    <3> TAKE n \in DOMAIN lots
    <3>1. Match(lots, fill, n) \in Nat
      BY MatchIs
    <3>2. LotLeft(lots)[n] = lots[n].left /\ lots[n].left \in Nat
      BY LotsFacts
    <3>3. MatchedOf(lots, fill)[n] = Match(lots, fill, n)
      BY DEF MatchedOf
    <3> QED BY <3>1, <3>2, <3>3
  <2>9. CASE lots[k].sym # s
    <3>1. FirstOf(lots, s, k) = A
      BY <2>1, <2>9 DEF FirstOf
    <3>2. L(k) = L(k - 1) /\ M(k) = M(k - 1)
      BY <3>1
    <3> HIDE DEF L, M
    <3> QED BY <2>1, <2>2, <3>2
  <2>10. CASE lots[k].sym = s
    <3>1. FirstOf(lots, s, k) = A \cup {k}
      BY <2>1, <2>10 DEF FirstOf
    <3>2. L(k) = L(k - 1) + x /\ M(k) = M(k - 1) + m
      <4>1. \A n \in A \cup {k} : n \in DOMAIN lots
        BY <2>1, <2>7
      <4>2. Total(LotLeft(lots), A \cup {k}) = Total(LotLeft(lots), A) + LotLeft(lots)[k]
        <5>1. \A n \in A \cup {k} : LotLeft(lots)[n] \in Int
          BY <2>8, <4>1
        <5> HIDE DEF A
        <5> QED BY <2>7, <5>1, TotalAdd
      <4>3. Total(MatchedOf(lots, fill), A \cup {k})
              = Total(MatchedOf(lots, fill), A) + MatchedOf(lots, fill)[k]
        <5>1. \A n \in A \cup {k} : MatchedOf(lots, fill)[n] \in Int
          BY <2>8, <4>1
        <5> HIDE DEF A
        <5> QED BY <2>7, <5>1, TotalAdd
      <4>4. LotLeft(lots)[k] = x /\ MatchedOf(lots, fill)[k] = m
        BY <2>1, <2>8
      <4> QED BY <3>1, <4>2, <4>3, <4>4
    <3>3. m = IF r <= 0 THEN 0 ELSE IF r <= x THEN r ELSE x
      BY <2>5, <2>10
    <3>4. M(k) = IF fill.qty <= L(k) THEN fill.qty ELSE L(k)
      <4>1. r = fill.qty - L(k - 1)
        OBVIOUS
      <4> HIDE DEF L, M, m, x, r
      <4> QED BY <1>0, <2>2, <2>3, <2>4, <2>6, <3>2, <3>3, <4>1
    <3> HIDE DEF L, M
    <3> QED BY <2>1, <3>4
  <2> QED BY <2>9, <2>10
<1>3. 0..Len(lots) \subseteq P
  <2> HIDE DEF P
  <2> QED BY <1>0, <1>1, <1>2, UpTo
<1>4. Len(lots) \in P
  <2> HIDE DEF P
  <2> QED BY <1>0, <1>3
<1> QED BY <1>4

-----------------------------------------------------------------------------
QtyOf  == [i \in DOMAIN ledger |-> ledger[i].qty]
PaidOf == [i \in DOMAIN ledger |-> ledger[i].qty * ledger[i].price]

TradedAt(S, s, side, t) ==
  {i \in S : ledger[i].sym = s /\ ledger[i].side = side /\ ledger[i].time = t}
Amount(S, s, side, t) == Total(QtyOf, TradedAt(S, s, side, t))
NetOf(S, s) == [t \in 1..MaxTime |-> Amount(S, s, "buy", t) - Amount(S, s, "sell", t)]

LEMMA EntryFacts ==
  ASSUME LedgerTyped, NEW i \in DOMAIN ledger
  PROVE  /\ ledger[i] \in Entry /\ ledger[i].sym \in Tickers
         /\ ledger[i].side \in {"buy", "sell", "unknown"}
         /\ ledger[i].qty \in Nat /\ ledger[i].price \in Nat /\ ledger[i].time \in 1..MaxTime
         /\ QtyOf[i] = ledger[i].qty /\ PaidOf[i] = ledger[i].qty * ledger[i].price
<1>1. ledger[i] \in Entry
  BY EntriesFinite
<1>2. QtyOf[i] = ledger[i].qty /\ PaidOf[i] = ledger[i].qty * ledger[i].price
  BY DEF QtyOf, PaidOf
<1> QED BY <1>1, <1>2 DEF Entry

LEMMA AmountFacts ==
  ASSUME LedgerTyped, NEW S \in SUBSET DOMAIN ledger, NEW s, NEW side, NEW t
  PROVE  /\ TradedAt(S, s, side, t) \in SUBSET DOMAIN ledger
         /\ IsFiniteSet(TradedAt(S, s, side, t)) /\ Amount(S, s, side, t) \in Nat
<1>1. TradedAt(S, s, side, t) \in SUBSET DOMAIN ledger
  BY DEF TradedAt
<1>2. IsFiniteSet(TradedAt(S, s, side, t))
  BY <1>1, EntriesFinite
<1>3. \A i \in TradedAt(S, s, side, t) : QtyOf[i] \in Nat
  BY <1>1, EntryFacts
<1> QED BY <1>1, <1>2, <1>3, TotalNat DEF Amount

LEMMA NetType ==
  ASSUME LedgerTyped, NEW S \in SUBSET DOMAIN ledger, NEW s
  PROVE  NetOf(S, s) \in [1..MaxTime -> Int]
<1>1. \A t \in 1..MaxTime : Amount(S, s, "buy", t) - Amount(S, s, "sell", t) \in Int
  <2> TAKE t \in 1..MaxTime
  <2>1. Amount(S, s, "buy", t) \in Nat /\ Amount(S, s, "sell", t) \in Nat
    BY AmountFacts
  <2> QED BY <2>1
<1> QED BY <1>1 DEF NetOf

(* The amount at an instant, with the last entry and without it. *)
LEMMA AmountStep ==
  ASSUME LedgerTyped, NEW T \in SUBSET DOMAIN ledger, NEW x \in T, NEW s, NEW side, NEW t
  PROVE  Amount(T, s, side, t)
           = IF ledger[x].sym = s /\ ledger[x].side = side /\ ledger[x].time = t
             THEN Amount(T \ {x}, s, side, t) + ledger[x].qty
             ELSE Amount(T \ {x}, s, side, t)
<1> DEFINE A == TradedAt(T \ {x}, s, side, t)
<1>1. A \in SUBSET DOMAIN ledger /\ IsFiniteSet(A) /\ x \notin A
  <2>1. T \ {x} \in SUBSET DOMAIN ledger
    OBVIOUS
  <2>2. x \notin A
    BY DEF TradedAt
  <2> QED BY <2>1, <2>2, AmountFacts
<1>2. CASE ledger[x].sym = s /\ ledger[x].side = side /\ ledger[x].time = t
  <2>1. TradedAt(T, s, side, t) = A \cup {x}
    BY <1>2 DEF TradedAt
  <2>2. \A i \in A \cup {x} : QtyOf[i] \in Int
    BY <1>1, EntryFacts
  <2>3. QtyOf[x] = ledger[x].qty
    BY EntryFacts
  <2>4. Total(QtyOf, A \cup {x}) = Total(QtyOf, A) + QtyOf[x]
    <3> HIDE DEF A
    <3> QED BY <1>1, <2>2, TotalAdd
  <2> QED BY <1>2, <2>1, <2>3, <2>4 DEF Amount
<1>3. CASE ~(ledger[x].sym = s /\ ledger[x].side = side /\ ledger[x].time = t)
  <2>1. TradedAt(T, s, side, t) = A
    BY <1>3 DEF TradedAt
  <2> QED BY <1>3, <2>1 DEF Amount
<1> QED BY <1>2, <1>3

(* The running position, with the last entry and without it: nothing comes *)
(* after it, and no sale of its instant before a purchase.                 *)
LEMMA RunningStep ==
  ASSUME LedgerTyped, NEW T \in SUBSET DOMAIN ledger, NEW x \in T,
         \A j \in T : ~FillBefore(ledger[x], ledger[j]), NEW s
  PROVE  LET n == Running(NetOf(T \ {x}, s))
             q == ledger[x].qty
         IN /\ n \in Nat
            /\ Running(NetOf(T, s))
                 = CASE ledger[x].sym = s /\ ledger[x].side = "buy" -> n + q
                     [] ledger[x].sym = s /\ ledger[x].side = "sell" -> IF q <= n THEN n - q ELSE 0
                     [] OTHER -> n
<1> DEFINE U == T \ {x}
           N == NetOf(U, s)
           O == NetOf(T, s)
           i == ledger[x].time
           q == ledger[x].qty
<1>1. N \in [1..MaxTime -> Int] /\ O \in [1..MaxTime -> Int] /\ i \in 1..MaxTime /\ q \in Nat
  BY NetType, EntryFacts
<1>2. \A j \in T : ledger[j].time <= i
  <2> TAKE j \in T
  <2>1. ledger[j].time \in 1..MaxTime /\ ~(i < ledger[j].time)
    BY EntryFacts DEF FillBefore
  <2> QED BY <1>1, <2>1
<1>3. \A t \in (i + 1)..MaxTime : N[t] = 0 /\ O[t] = 0
  <2> TAKE t \in (i + 1)..MaxTime
  <2>1. t \in 1..MaxTime /\ t > i
    BY <1>1
  <2>2. \A side : TradedAt(T, s, side, t) = {} /\ TradedAt(U, s, side, t) = {}
    BY <1>1, <1>2, <2>1 DEF TradedAt
  <2>3. Total(QtyOf, {}) = 0
    BY FS_EmptySet, TotalRecursion
  <2>4. \A side : Amount(T, s, side, t) = 0 /\ Amount(U, s, side, t) = 0
    BY <2>2, <2>3 DEF Amount
  <2> QED BY <2>1, <2>4 DEF NetOf
<1>4. \A t \in 1..MaxTime :
        /\ N[t] = Amount(U, s, "buy", t) - Amount(U, s, "sell", t)
        /\ O[t] = Amount(T, s, "buy", t) - Amount(T, s, "sell", t)
        /\ Amount(U, s, "buy", t) \in Nat /\ Amount(U, s, "sell", t) \in Nat
  <2>1. U \in SUBSET DOMAIN ledger
    OBVIOUS
  <2> HIDE DEF U
  <2> TAKE t \in 1..MaxTime
  <2>2. Amount(U, s, "buy", t) \in Nat /\ Amount(U, s, "sell", t) \in Nat
    BY <2>1, AmountFacts
  <2>3. /\ N[t] = Amount(U, s, "buy", t) - Amount(U, s, "sell", t)
        /\ O[t] = Amount(T, s, "buy", t) - Amount(T, s, "sell", t)
    BY DEF NetOf
  <2> HIDE DEF N, O
  <2> QED BY <2>2, <2>3
<1>5. \A t \in 1..MaxTime : t # i => N[t] = O[t]
  <2> SUFFICES ASSUME NEW t \in 1..MaxTime, t # i PROVE N[t] = O[t]
    OBVIOUS
  <2>1. /\ Amount(T, s, "buy", t) = Amount(U, s, "buy", t)
        /\ Amount(T, s, "sell", t) = Amount(U, s, "sell", t)
    BY AmountStep
  <2> HIDE DEF U, N, O
  <2> QED BY <1>4, <2>1
<1>6. \A t \in 1..(i - 1) : N[t] = O[t]
  <2> TAKE t \in 1..(i - 1)
  <2>1. t \in 1..MaxTime /\ t # i
    BY <1>1, MaxTimeIs
  <2> QED BY <1>5, <2>1
<1>7. ASSUME ledger[x].sym = s, ledger[x].side = "buy"
      PROVE  O[i] = N[i] + q /\ N[i] >= 0
  <2>1. /\ Amount(T, s, "buy", i) = Amount(U, s, "buy", i) + q
        /\ Amount(T, s, "sell", i) = Amount(U, s, "sell", i)
    BY <1>7, AmountStep
  <2>2. TradedAt(U, s, "sell", i) = {}
    <3>1. ASSUME NEW j \in U, ledger[j].side = "sell", ledger[j].time = i PROVE FALSE
      <4>1. SideRank[ledger[x].side] < SideRank[ledger[j].side]
        BY <1>7, <3>1 DEF SideRank
      <4> QED BY <3>1, <4>1 DEF FillBefore
    <3> QED BY <3>1 DEF TradedAt
  <2>3. Amount(U, s, "sell", i) = 0
    BY <2>2, FS_EmptySet, TotalRecursion DEF Amount
  <2> HIDE DEF U, N, O, i, q
  <2> QED BY <1>1, <1>4, <2>1, <2>3
<1>8. ASSUME ledger[x].sym = s, ledger[x].side = "sell"
      PROVE  O[i] = N[i] - q
  <2>1. /\ Amount(T, s, "buy", i) = Amount(U, s, "buy", i)
        /\ Amount(T, s, "sell", i) = Amount(U, s, "sell", i) + q
    BY <1>8, AmountStep
  <2> HIDE DEF U, N, O, i, q
  <2> QED BY <1>1, <1>4, <2>1
<1>9. ASSUME ~(ledger[x].sym = s /\ ledger[x].side \in {"buy", "sell"})
      PROVE  O = N
  <2>1. \A t \in 1..MaxTime : /\ Amount(T, s, "buy", t) = Amount(U, s, "buy", t)
                              /\ Amount(T, s, "sell", t) = Amount(U, s, "sell", t)
    BY <1>9, AmountStep
  <2> QED BY <2>1 DEF NetOf
<1>10. Running(N) \in Nat
  <2>1. PICK f : Runs(N, f) /\ Running(N) = f[MaxTime]
    <3> HIDE DEF N
    <3> QED BY <1>1, RunningIs
  <2> HIDE DEF N
  <2> QED BY <2>1, MaxTimeIs DEF Runs
<1> HIDE DEF U, N, O, i, q
<1>11. CASE ledger[x].sym = s /\ ledger[x].side = "buy"
  <2>1. Running(O) = Running(N) + q
    BY <1>1, <1>3, <1>6, <1>7, <1>11, RunningBuy
  <2> QED BY <1>10, <1>11, <2>1 DEF U, N, O, q
<1>12. CASE ledger[x].sym = s /\ ledger[x].side = "sell"
  <2>1. Running(O) = IF q <= Running(N) THEN Running(N) - q ELSE 0
    BY <1>1, <1>3, <1>6, <1>8, <1>12, RunningSell
  <2> QED BY <1>10, <1>12, <2>1 DEF U, N, O, q
<1>13. CASE ~(ledger[x].sym = s /\ ledger[x].side \in {"buy", "sell"})
  BY <1>9, <1>10, <1>13 DEF U, N, O, q
<1> QED BY <1>11, <1>12, <1>13

-----------------------------------------------------------------------------
BookTrade == [lot : Nat, sale : Nat, qty : Nat, open : Nat, close : Nat,
              opened : 1..MaxTime, closed : 1..MaxTime]
OpenCost(lots) == [n \in DOMAIN lots |-> lots[n].left * lots[n].price]
TradeCost(deals) == [t \in deals |-> t.qty * t.open]
Purchases(S) == {i \in S : ledger[i].side = "buy"}

(* What a book keeps of the entries it is made of. *)
PositionsKept(S, lots) ==
  \A s \in Tickers :
    Total(LotLeft(lots), FirstOf(lots, s, Len(lots))) = Running(NetOf(S, s))
CostKept(S, lots, deals) ==
  Total(TradeCost(deals), deals) + Total(OpenCost(lots), DOMAIN lots)
    = Total(PaidOf, Purchases(S))
BookKept(S, kept) ==
  /\ kept \in [lots : Seq(Lot), trades : SUBSET BookTrade]
  /\ IsFiniteSet(kept.trades) /\ \A t \in kept.trades : t.sale \in S
  /\ PositionsKept(S, kept.lots)
  /\ CostKept(S, kept.lots, kept.trades)

LEMMA CostFacts ==
  ASSUME NEW lots \in Seq(Lot)
  PROVE  /\ \A n \in DOMAIN lots : OpenCost(lots)[n] = lots[n].left * lots[n].price
                                   /\ OpenCost(lots)[n] \in Nat
         /\ Total(OpenCost(lots), DOMAIN lots) \in Nat
<1>1. ASSUME NEW n \in DOMAIN lots
      PROVE  OpenCost(lots)[n] = lots[n].left * lots[n].price /\ OpenCost(lots)[n] \in Nat
  <2>1. lots[n].left \in Nat /\ lots[n].price \in Nat
    BY LotsFacts
  <2>2. lots[n].left * lots[n].price \in Nat
    BY <2>1, ProductNat
  <2> QED BY <2>2 DEF OpenCost
<1>2. Total(OpenCost(lots), DOMAIN lots) \in Nat
  BY <1>1, LotsFacts, TotalNat
<1> QED BY <1>1, <1>2

LEMMA TradeCostFacts ==
  ASSUME NEW deals \in SUBSET BookTrade, IsFiniteSet(deals)
  PROVE  /\ \A t \in deals : TradeCost(deals)[t] = t.qty * t.open /\ TradeCost(deals)[t] \in Nat
         /\ Total(TradeCost(deals), deals) \in Nat
<1>1. ASSUME NEW t \in deals
      PROVE  TradeCost(deals)[t] = t.qty * t.open /\ TradeCost(deals)[t] \in Nat
  <2>1. t.qty \in Nat /\ t.open \in Nat
    BY DEF BookTrade
  <2>2. t.qty * t.open \in Nat
    BY <2>1, ProductNat
  <2> QED BY <2>2 DEF TradeCost
<1>2. Total(TradeCost(deals), deals) \in Nat
  BY <1>1, TotalNat
<1> QED BY <1>1, <1>2

LEMMA BoughtFacts ==
  ASSUME LedgerTyped, NEW S \in SUBSET DOMAIN ledger
  PROVE  /\ Purchases(S) \in SUBSET DOMAIN ledger /\ IsFiniteSet(Purchases(S))
         /\ \A i \in DOMAIN ledger : PaidOf[i] \in Nat
         /\ Total(PaidOf, Purchases(S)) \in Nat
<1>1. Purchases(S) \in SUBSET DOMAIN ledger
  BY DEF Purchases
<1>2. IsFiniteSet(Purchases(S))
  BY <1>1, EntriesFinite
<1>3. ASSUME NEW i \in DOMAIN ledger PROVE PaidOf[i] \in Nat
  <2>1. ledger[i].qty \in Nat /\ ledger[i].price \in Nat /\ PaidOf[i] = ledger[i].qty * ledger[i].price
    BY EntryFacts
  <2> QED BY <2>1, ProductNat
<1>4. \A i \in Purchases(S) : PaidOf[i] \in Nat
  BY <1>1, <1>3
<1> QED BY <1>1, <1>2, <1>3, <1>4, TotalNat

(* The book of nothing. *)
LEMMA NoBookKept ==
  ASSUME LedgerTyped
  PROVE  BookKept({}, NoBook)
<1>0. \A F : Total(F, {}) = 0
  BY FS_EmptySet, TotalRecursion
<1>1. NoBook \in [lots : Seq(Lot), trades : SUBSET BookTrade]
  BY DEF NoBook
<1>2. NoBook.lots = <<>> /\ NoBook.trades = {} /\ Len(<<>>) = 0 /\ DOMAIN <<>> = {}
  BY DEF NoBook
<1>3. \A s : FirstOf(<<>>, s, 0) = {}
  BY DEF FirstOf
<1>4. ASSUME NEW s \in Tickers PROVE Running(NetOf({}, s)) = 0
  <2> DEFINE N == NetOf({}, s)
  <2>1. \A t \in 1..MaxTime : N[t] = 0
    <3> TAKE t \in 1..MaxTime
    <3>1. \A side : TradedAt({}, s, side, t) = {}
      BY DEF TradedAt
    <3>2. \A side : Amount({}, s, side, t) = 0
      BY <1>0, <3>1 DEF Amount
    <3>3. N[t] = Amount({}, s, "buy", t) - Amount({}, s, "sell", t)
      BY DEF NetOf
    <3> HIDE DEF N
    <3> QED BY <3>2, <3>3
  <2>2. N \in [1..MaxTime -> Int]
    <3>1. {} \in SUBSET DOMAIN ledger
      OBVIOUS
    <3> QED BY <3>1, NetType
  <2> HIDE DEF N
  <2>3. PICK f : Runs(N, f) /\ Running(N) = f[MaxTime]
    BY <2>2, RunningIs
  <2> DEFINE P == {t \in 0..MaxTime : f[t] = 0}
  <2>4. 0 \in P
    BY <2>3, MaxTimeIs DEF Runs
  <2>5. ASSUME NEW t \in 1..MaxTime, t - 1 \in P PROVE t \in P
    <3>1. t \in 0..MaxTime
      BY MaxTimeIs
    <3>2. f[t] = More(f[t - 1], N[t])
      BY <2>3 DEF Runs
    <3>3. f[t - 1] = 0 /\ N[t] = 0
      BY <2>1, <2>5
    <3>4. More(0, 0) = 0
      <4>1. 0 \in Int /\ 0 + 0 = 0 /\ 0 >= 0
        OBVIOUS
      <4>2. More(0, 0) = IF 0 + 0 >= 0 THEN 0 + 0 ELSE 0
        BY <4>1, MoreIs, Zenon
      <4> QED BY <4>2
    <3> QED BY <3>1, <3>2, <3>3, <3>4
  <2>6. 0..MaxTime \subseteq P
    <3> HIDE DEF P
    <3> QED BY <2>4, <2>5, MaxTimeIs, UpTo
  <2>7. MaxTime \in P
    <3> HIDE DEF P
    <3> QED BY <2>6, MaxTimeIs
  <2> QED BY <2>3, <2>7 DEF N
<1>5. PositionsKept({}, <<>>)
  BY <1>0, <1>2, <1>3, <1>4 DEF PositionsKept
<1>6. CostKept({}, <<>>, {})
  <2>1. Purchases({}) = {}
    BY DEF Purchases
  <2>2. /\ Total(TradeCost({}), {}) = 0 /\ Total(OpenCost(<<>>), DOMAIN <<>>) = 0
        /\ Total(PaidOf, Purchases({})) = 0
    BY <1>0, <1>2, <2>1
  <2> QED BY <2>2 DEF CostKept
<1>7. IsFiniteSet({})
  BY FS_EmptySet
<1> QED BY <1>1, <1>2, <1>5, <1>6, <1>7 DEF BookKept

(* A purchase on top. *)
LEMMA OpenedKept ==
  ASSUME LedgerTyped, NEW T \in SUBSET DOMAIN ledger, NEW x \in T,
         \A j \in T : ~FillBefore(ledger[x], ledger[j]), ledger[x].side = "buy",
         NEW b, BookKept(T \ {x}, b)
  PROVE  BookKept(T, [b EXCEPT !.lots = Opened(@, ledger[x])])
<1> DEFINE lots == b.lots
           more == Opened(lots, ledger[x])
           k == Len(lots)
           lot == [sym |-> ledger[x].sym, price |-> ledger[x].price, time |-> ledger[x].time,
                   left |-> ledger[x].qty]
           kept == [b EXCEPT !.lots = Opened(@, ledger[x])]
<1>1. /\ b \in [lots : Seq(Lot), trades : SUBSET BookTrade] /\ lots \in Seq(Lot)
      /\ b.trades \in SUBSET BookTrade /\ IsFiniteSet(b.trades)
      /\ \A t \in b.trades : t.sale \in T \ {x}
      /\ PositionsKept(T \ {x}, lots) /\ CostKept(T \ {x}, lots, b.trades)
  BY DEF BookKept
<1>2. lot \in Lot
  BY EntryFacts DEF Lot
<1>3. more = Append(lots, lot)
  BY DEF Opened
<1> HIDE DEF lot
<1>4. /\ more \in Seq(Lot) /\ Len(more) = k + 1 /\ k \in Nat /\ DOMAIN lots = 1..k
      /\ DOMAIN more = DOMAIN lots \cup {k + 1} /\ k + 1 \notin DOMAIN lots
      /\ \A n \in DOMAIN lots : more[n] = lots[n]
      /\ more[k + 1] = lot
  <2> HIDE DEF lots, more
  <2>1. lots \in Seq(Lot)
    BY <1>1
  <2>2. more \in Seq(Lot) /\ Len(more) = Len(lots) + 1 /\ Len(lots) \in Nat
        /\ DOMAIN lots = 1..Len(lots) /\ DOMAIN more = 1..(Len(lots) + 1)
        /\ (\A n \in 1..Len(lots) : more[n] = lots[n]) /\ more[Len(lots) + 1] = lot
    BY <1>2, <1>3, <2>1
  <2> QED BY <2>2
<1>5. kept \in [lots : Seq(Lot), trades : SUBSET BookTrade]
      /\ kept.lots = more /\ kept.trades = b.trades
  <2> HIDE DEF more
  <2> QED BY <1>1, <1>4 DEF more
<1> HIDE DEF more, lots, kept
<1>6. /\ \A n \in DOMAIN lots : LotLeft(more)[n] = LotLeft(lots)[n]
                                /\ OpenCost(more)[n] = OpenCost(lots)[n]
      /\ LotLeft(more)[k + 1] = ledger[x].qty
      /\ OpenCost(more)[k + 1] = ledger[x].qty * ledger[x].price
  <2>1. lot.left = ledger[x].qty /\ lot.price = ledger[x].price
    BY DEF lot
  <2> QED BY <1>4, <2>1 DEF LotLeft, OpenCost
<1>7. /\ IsFiniteSet(DOMAIN lots) /\ k \in 0..Len(lots) /\ k = Len(lots)
      /\ \A n \in DOMAIN lots : LotLeft(lots)[n] \in Nat /\ OpenCost(lots)[n] \in Nat
      /\ ledger[x].qty \in Nat /\ ledger[x].qty * ledger[x].price \in Nat
  <2>1. ledger[x].qty * ledger[x].price \in Nat
    BY EntryFacts, ProductNat
  <2>2. k \in 0..Len(lots) /\ k = Len(lots)
    BY <1>4
  <2> QED BY <1>1, <2>1, <2>2, EntryFacts, LotsFacts, CostFacts
<1> HIDE DEF k
<1>8. PositionsKept(T, more)
  <2> SUFFICES ASSUME NEW s \in Tickers
               PROVE  Total(LotLeft(more), FirstOf(more, s, k + 1)) = Running(NetOf(T, s))
    BY <1>4 DEF PositionsKept
  <2> DEFINE A == FirstOf(lots, s, k)
             n == Running(NetOf(T \ {x}, s))
  <2>1. A \in SUBSET DOMAIN lots /\ IsFiniteSet(A)
    BY <1>1, <1>7, LotsFacts
  <2>2. Total(LotLeft(lots), A) = n
    BY <1>1, <1>7 DEF PositionsKept
  <2>3. n \in Nat
    BY RunningStep
  <2>4. Total(LotLeft(more), A) = Total(LotLeft(lots), A)
    <3>1. \A m \in A : LotLeft(more)[m] = LotLeft(lots)[m]
      BY <1>6, <2>1
    <3> HIDE DEF A
    <3> QED BY <2>1, <3>1, TotalSame
  <2>5. CASE ledger[x].sym = s
    <3>1. more[k + 1].sym = s
      BY <1>4, <2>5 DEF lot
    <3>2. FirstOf(more, s, k + 1) = A \cup {k + 1}
      BY <1>4, <3>1 DEF FirstOf
    <3>3. \A m \in A \cup {k + 1} : LotLeft(more)[m] \in Int
      BY <1>6, <1>7, <2>1
    <3>4. k + 1 \notin A
      BY <1>4, <2>1
    <3>5. Total(LotLeft(more), A \cup {k + 1}) = Total(LotLeft(more), A) + LotLeft(more)[k + 1]
      <4> DEFINE a == k + 1
      <4> HIDE DEF A, a
      <4>1. a \notin A /\ \A m \in A \cup {a} : LotLeft(more)[m] \in Int
        BY <3>3, <3>4 DEF a
      <4>2. Total(LotLeft(more), A \cup {a}) = Total(LotLeft(more), A) + LotLeft(more)[a]
        BY <2>1, <4>1, TotalAdd
      <4> QED BY <4>2 DEF a
    <3>6. Running(NetOf(T, s)) = n + ledger[x].qty
      BY <2>5, RunningStep
    <3> QED BY <1>6, <2>2, <2>4, <3>2, <3>5, <3>6
  <2>6. CASE ledger[x].sym # s
    <3>1. more[k + 1].sym # s
      BY <1>4, <2>6 DEF lot
    <3>2. FirstOf(more, s, k + 1) = A
      BY <1>4, <3>1 DEF FirstOf
    <3>3. Running(NetOf(T, s)) = n
      BY <2>6, RunningStep
    <3> QED BY <2>2, <2>4, <3>2, <3>3
  <2> QED BY <2>5, <2>6
<1>9. CostKept(T, more, b.trades)
  <2>1. Total(OpenCost(more), DOMAIN more)
          = Total(OpenCost(lots), DOMAIN lots) + ledger[x].qty * ledger[x].price
    <3> DEFINE A == DOMAIN lots
               a == k + 1
    <3>1. a \notin A /\ IsFiniteSet(A) /\ DOMAIN more = A \cup {a}
          /\ OpenCost(more)[a] = ledger[x].qty * ledger[x].price
          /\ \A m \in A \cup {a} : OpenCost(more)[m] \in Int
      BY <1>4, <1>6, <1>7 DEF k
    <3>2. \A m \in A : OpenCost(more)[m] = OpenCost(lots)[m]
      BY <1>6
    <3> HIDE DEF A, a
    <3>3. Total(OpenCost(more), A \cup {a}) = Total(OpenCost(more), A) + OpenCost(more)[a]
      BY <3>1, TotalAdd
    <3>4. Total(OpenCost(more), A) = Total(OpenCost(lots), A)
      BY <3>1, <3>2, TotalSame
    <3> QED BY <3>1, <3>3, <3>4 DEF A
  <2>2. Total(PaidOf, Purchases(T)) = Total(PaidOf, Purchases(T \ {x})) + ledger[x].qty * ledger[x].price
    <3> DEFINE A == Purchases(T \ {x})
    <3>1. Purchases(T) = A \cup {x} /\ x \notin A
      BY DEF Purchases
    <3>2. A \in SUBSET DOMAIN ledger /\ IsFiniteSet(A) /\ \A i \in DOMAIN ledger : PaidOf[i] \in Nat
      <4>1. T \ {x} \in SUBSET DOMAIN ledger
        OBVIOUS
      <4> QED BY <4>1, BoughtFacts
    <3>3. \A i \in A \cup {x} : PaidOf[i] \in Int
      BY <3>2
    <3> HIDE DEF A
    <3>4. Total(PaidOf, A \cup {x}) = Total(PaidOf, A) + PaidOf[x]
      BY <3>1, <3>2, <3>3, TotalAdd
    <3>5. PaidOf[x] = ledger[x].qty * ledger[x].price
      BY EntryFacts
    <3> QED BY <3>1, <3>4, <3>5 DEF A
  <2>3. /\ Total(TradeCost(b.trades), b.trades) \in Nat
        /\ Total(OpenCost(lots), DOMAIN lots) \in Nat
    BY <1>1, TradeCostFacts, CostFacts
  <2>4. Total(TradeCost(b.trades), b.trades) + Total(OpenCost(lots), DOMAIN lots)
          = Total(PaidOf, Purchases(T \ {x}))
    BY <1>1 DEF CostKept
  <2>5. \A u, v, w \in Int : u + (v + w) = (u + v) + w
    OBVIOUS
  <2>6. Total(TradeCost(b.trades), b.trades) + Total(OpenCost(more), DOMAIN more)
          = Total(PaidOf, Purchases(T))
    BY <1>7, <2>1, <2>2, <2>3, <2>4, <2>5
  <2> QED BY <2>6 DEF CostKept
<1>10. \A t \in b.trades : t.sale \in T
  BY <1>1
<1>11. BookKept(T, kept)
  BY <1>1, <1>5, <1>8, <1>9, <1>10 DEF BookKept
<1> QED BY <1>11 DEF kept

(* What a sale leaves of the lots, and the trades it makes. *)
LEMMA ClosedFacts ==
  ASSUME NEW lots \in Seq(Lot), NEW fill \in Entry
  PROVE  LET left == Closed(lots, fill)
         IN /\ left \in Seq(Lot) /\ Len(left) = Len(lots) /\ DOMAIN left = DOMAIN lots
            /\ \A n \in DOMAIN lots :
                 /\ left[n].sym = lots[n].sym /\ left[n].price = lots[n].price
                 /\ left[n].left = lots[n].left - Match(lots, fill, n)
                 /\ Match(lots, fill, n) \in Nat
                 /\ lots[n].sym # fill.sym => Match(lots, fill, n) = 0
                 /\ MatchedOf(lots, fill)[n] = Match(lots, fill, n)
<1> DEFINE left == Closed(lots, fill)
           lot(n) == [lots[n] EXCEPT !.left = lots[n].left - Match(lots, fill, n)]
<1>1. ASSUME NEW n \in DOMAIN lots
      PROVE  /\ lot(n) \in Lot /\ lot(n).sym = lots[n].sym /\ lot(n).price = lots[n].price
             /\ lot(n).left = lots[n].left - Match(lots, fill, n)
             /\ Match(lots, fill, n) \in Nat
             /\ lots[n].sym # fill.sym => Match(lots, fill, n) = 0
  <2> DEFINE r == fill.qty - Total(LotLeft(lots), FirstOf(lots, fill.sym, n - 1))
  <2>1. /\ Match(lots, fill, n) = IF lots[n].sym # fill.sym \/ r <= 0 THEN 0
                                  ELSE IF r <= lots[n].left THEN r ELSE lots[n].left
        /\ Match(lots, fill, n) \in Nat /\ Match(lots, fill, n) <= lots[n].left
    BY MatchIs
  <2> HIDE DEF r
  <2> DEFINE m == Match(lots, fill, n)
  <2>2. lots[n] \in Lot /\ m \in Nat /\ m <= lots[n].left /\ lots[n].left \in Nat
    BY <2>1, LotsFacts
  <2>3. lots[n].sym # fill.sym => m = 0
    BY <2>1
  <2> HIDE DEF m
  <2>4. lots[n].left - m \in Nat
    BY <2>2
  <2> DEFINE y == lots[n].left - m
  <2> HIDE DEF y
  <2>5. /\ [lots[n] EXCEPT !.left = y] \in Lot
        /\ [lots[n] EXCEPT !.left = y].sym = lots[n].sym
        /\ [lots[n] EXCEPT !.left = y].price = lots[n].price
        /\ [lots[n] EXCEPT !.left = y].left = y
    BY <2>2, <2>4 DEF Lot, y
  <2> QED BY <2>2, <2>3, <2>5 DEF m, y
<1>2. left = [n \in DOMAIN lots |-> lot(n)]
  BY DEF Closed
<1> HIDE DEF left, lot
<1>3. DOMAIN lots = 1..Len(lots) /\ Len(lots) \in Nat
  BY LotsFacts
<1>4. left \in [1..Len(lots) -> Lot]
  BY <1>1, <1>2, <1>3
<1>5. left \in Seq(Lot) /\ Len(left) = Len(lots)
  BY <1>3, <1>4
<1>6. \A n \in DOMAIN lots : left[n] = lot(n)
  BY <1>2
<1>7. \A n \in DOMAIN lots : MatchedOf(lots, fill)[n] = Match(lots, fill, n)
  BY DEF MatchedOf
<1>8. DOMAIN left = DOMAIN lots
  BY <1>2
<1> QED BY <1>1, <1>5, <1>6, <1>7, <1>8 DEF left

LEMMA TradesFacts ==
  ASSUME LedgerTyped, NEW lots \in Seq(Lot), NEW x \in DOMAIN ledger
  PROVE  LET new  == NewTrades(lots, x)
             cost == [n \in DOMAIN lots |-> Match(lots, ledger[x], n) * lots[n].price]
         IN /\ new \in SUBSET BookTrade /\ IsFiniteSet(new) /\ \A t \in new : t.sale = x
            /\ Total(TradeCost(new), new) = Total(cost, DOMAIN lots)
            /\ \A n \in DOMAIN lots : cost[n] \in Nat
<1> DEFINE new  == NewTrades(lots, x)
           fill == ledger[x]
           cost == [n \in DOMAIN lots |-> Match(lots, fill, n) * lots[n].price]
           I == {n \in DOMAIN lots : Match(lots, fill, n) > 0}
           trade(n) == [lot |-> n, sale |-> x, qty |-> Match(lots, fill, n),
                        open |-> lots[n].price, close |-> fill.price,
                        opened |-> lots[n].time, closed |-> fill.time]
           h == [n \in I |-> trade(n)]
<1>0. fill \in Entry /\ DOMAIN lots = 1..Len(lots) /\ IsFiniteSet(DOMAIN lots) /\ x \in Nat
      /\ fill.price \in Nat /\ fill.time \in 1..MaxTime
  BY EntryFacts, LotsFacts, EntriesFinite
<1>1. \A n \in DOMAIN lots : /\ Match(lots, fill, n) \in Nat /\ lots[n].price \in Nat
                             /\ lots[n].time \in 1..MaxTime /\ n \in Nat
  <2> TAKE n \in DOMAIN lots
  <2>1. Match(lots, fill, n) \in Nat
    <3> HIDE DEF fill
    <3> QED BY <1>0, ClosedFacts
  <2>2. lots[n] \in Lot /\ n \in Nat
    BY <1>0, LotsFacts
  <2> QED BY <2>1, <2>2 DEF Lot
<1>2. \A n \in DOMAIN lots : cost[n] = Match(lots, fill, n) * lots[n].price /\ cost[n] \in Nat
  <2> TAKE n \in DOMAIN lots
  <2>1. Match(lots, fill, n) * lots[n].price \in Nat
    BY <1>1, ProductNat
  <2> QED BY <2>1
<1>3. I \in SUBSET DOMAIN lots /\ IsFiniteSet(I)
  BY <1>0, FS_Subset
<1>4. new = {h[n] : n \in I}
  <2>1. new = {trade(n) : n \in I}
    BY DEF NewTrades
  <2>2. \A n \in I : h[n] = trade(n)
    OBVIOUS
  <2> HIDE DEF trade, I, h
  <2> QED BY <2>1, <2>2
<1>5. \A n \in I : /\ h[n] = trade(n) /\ h[n] \in BookTrade /\ h[n].sale = x /\ h[n].lot = n
                   /\ h[n].qty * h[n].open = Match(lots, fill, n) * lots[n].price
  <2> TAKE n \in I
  <2>1. h[n] = trade(n) /\ n \in DOMAIN lots
    OBVIOUS
  <2> HIDE DEF h, I
  <2>2. trade(n) \in BookTrade
    <3> DEFINE m == Match(lots, fill, n)
    <3>1. m \in Nat /\ lots[n].price \in Nat /\ lots[n].time \in 1..MaxTime /\ n \in Nat
      BY <1>1, <2>1
    <3> HIDE DEF m, fill
    <3> QED BY <1>0, <3>1 DEF BookTrade, m
  <2> QED BY <2>1, <2>2
<1> HIDE DEF h, trade
<1>6. new \in SUBSET BookTrade /\ \A t \in new : t.sale = x
  BY <1>4, <1>5
<1>7. IsFiniteSet(new)
  <2> HIDE DEF new, I
  <2> QED BY <1>3, <1>4, ImageFinite
<1>8. Total(TradeCost(new), new) = Total(cost, I)
  <2>1. \A i, j \in I : h[i] = h[j] => i = j
    BY <1>5
  <2>2. \A n \in I : cost[n] = TradeCost(new)[h[n]] /\ cost[n] \in Int
    <3> TAKE n \in I
    <3>1. h[n] \in new
      BY <1>4
    <3>2. TradeCost(new)[h[n]] = h[n].qty * h[n].open
      BY <3>1 DEF TradeCost
    <3>3. cost[n] = Match(lots, fill, n) * lots[n].price /\ cost[n] \in Nat
      BY <1>2, <1>3
    <3> HIDE DEF cost, new, I
    <3> QED BY <1>5, <3>2, <3>3
  <2>3. Total(TradeCost(new), {h[n] : n \in I}) = Total(cost, I)
    <3> HIDE DEF cost, new, I
    <3> QED BY <1>3, <2>1, <2>2, TotalRenamed
  <2> QED BY <1>4, <2>3
<1>9. Total(cost, I) = Total(cost, DOMAIN lots)
  <2>1. \A n \in DOMAIN lots \ I : cost[n] = 0
    <3> TAKE n \in DOMAIN lots \ I
    <3>1. Match(lots, fill, n) = 0 /\ lots[n].price \in Nat
      BY <1>1
    <3>2. \A p \in Nat : 0 * p = 0
      OBVIOUS
    <3>3. cost[n] = Match(lots, fill, n) * lots[n].price
      BY <1>2
    <3> QED BY <3>1, <3>2, <3>3
  <2>2. \A n \in DOMAIN lots : cost[n] \in Int
    BY <1>2
  <2> HIDE DEF cost, I
  <2> QED BY <1>0, <1>3, <2>1, <2>2, TotalRest
<1> QED BY <1>2, <1>6, <1>7, <1>8, <1>9

(* A sale on top. *)
LEMMA ClosedKept ==
  ASSUME LedgerTyped, NEW T \in SUBSET DOMAIN ledger, NEW x \in T,
         \A j \in T : ~FillBefore(ledger[x], ledger[j]), ledger[x].side = "sell",
         NEW b, BookKept(T \ {x}, b)
  PROVE  BookKept(T, [lots   |-> Closed(b.lots, ledger[x]),
                      trades |-> b.trades \cup NewTrades(b.lots, x)])
<1> DEFINE lots == b.lots
           fill == ledger[x]
           left == Closed(lots, fill)
           new  == NewTrades(lots, x)
           k    == Len(lots)
           cost == [n \in DOMAIN lots |-> Match(lots, fill, n) * lots[n].price]
<1>1. /\ lots \in Seq(Lot) /\ fill \in Entry /\ x \in DOMAIN ledger
      /\ b.trades \in SUBSET BookTrade /\ IsFiniteSet(b.trades)
      /\ \A t \in b.trades : t.sale \in T \ {x}
      /\ PositionsKept(T \ {x}, lots) /\ CostKept(T \ {x}, lots, b.trades)
  BY EntryFacts DEF BookKept
<1> HIDE DEF lots, fill
<1>2. /\ left \in Seq(Lot) /\ Len(left) = Len(lots) /\ DOMAIN left = DOMAIN lots
      /\ \A n \in DOMAIN lots :
           /\ left[n].sym = lots[n].sym /\ left[n].price = lots[n].price
           /\ left[n].left = lots[n].left - Match(lots, fill, n)
           /\ Match(lots, fill, n) \in Nat
           /\ lots[n].sym # fill.sym => Match(lots, fill, n) = 0
           /\ MatchedOf(lots, fill)[n] = Match(lots, fill, n)
  BY <1>1, ClosedFacts
<1>3. /\ new \in SUBSET BookTrade /\ IsFiniteSet(new) /\ \A t \in new : t.sale = x
      /\ Total(TradeCost(new), new) = Total(cost, DOMAIN lots)
      /\ \A n \in DOMAIN lots : cost[n] \in Nat
  <2>1. fill = ledger[x]
    BY DEF fill
  <2> QED BY <1>1, <2>1, TradesFacts
<1>4. /\ DOMAIN lots = 1..k /\ k \in Nat /\ IsFiniteSet(DOMAIN lots) /\ k \in 0..Len(lots)
      /\ \A n \in DOMAIN lots : LotLeft(lots)[n] = lots[n].left /\ lots[n].left \in Nat
                                /\ lots[n].price \in Nat
      /\ \A n \in DOMAIN lots : LotLeft(left)[n] = left[n].left /\ left[n].left \in Nat
  <2>1. \A n \in DOMAIN left : LotLeft(left)[n] = left[n].left /\ left[n].left \in Nat
    <3> HIDE DEF left
    <3> QED BY <1>2, LotsFacts
  <2>2. k \in 0..Len(lots)
    BY <1>1, LotsFacts
  <2> QED BY <1>1, <1>2, <2>1, <2>2, LotsFacts
<1>5. \A n \in DOMAIN lots :
        /\ LotLeft(lots)[n] = LotLeft(left)[n] + MatchedOf(lots, fill)[n]
        /\ LotLeft(left)[n] \in Int /\ MatchedOf(lots, fill)[n] \in Int
  <2> HIDE DEF left
  <2> QED BY <1>2, <1>4
<1>6. PositionsKept(T, left)
  <2> SUFFICES ASSUME NEW s \in Tickers
               PROVE  Total(LotLeft(left), FirstOf(left, s, k)) = Running(NetOf(T, s))
    BY <1>2 DEF PositionsKept
  <2> DEFINE A == FirstOf(lots, s, k)
             n == Running(NetOf(T \ {x}, s))
             q == fill.qty
             l == Total(LotLeft(left), A)
             m == Total(MatchedOf(lots, fill), A)
  <2>1. A \in SUBSET DOMAIN lots /\ IsFiniteSet(A)
    BY <1>1, <1>4, LotsFacts
  <2>2. FirstOf(left, s, k) = A
    <3> HIDE DEF left
    <3> QED BY <1>2, <1>4 DEF FirstOf
  <2>3. Total(LotLeft(lots), A) = n
    BY <1>1 DEF PositionsKept
  <2>4. n \in Nat /\ q \in Nat
    BY <1>1, RunningStep DEF Entry
  <2>5. Total(LotLeft(lots), A) = l + m
    <3>1. \A i \in A : /\ LotLeft(lots)[i] = LotLeft(left)[i] + MatchedOf(lots, fill)[i]
                       /\ LotLeft(left)[i] \in Int /\ MatchedOf(lots, fill)[i] \in Int
      BY <1>5, <2>1
    <3> HIDE DEF A, left
    <3> QED BY <2>1, <3>1, TotalPlus
  <2>6. l \in Int /\ m \in Int
    <3>1. \A i \in A : LotLeft(left)[i] \in Int /\ MatchedOf(lots, fill)[i] \in Int
      BY <1>5, <2>1
    <3> HIDE DEF A, left
    <3> QED BY <2>1, <3>1, TotalType
  <2>7. CASE fill.sym = s
    <3>1. m = IF q <= n THEN q ELSE n
      BY <1>1, <2>3, <2>7, MatchedTotal
    <3>2. Running(NetOf(T, s)) = IF q <= n THEN n - q ELSE 0
      <4>1. ledger[x].sym = s /\ ledger[x].qty = q /\ ledger[x].side # "buy"
        BY <2>7 DEF fill
      <4> QED BY <4>1, RunningStep
    <3>3. l = IF q <= n THEN n - q ELSE 0
      <4> HIDE DEF l, m, n, q
      <4> QED BY <2>3, <2>4, <2>5, <2>6, <3>1
    <3> QED BY <2>2, <3>2, <3>3
  <2>8. CASE fill.sym # s
    <3>1. m = 0
      <4>1. \A i \in A : lots[i].sym = s
        BY DEF FirstOf
      <4>2. \A i \in A : MatchedOf(lots, fill)[i] = 0
        BY <1>2, <2>1, <2>8, <4>1
      <4> HIDE DEF A
      <4> QED BY <2>1, <4>2, TotalZero
    <3>2. Running(NetOf(T, s)) = n
      BY <2>8, RunningStep DEF fill
    <3>3. l = n
      <4> HIDE DEF l, m, n
      <4> QED BY <2>3, <2>4, <2>5, <2>6, <3>1
    <3> QED BY <2>2, <3>2, <3>3
  <2> QED BY <2>7, <2>8
<1>7. CostKept(T, left, b.trades \cup new)
  <2> DEFINE all == b.trades \cup new
  <2>1. all \in SUBSET BookTrade /\ IsFiniteSet(all) /\ b.trades \cap new = {}
    <3> HIDE DEF new
    <3> QED BY <1>1, <1>3, FS_Union
  <2>2. Total(TradeCost(all), all)
          = Total(TradeCost(b.trades), b.trades) + Total(TradeCost(new), new)
    <3>1. \A t \in b.trades : TradeCost(all)[t] = TradeCost(b.trades)[t]
      BY DEF TradeCost
    <3>2. \A t \in new : TradeCost(all)[t] = TradeCost(new)[t]
      BY DEF TradeCost
    <3>3. \A t \in all : TradeCost(all)[t] \in Int
      <4>1. \A t \in all : TradeCost(all)[t] \in Nat
        <5> HIDE DEF all
        <5> QED BY <2>1, TradeCostFacts
      <4> QED BY <4>1
    <3>4. Total(TradeCost(all), b.trades) = Total(TradeCost(b.trades), b.trades)
      <4> HIDE DEF all
      <4> QED BY <1>1, <3>1, TotalSame
    <3>5. Total(TradeCost(all), new) = Total(TradeCost(new), new)
      <4> HIDE DEF all, new
      <4> QED BY <1>3, <3>2, TotalSame
    <3>6. Total(TradeCost(all), all) = Total(TradeCost(all), b.trades) + Total(TradeCost(all), new)
      <4> DEFINE F == TradeCost(all)
      <4>1. \A t \in b.trades \cup new : F[t] \in Int
        BY <3>3
      <4> HIDE DEF F, new
      <4>2. Total(F, b.trades \cup new) = Total(F, b.trades) + Total(F, new)
        BY <1>1, <1>3, <2>1, <4>1, TotalUnion
      <4> QED BY <4>2 DEF F
    <3> QED BY <3>4, <3>5, <3>6
  <2>3. Total(OpenCost(lots), DOMAIN lots)
          = Total(OpenCost(left), DOMAIN lots) + Total(cost, DOMAIN lots)
    <3>1. \A n \in DOMAIN lots : /\ OpenCost(left)[n] \in Int /\ cost[n] \in Int
                                 /\ OpenCost(lots)[n] = OpenCost(left)[n] + cost[n]
      <4> TAKE n \in DOMAIN lots
      <4> DEFINE m == Match(lots, fill, n)
                 p == lots[n].price
      <4>1. /\ m \in Nat /\ p \in Nat /\ left[n].left \in Nat
            /\ lots[n].left = left[n].left + m /\ left[n].price = p
        <5>1. /\ m \in Nat /\ p \in Nat /\ left[n].left \in Nat /\ lots[n].left \in Nat
              /\ left[n].left = lots[n].left - m /\ left[n].price = p
          BY <1>2, <1>4
        <5> HIDE DEF m, p, left
        <5> QED BY <5>1
      <4>2. /\ OpenCost(lots)[n] = lots[n].left * p
            /\ OpenCost(left)[n] = left[n].left * p
            /\ cost[n] = m * p
        BY <1>2, <4>1 DEF OpenCost
      <4> HIDE DEF m, p, left, cost
      <4>3. (left[n].left + m) * p = left[n].left * p + m * p
        BY <4>1, ProductOfSum
      <4>4. left[n].left * p \in Int /\ m * p \in Int
        BY <4>1, ProductInt
      <4> QED BY <4>1, <4>2, <4>3, <4>4
    <3> HIDE DEF left, cost
    <3> QED BY <1>4, <3>1, TotalPlus
  <2>4. Purchases(T) = Purchases(T \ {x})
    BY DEF Purchases
  <2>5. Total(TradeCost(b.trades), b.trades) + Total(OpenCost(lots), DOMAIN lots)
          = Total(PaidOf, Purchases(T \ {x}))
    BY <1>1 DEF CostKept
  <2>6. /\ Total(TradeCost(b.trades), b.trades) \in Nat /\ Total(OpenCost(left), DOMAIN lots) \in Nat
        /\ Total(cost, DOMAIN lots) \in Nat
    <3>1. Total(OpenCost(left), DOMAIN left) \in Nat
      <4> HIDE DEF left
      <4> QED BY <1>2, CostFacts
    <3>2. Total(cost, DOMAIN lots) \in Nat
      <4> HIDE DEF cost
      <4> QED BY <1>3, <1>4, TotalNat
    <3> QED BY <1>1, <1>2, <3>1, <3>2, TradeCostFacts
  <2>7. \A u, v, w \in Int : (u + w) + v = u + (v + w)
    OBVIOUS
  <2>8. Total(TradeCost(all), all) + Total(OpenCost(left), DOMAIN left)
          = Total(PaidOf, Purchases(T))
    <3> DEFINE u == Total(TradeCost(b.trades), b.trades)
               v == Total(OpenCost(left), DOMAIN lots)
               w == Total(cost, DOMAIN lots)
    <3>1. u \in Int /\ v \in Int /\ w \in Int
      BY <2>6
    <3>2. Total(TradeCost(all), all) = u + w /\ Total(OpenCost(left), DOMAIN left) = v
          /\ u + (v + w) = Total(PaidOf, Purchases(T))
      BY <1>2, <1>3, <2>2, <2>3, <2>4, <2>5
    <3> HIDE DEF u, v, w
    <3> QED BY <2>7, <3>1, <3>2
  <2> QED BY <2>8 DEF CostKept
<1>8. /\ b.trades \cup new \in SUBSET BookTrade /\ IsFiniteSet(b.trades \cup new)
      /\ \A t \in b.trades \cup new : t.sale \in T
  <2> HIDE DEF new
  <2> QED BY <1>1, <1>3, FS_Union
<1> DEFINE kept == [lots |-> left, trades |-> b.trades \cup new]
<1>9. kept.lots = left /\ kept.trades = b.trades \cup new
      /\ kept \in [lots : Seq(Lot), trades : SUBSET BookTrade]
  <2> HIDE DEF left, new
  <2> QED BY <1>2, <1>8
<1>10. BookKept(T, kept)
  <2> HIDE DEF kept
  <2> QED BY <1>6, <1>7, <1>8, <1>9 DEF BookKept
<1> QED BY <1>10 DEF kept, lots, fill

LEMMA BookAlways ==
  ASSUME LedgerTyped, NEW S \in SUBSET DOMAIN ledger
  PROVE  BookKept(S, BookOf(S))
<1> DEFINE D == {T \in SUBSET DOMAIN ledger : ~BookKept(T, BookOf(T))}
<1>1. ASSUME D # {} PROVE FALSE
  <2>1. PICK T \in D : \A U \in D : U \subseteq T => U = T
    <3>1. D \subseteq SUBSET DOMAIN ledger /\ IsFiniteSet(DOMAIN ledger)
      BY EntriesFinite
    <3> HIDE DEF D
    <3> QED BY <1>1, <3>1, LeastSubset
  <2>2. T \in SUBSET DOMAIN ledger /\ ~BookKept(T, BookOf(T))
    BY <2>1
  <2>3. T # {}
    BY <2>2, NoBookKept, BookRecursion
  <2> DEFINE x == LastFill(T)
             b == BookOf(T \ {x})
  <2>4. x \in T /\ \A j \in T : ~FillBefore(ledger[x], ledger[j])
    BY <2>2, <2>3, LastFillIs
  <2>5. BookOf(T) = Reconstruct(x, b)
    BY <2>2, <2>3, BookRecursion
  <2>6. BookKept(T \ {x}, b)
    <3>1. T \ {x} \in SUBSET DOMAIN ledger /\ T \ {x} \subseteq T /\ T \ {x} # T
      BY <2>2, <2>4
    <3> QED BY <2>1, <3>1
  <2> HIDE DEF D, x, b
  <2>7. ledger[x].side \in {"buy", "sell", "unknown"} /\ x \in DOMAIN ledger
    BY <2>2, <2>4, EntryFacts
  <2>8. CASE ledger[x].side = "buy"
    <3>1. BookOf(T) = [b EXCEPT !.lots = Opened(@, ledger[x])]
      BY <2>5, <2>8 DEF Reconstruct
    <3>2. BookKept(T, [b EXCEPT !.lots = Opened(@, ledger[x])])
      BY <2>2, <2>4, <2>6, <2>8, OpenedKept
    <3> QED BY <2>2, <3>1, <3>2
  <2>9. CASE ledger[x].side = "sell"
    <3>1. BookOf(T) = [lots   |-> Closed(b.lots, ledger[x]),
                       trades |-> b.trades \cup NewTrades(b.lots, x)]
      BY <2>5, <2>9 DEF Reconstruct
    <3>2. BookKept(T, [lots   |-> Closed(b.lots, ledger[x]),
                       trades |-> b.trades \cup NewTrades(b.lots, x)])
      BY <2>2, <2>4, <2>6, <2>9, ClosedKept
    <3> QED BY <2>2, <3>1, <3>2
  <2>10. CASE ledger[x].side = "unknown"
    <3>1. BookOf(T) = b
      BY <2>5, <2>10 DEF Reconstruct
    <3>2. PositionsKept(T, b.lots)
      <4> SUFFICES ASSUME NEW s \in Tickers
                   PROVE  Total(LotLeft(b.lots), FirstOf(b.lots, s, Len(b.lots))) = Running(NetOf(T, s))
        BY DEF PositionsKept
      <4>1. Running(NetOf(T, s)) = Running(NetOf(T \ {x}, s))
        BY <2>2, <2>4, <2>10, RunningStep
      <4> QED BY <2>6, <4>1 DEF BookKept, PositionsKept
    <3>3. Purchases(T) = Purchases(T \ {x})
      BY <2>4, <2>10 DEF Purchases
    <3>4. BookKept(T, b)
      BY <2>6, <3>2, <3>3 DEF BookKept, CostKept
    <3> QED BY <2>2, <3>1, <3>4
  <2> QED BY <2>7, <2>8, <2>9, <2>10
<1> QED BY <1>1

-----------------------------------------------------------------------------
(* A snapshot agrees with the entries it was made of.                      *)

RunningIn(L, p) ==
  \A s \in Tickers :
    LET traded(side, t) ==
          SumOf([i \in {i \in 1..p.upto : L[i].sym = s /\ L[i].side = side /\ L[i].time = t} |-> L[i].qty])
    IN p.positions[s].qty =
         Running([t \in 1..MaxTime |-> traded("buy", t) - traded("sell", t)])

MoneyIn(L, p) ==
  (\A i \in 1..p.upto : L[i].price # Unknown) =>
      LET bought   == {i \in 1..p.upto : L[i].side = "buy"}
          proceeds == SumOf([t \in p.trades |-> t.qty * t.close])
          paid     == SumOf([i \in bought |-> L[i].qty * L[i].price])
          cost     == SumOf([s \in Tickers |-> p.positions[s].cost])
      IN Equity(p.trades, p.capital, Day(MaxTime)) - p.capital = proceeds - (paid - cost)

LEMMA FollowsIn ==
  BookFollowsEntries <=> \A p \in Books : RunningIn(ledger, p) /\ MoneyIn(ledger, p)
<1>1. RunningPosition <=> \A p \in Books : RunningIn(ledger, p)
  BY DEF RunningPosition, RunningIn, Entries
<1>2. MoneyConserves <=> \A p \in Books : MoneyIn(ledger, p)
  BY DEF MoneyConserves, MoneyIn
<1> QED BY <1>1, <1>2 DEF BookFollowsEntries

(* Only these entries matter. *)
LEMMA SameEntries ==
  ASSUME NEW L, NEW M, NEW p, \A i \in 1..p.upto : L[i] = M[i]
  PROVE  RunningIn(L, p) => RunningIn(M, p)
<1> DEFINE Then(K, s, side, t) ==
             {i \in 1..p.upto : K[i].sym = s /\ K[i].side = side /\ K[i].time = t}
           traded(K, s, side, t) == SumOf([i \in Then(K, s, side, t) |-> K[i].qty])
           net(K, s) == [t \in 1..MaxTime |-> traded(K, s, "buy", t) - traded(K, s, "sell", t)]
<1>1. \A s, side, t : Then(L, s, side, t) = Then(M, s, side, t)
  OBVIOUS
<1>2. \A s, side, t : [i \in Then(L, s, side, t) |-> L[i].qty] = [i \in Then(M, s, side, t) |-> M[i].qty]
  <2> TAKE s, side, t
  <2>1. Then(L, s, side, t) = Then(M, s, side, t) /\ Then(L, s, side, t) \subseteq 1..p.upto
    OBVIOUS
  <2> HIDE DEF Then
  <2> QED BY <2>1
<1>3. \A s, side, t : traded(L, s, side, t) = traded(M, s, side, t)
  <2> HIDE DEF Then
  <2> QED BY <1>2
<1>4. \A s : net(L, s) = net(M, s)
  <2> HIDE DEF traded
  <2> QED BY <1>3
<1>5. \A K : RunningIn(K, p) <=> \A s \in Tickers : p.positions[s].qty = Running(net(K, s))
  BY DEF RunningIn
<1> HIDE DEF net
<1> QED BY <1>4, <1>5

LEMMA SameMoney ==
  ASSUME NEW L, NEW M, NEW p, \A i \in 1..p.upto : L[i] = M[i]
  PROVE  MoneyIn(L, p) => MoneyIn(M, p)
<1>1. {i \in 1..p.upto : L[i].side = "buy"} = {i \in 1..p.upto : M[i].side = "buy"}
  OBVIOUS
<1>2. [i \in {i \in 1..p.upto : L[i].side = "buy"} |-> L[i].qty * L[i].price]
        = [i \in {i \in 1..p.upto : M[i].side = "buy"} |-> M[i].qty * M[i].price]
  <2> DEFINE A == {i \in 1..p.upto : L[i].side = "buy"}
             B == {i \in 1..p.upto : M[i].side = "buy"}
  <2>1. A = B /\ \A i \in A : L[i] = M[i]
    BY <1>1
  <2> HIDE DEF A, B
  <2>2. [i \in A |-> L[i].qty * L[i].price] = [i \in B |-> M[i].qty * M[i].price]
    BY <2>1
  <2> QED BY <2>2 DEF A, B
<1>3. (\A i \in 1..p.upto : L[i].price # Unknown) <=> (\A i \in 1..p.upto : M[i].price # Unknown)
  OBVIOUS
<1> QED BY <1>2, <1>3 DEF MoneyIn

LEMMA DayRange == \A t \in 1..MaxTime : Day(t) \in 1..Day(MaxTime)
<1>1. \A m \in Nat : \A t \in 1..m : (t + 1) \div 2 \in 1..((m + 1) \div 2)
  OBVIOUS
<1> QED BY <1>1, MaxTimeIs DEF Day

LEMMA BookTyped ==
  ASSUME LedgerTyped, NEW b, b = BookOf(DOMAIN ledger)
  PROVE  /\ b.lots \in Seq(Lot) /\ b.trades \in SUBSET BookTrade /\ IsFiniteSet(b.trades)
         /\ PositionsKept(DOMAIN ledger, b.lots) /\ CostKept(DOMAIN ledger, b.lots, b.trades)
         /\ DOMAIN ledger = 1..Len(ledger)
<1>1. BookKept(DOMAIN ledger, b)
  BY BookAlways
<1> QED BY <1>1, EntriesFinite DEF BookKept

LEMMA OpenLots ==
  ASSUME NEW lots \in Seq(Lot), NEW s
  PROVE  /\ LotsOf(lots, s) \in SUBSET DOMAIN lots /\ IsFiniteSet(LotsOf(lots, s))
         /\ PositionOf(lots, s).qty = Total(LotLeft(lots), FirstOf(lots, s, Len(lots)))
         /\ PositionOf(lots, s).cost = Total(OpenCost(lots), LotsOf(lots, s))
<1> DEFINE A == LotsOf(lots, s)
           B == FirstOf(lots, s, Len(lots))
           F == [n \in A |-> lots[n].left]
           G == [n \in A |-> lots[n].left * lots[n].price]
<1>1. /\ A \in SUBSET DOMAIN lots /\ A \in SUBSET B /\ B \in SUBSET DOMAIN lots
      /\ IsFiniteSet(A) /\ IsFiniteSet(B)
      /\ \A n \in DOMAIN lots : LotLeft(lots)[n] = lots[n].left /\ lots[n].left \in Nat
                                /\ OpenCost(lots)[n] = lots[n].left * lots[n].price
  <2>1. A \in SUBSET DOMAIN lots /\ DOMAIN lots = 1..Len(lots) /\ Len(lots) \in Nat
        /\ IsFiniteSet(DOMAIN lots) /\ Len(lots) \in 0..Len(lots)
    BY LotsFacts DEF LotsOf
  <2>2. A \in SUBSET B
    BY <2>1 DEF LotsOf, FirstOf
  <2>3. IsFiniteSet(A)
    BY <2>1, FS_Subset
  <2>4. B \in SUBSET DOMAIN lots /\ IsFiniteSet(B)
    BY <2>1, LotsFacts
  <2> QED BY <2>1, <2>2, <2>3, <2>4, LotsFacts, CostFacts
<1>2. \A n \in B \ A : LotLeft(lots)[n] = 0
  <2> TAKE n \in B \ A
  <2>1. n \in DOMAIN lots /\ lots[n].sym = s /\ ~(lots[n].left > 0)
    BY <1>1 DEF LotsOf, FirstOf
  <2>2. lots[n].left \in Nat /\ LotLeft(lots)[n] = lots[n].left
    BY <1>1, <2>1
  <2> QED BY <2>1, <2>2
<1>3. PositionOf(lots, s).qty = Total(F, A) /\ PositionOf(lots, s).cost = Total(G, A)
  BY DEF PositionOf, SumOf, Total
<1>4. \A n \in A : F[n] = LotLeft(lots)[n] /\ G[n] = OpenCost(lots)[n]
  BY <1>1
<1>5. Total(F, A) = Total(LotLeft(lots), A) /\ Total(G, A) = Total(OpenCost(lots), A)
  <2> HIDE DEF A, F, G
  <2> QED BY <1>1, <1>4, TotalSame
<1>6. Total(LotLeft(lots), A) = Total(LotLeft(lots), B)
  <2>1. \A n \in B : LotLeft(lots)[n] \in Int
    BY <1>1
  <2> HIDE DEF A, B
  <2> QED BY <1>1, <1>2, <2>1, TotalRest
<1> QED BY <1>1, <1>3, <1>5, <1>6

LEMMA SnapshotRuns ==
  ASSUME LedgerTyped, NEW d, NEW c
  PROVE  RunningIn(ledger, Snapshot(d, c))
<1> DEFINE b == BookOf(DOMAIN ledger)
           p == Snapshot(d, c)
<1>1. b.lots \in Seq(Lot) /\ PositionsKept(DOMAIN ledger, b.lots) /\ DOMAIN ledger = 1..Len(ledger)
  BY BookTyped
<1>2. p.upto = Len(ledger) /\ \A s \in Tickers : p.positions[s] = PositionOf(b.lots, s)
  BY DEF Snapshot
<1> HIDE DEF b, p
<1> DEFINE Then(s, side, t) ==
             {i \in 1..p.upto : ledger[i].sym = s /\ ledger[i].side = side /\ ledger[i].time = t}
           F(s, side, t) == [i \in Then(s, side, t) |-> ledger[i].qty]
           traded(s, side, t) == SumOf(F(s, side, t))
           net(s) == [t \in 1..MaxTime |-> traded(s, "buy", t) - traded(s, "sell", t)]
<1>3. ASSUME NEW s, NEW side, NEW t
      PROVE  traded(s, side, t) = Amount(DOMAIN ledger, s, side, t)
  <2> DEFINE A == Then(s, side, t)
             G == F(s, side, t)
  <2>1. A = TradedAt(DOMAIN ledger, s, side, t)
    BY <1>1, <1>2 DEF TradedAt
  <2>2. A \in SUBSET DOMAIN ledger /\ IsFiniteSet(A)
    <3>1. DOMAIN ledger \in SUBSET DOMAIN ledger
      OBVIOUS
    <3> HIDE DEF A
    <3> QED BY <2>1, <3>1, AmountFacts
  <2>3. \A i \in A : G[i] = QtyOf[i]
    <3>1. \A i \in A : G[i] = ledger[i].qty
      OBVIOUS
    <3> HIDE DEF A, G
    <3> QED BY <2>2, <3>1, EntryFacts
  <2>4. SumOf(G) = Total(G, A)
    <3>1. DOMAIN G = A
      OBVIOUS
    <3> HIDE DEF A, G
    <3> QED BY <3>1 DEF SumOf, Total
  <2>5. Total(G, A) = Total(QtyOf, A)
    <3> HIDE DEF A, G
    <3> QED BY <2>2, <2>3, TotalSame
  <2> HIDE DEF A, G, Then, F
  <2>6. traded(s, side, t) = SumOf(G)
    BY DEF G
  <2> HIDE DEF traded
  <2> QED BY <2>1, <2>4, <2>5, <2>6 DEF Amount
<1>4. \A s : net(s) = NetOf(DOMAIN ledger, s)
  <2> HIDE DEF traded
  <2> QED BY <1>3 DEF NetOf
<1>5. RunningIn(ledger, p) <=> \A s \in Tickers : p.positions[s].qty = Running(net(s))
  BY DEF RunningIn
<1>6. ASSUME NEW s \in Tickers
      PROVE  p.positions[s].qty = Running(net(s))
  <2>1. p.positions[s].qty = Total(LotLeft(b.lots), FirstOf(b.lots, s, Len(b.lots)))
    BY <1>1, <1>2, OpenLots
  <2>2. p.positions[s].qty = Running(NetOf(DOMAIN ledger, s))
    BY <1>1, <2>1 DEF PositionsKept
  <2> HIDE DEF net
  <2> QED BY <1>4, <2>2
<1> HIDE DEF net
<1> QED BY <1>5, <1>6 DEF p

LEMMA SnapshotConserves ==
  ASSUME LedgerTyped, NEW d, NEW c \in Nat
  PROVE  MoneyIn(ledger, Snapshot(d, c))
<1> DEFINE b == BookOf(DOMAIN ledger)
           p == Snapshot(d, c)
           deals == b.trades
           lots == b.lots
           final == Day(MaxTime)
<1>1. /\ lots \in Seq(Lot) /\ deals \in SUBSET BookTrade /\ IsFiniteSet(deals)
      /\ CostKept(DOMAIN ledger, lots, deals) /\ DOMAIN ledger = 1..Len(ledger)
  BY BookTyped
<1>2. /\ p.upto = Len(ledger) /\ p.trades = deals /\ p.capital = c
      /\ \A s \in Tickers : p.positions[s] = PositionOf(lots, s)
  BY DEF Snapshot
<1> HIDE DEF b, p, deals, lots
<1> DEFINE Gain == [t \in deals |-> TradeRealized(t)]
           Got  == [t \in deals |-> t.qty * t.close]
           byDay == [e \in 1..final |-> DayRealized(deals, e)]
<1>3. \A t \in deals : /\ Got[t] = t.qty * t.close /\ Gain[t] = TradeRealized(t)
                        /\ Got[t] = Gain[t] + TradeCost(deals)[t]
                        /\ Gain[t] \in Int /\ TradeCost(deals)[t] \in Int
                        /\ t.closed \in 1..MaxTime
  <2> TAKE t \in deals
  <2>1. t.qty \in Nat /\ t.open \in Nat /\ t.close \in Nat /\ t.closed \in 1..MaxTime
    BY <1>1 DEF BookTrade
  <2> DEFINE q == t.qty
             o == t.open
             e == t.close
  <2>2. Got[t] = q * e /\ Gain[t] = (e - o) * q /\ TradeCost(deals)[t] = q * o
    BY <1>1, TradeCostFacts DEF TradeRealized
  <2>3. q \in Nat /\ o \in Nat /\ e \in Nat
    BY <2>1
  <2> HIDE DEF q, o, e
  <2>4. q * e = (e - o) * q + q * o /\ (e - o) * q \in Int /\ q * o \in Int
    <3>1. e - o \in Int /\ (e - o) + o = e
      BY <2>3
    <3>2. ((e - o) + o) * q = (e - o) * q + o * q
      BY <2>3, <3>1, ProductOfSum
    <3>3. e * q = q * e /\ o * q = q * o
      BY <2>3
    <3>4. (e - o) * q \in Int /\ q * o \in Int
      BY <2>3, <3>1, ProductInt
    <3> QED BY <3>1, <3>2, <3>3, <3>4
  <2> HIDE DEF Gain, Got
  <2>5. t.qty = q /\ t.open = o /\ t.close = e
    BY DEF q, o, e
  <2>6. Got[t] = Gain[t] + TradeCost(deals)[t]
    BY <2>2, <2>4
  <2> QED BY <2>1, <2>2, <2>4, <2>6 DEF q, o, e, Gain, Got
<1>4. /\ SumOf(Got) = Total(Got, deals)
      /\ SumOf(byDay) = Total(byDay, 1..final)
  BY DEF SumOf, Total
<1>5. Total(Got, deals) = Total(Gain, deals) + Total(TradeCost(deals), deals)
      /\ Total(Gain, deals) \in Int /\ Total(TradeCost(deals), deals) \in Int
  <2> HIDE DEF Gain, Got
  <2> QED BY <1>1, <1>3, TotalPlus, TotalType
<1>6. Total(byDay, 1..final) = Total(Gain, deals)
  <2> DEFINE part == [e \in 1..final |-> ClosedOn(deals, e)]
  <2>1. /\ \A e \in 1..final : part[e] \in SUBSET deals /\ part[e] = ClosedOn(deals, e)
        /\ \A t \in deals : \E e \in 1..final : t \in part[e]
        /\ \A i, j \in 1..final : i # j => part[i] \cap part[j] = {}
    <3>1. \A e \in 1..final : part[e] = ClosedOn(deals, e)
      OBVIOUS
    <3>2. \A t \in deals : Day(t.closed) \in 1..final
      BY <1>3, DayRange
    <3> HIDE DEF part, final
    <3> QED BY <3>1, <3>2 DEF ClosedOn
  <2>2. \A e \in 1..final : byDay[e] = Total(Gain, part[e])
    <3> TAKE e \in 1..final
    <3> DEFINE A == ClosedOn(deals, e)
               F == [t \in A |-> TradeRealized(t)]
    <3>1. byDay[e] = SumOf(F)
      BY DEF DayRealized
    <3>2. SumOf(F) = Total(F, A)
      BY DEF SumOf, Total
    <3>3. A \in SUBSET deals /\ IsFiniteSet(A)
      <4>1. A \in SUBSET deals
        BY DEF ClosedOn
      <4> HIDE DEF A
      <4> QED BY <1>1, <4>1, FS_Subset
    <3>4. \A t \in A : F[t] = Gain[t]
      BY <1>3, <3>3
    <3>5. Total(F, A) = Total(Gain, A)
      <4> HIDE DEF A, F, Gain
      <4> QED BY <3>3, <3>4, TotalSame
    <3> HIDE DEF F, Gain, byDay
    <3> QED BY <2>1, <3>1, <3>2, <3>5
  <2>3. IsFiniteSet(1..final)
    <3>1. final \in Int
      BY MaxTimeIs DEF Day
    <3> HIDE DEF final
    <3> QED BY <3>1, FS_Interval
  <2>4. \A t \in deals : Gain[t] \in Int
    BY <1>3
  <2> DEFINE I == 1..final
  <2>5. /\ IsFiniteSet(I)
        /\ \A e \in I : part[e] \in SUBSET deals /\ byDay[e] = Total(Gain, part[e])
        /\ \A t \in deals : \E e \in I : t \in part[e]
        /\ \A i, j \in I : i # j => part[i] \cap part[j] = {}
    <3> HIDE DEF part, Gain, byDay, final
    <3> QED BY <2>1, <2>2, <2>3
  <2> HIDE DEF part, Gain, Got, byDay, final, I
  <2>6. Total(byDay, I) = Total(Gain, deals)
    BY <1>1, <2>4, <2>5, TotalParts
  <2> QED BY <2>6 DEF I
<1>7. Equity(p.trades, p.capital, final) - p.capital = Total(Gain, deals)
  <2>1. Equity(p.trades, p.capital, final) = c + SumOf(byDay)
    BY <1>2 DEF Equity
  <2> DEFINE g == SumOf(byDay)
  <2>2. g = Total(Gain, deals) /\ g \in Int
    BY <1>4, <1>5, <1>6
  <2> HIDE DEF g, Gain, final
  <2>3. (c + g) - c = g
    BY <2>2
  <2> QED BY <1>2, <2>1, <2>2, <2>3 DEF g
<1> DEFINE buys == {i \in 1..p.upto : ledger[i].side = "buy"}
           Paid == [i \in buys |-> ledger[i].qty * ledger[i].price]
<1>8. SumOf(Paid) = Total(PaidOf, Purchases(DOMAIN ledger))
  <2>1. buys = Purchases(DOMAIN ledger)
    BY <1>1, <1>2 DEF Purchases
  <2>2. buys \in SUBSET DOMAIN ledger /\ IsFiniteSet(buys)
    <3>1. DOMAIN ledger \in SUBSET DOMAIN ledger
      OBVIOUS
    <3> HIDE DEF buys
    <3> QED BY <2>1, <3>1, BoughtFacts
  <2>3. \A i \in buys : Paid[i] = PaidOf[i]
    <3>1. \A i \in buys : Paid[i] = ledger[i].qty * ledger[i].price
      OBVIOUS
    <3> HIDE DEF buys, Paid
    <3> QED BY <2>2, <3>1, EntryFacts
  <2>4. SumOf(Paid) = Total(Paid, buys)
    BY DEF SumOf, Total
  <2>5. Total(Paid, buys) = Total(PaidOf, buys)
    <3> HIDE DEF buys, Paid
    <3> QED BY <2>2, <2>3, TotalSame
  <2> HIDE DEF Paid, buys
  <2> QED BY <2>1, <2>4, <2>5
<1> DEFINE Costs == [s \in Tickers |-> p.positions[s].cost]
<1>9. SumOf(Costs) = Total(OpenCost(lots), DOMAIN lots)
  <2> DEFINE S == {n \in DOMAIN lots : lots[n].left > 0}
             part == [s \in Tickers |-> LotsOf(lots, s)]
  <2>1. SumOf(Costs) = Total(Costs, Tickers)
    BY DEF SumOf, Total
  <2>2. /\ \A s \in Tickers : part[s] \in SUBSET S
        /\ \A n \in S : \E s \in Tickers : n \in part[s]
        /\ \A r, s \in Tickers : r # s => part[r] \cap part[s] = {}
    <3>1. \A s \in Tickers : part[s] = LotsOf(lots, s)
      OBVIOUS
    <3>2. \A n \in DOMAIN lots : lots[n].sym \in Tickers
      BY <1>1, LotsFacts DEF Lot
    <3> HIDE DEF part
    <3> QED BY <3>1, <3>2 DEF LotsOf
  <2>3. \A s \in Tickers : Costs[s] = Total(OpenCost(lots), part[s])
    <3> TAKE s \in Tickers
    <3>1. Costs[s] = PositionOf(lots, s).cost /\ part[s] = LotsOf(lots, s)
      BY <1>2
    <3> HIDE DEF Costs, part
    <3> QED BY <1>1, <3>1, OpenLots
  <2>4. S \in SUBSET DOMAIN lots /\ IsFiniteSet(S) /\ IsFiniteSet(DOMAIN lots)
    <3>1. S \in SUBSET DOMAIN lots /\ IsFiniteSet(DOMAIN lots)
      BY <1>1, LotsFacts
    <3> HIDE DEF S
    <3> QED BY <3>1, FS_Subset
  <2>5. \A n \in DOMAIN lots : OpenCost(lots)[n] \in Int
    BY <1>1, CostFacts
  <2>6. \A n \in DOMAIN lots \ S : OpenCost(lots)[n] = 0
    <3> TAKE n \in DOMAIN lots \ S
    <3>1. lots[n].left = 0 /\ lots[n].price \in Nat
      <4>1. lots[n].left \in Nat /\ lots[n].price \in Nat /\ ~(lots[n].left > 0)
        BY <1>1, LotsFacts
      <4> QED BY <4>1
    <3>2. OpenCost(lots)[n] = lots[n].left * lots[n].price
      BY <1>1, CostFacts
    <3>3. \A y \in Nat : 0 * y = 0
      OBVIOUS
    <3> QED BY <3>1, <3>2, <3>3
  <2>7. Total(Costs, Tickers) = Total(OpenCost(lots), S)
    <3>1. IsFiniteSet(Tickers)
      BY PortfolioBookConstants
    <3>2. \A n \in S : OpenCost(lots)[n] \in Int
      BY <2>5
    <3> HIDE DEF Costs, S, part
    <3> QED BY <2>2, <2>3, <2>4, <3>1, <3>2, TotalParts
  <2>8. Total(OpenCost(lots), S) = Total(OpenCost(lots), DOMAIN lots)
    <3> HIDE DEF S
    <3> QED BY <2>4, <2>5, <2>6, TotalRest
  <2> HIDE DEF Costs, S
  <2> QED BY <2>1, <2>7, <2>8
<1>10. Total(TradeCost(deals), deals) + Total(OpenCost(lots), DOMAIN lots)
         = Total(PaidOf, Purchases(DOMAIN ledger))
       /\ Total(OpenCost(lots), DOMAIN lots) \in Int
  BY <1>1, CostFacts DEF CostKept
<1>11. MoneyIn(ledger, p) <=>
         ((\A i \in 1..p.upto : ledger[i].price # Unknown) =>
            Equity(p.trades, p.capital, final) - p.capital = SumOf(Got) - (SumOf(Paid) - SumOf(Costs)))
  BY <1>2 DEF MoneyIn
<1>12. Equity(p.trades, p.capital, final) - p.capital = SumOf(Got) - (SumOf(Paid) - SumOf(Costs))
  <2> DEFINE g == Total(Gain, deals)
             k == Total(TradeCost(deals), deals)
             o == Total(OpenCost(lots), DOMAIN lots)
  <2>1. g \in Int /\ k \in Int /\ o \in Int
    BY <1>5, <1>10
  <2>2. SumOf(Got) = g + k /\ SumOf(Paid) = k + o /\ SumOf(Costs) = o
        /\ Equity(p.trades, p.capital, final) - p.capital = g
    BY <1>4, <1>5, <1>7, <1>8, <1>9, <1>10
  <2> HIDE DEF g, k, o, Got, Paid, Costs, final
  <2>3. g = (g + k) - ((k + o) - o)
    BY <2>1
  <2> QED BY <2>2, <2>3
<1> HIDE DEF Got, Paid, Costs, final
<1> QED BY <1>11, <1>12 DEF p

-----------------------------------------------------------------------------
BookTypeInv ==
  /\ LedgerTyped
  /\ now \in 1..MaxTime
  /\ \A p \in Books : p.upto \in 0..Len(ledger)

BookInv == BookTypeInv /\ BookFollowsEntries

LEMMA BookBegins == BookInit => BookInv
<1> SUFFICES ASSUME BookInit PROVE BookInv
  OBVIOUS
<1>1. LedgerTyped
  BY DEF BookInit, LedgerTyped
<1>2. Books = {}
  BY DEF BookInit, Books
<1>3. BookFollowsEntries
  BY <1>2 DEF BookFollowsEntries, RunningPosition, MoneyConserves
<1>4. now \in 1..MaxTime
  BY MaxTimeIs DEF BookInit
<1> QED BY <1>1, <1>2, <1>3, <1>4 DEF BookInv, BookTypeInv

LEMMA RecordKept == BookInv /\ Record => BookInv'
<1> SUFFICES ASSUME BookInv, Record PROVE BookInv'
  OBVIOUS
<1>1. PICK e \in Entry : ledger' = Append(ledger, e)
  <2>1. now \in 1..MaxTime /\ Qtys \subseteq Nat /\ Prices \subseteq Nat /\ Unknown \in Nat
    BY PortfolioBookConstants DEF BookInv, BookTypeInv, Unknown
  <2> QED BY <2>1 DEF Record, Entry
<1>2. now' = now /\ snapshot' = snapshot
  BY DEF Record
<1>3. LedgerTyped' /\ Len(ledger') = Len(ledger) + 1 /\ Len(ledger) \in Nat
      /\ \A i \in 1..Len(ledger) : ledger'[i] = ledger[i]
  BY <1>1 DEF BookInv, BookTypeInv, LedgerTyped
<1>4. Books' = Books
  BY <1>2 DEF Books
<1>5. ASSUME NEW p \in Books
      PROVE  /\ p.upto \in 0..Len(ledger')
             /\ RunningIn(ledger', p) /\ MoneyIn(ledger', p)
  <2>1. p.upto \in 0..Len(ledger)
    BY DEF BookInv, BookTypeInv
  <2>2. \A i \in 1..p.upto : ledger[i] = ledger'[i]
    BY <1>3, <2>1
  <2>3. RunningIn(ledger, p) /\ MoneyIn(ledger, p)
    BY FollowsIn DEF BookInv
  <2>4. p.upto \in 0..Len(ledger')
    BY <1>3, <2>1
  <2>5. RunningIn(ledger', p)
    BY <2>2, <2>3, SameEntries
  <2>6. MoneyIn(ledger', p)
    BY <2>2, <2>3, SameMoney
  <2> QED BY <2>4, <2>5, <2>6
<1>6. BookFollowsEntries'
  <2>1. (BookFollowsEntries <=> \A p \in Books : RunningIn(ledger, p) /\ MoneyIn(ledger, p))'
    BY FollowsIn, PTL
  <2> QED BY <1>4, <1>5, <2>1
<1>7. BookTypeInv'
  <2>1. now' \in 1..MaxTime
    BY <1>2 DEF BookInv, BookTypeInv
  <2> QED BY <1>3, <1>4, <1>5, <2>1 DEF BookTypeInv
<1> QED BY <1>6, <1>7 DEF BookInv

LEMMA WriteSnapshotKept == BookInv /\ WriteSnapshot => BookInv'
<1> SUFFICES ASSUME BookInv, WriteSnapshot PROVE BookInv'
  OBVIOUS
<1>1. PICK c \in Capitals : snapshot' = Snapshot(Day(now), c)
  BY DEF WriteSnapshot
<1>2. now' = now /\ ledger' = ledger /\ LedgerTyped /\ c \in Nat
  BY PortfolioBookConstants DEF WriteSnapshot, BookInv, BookTypeInv
<1>3. RunningIn(ledger, snapshot') /\ MoneyIn(ledger, snapshot')
  BY <1>1, <1>2, SnapshotRuns, SnapshotConserves
<1>4. \A p \in Books' : p = snapshot'
  BY DEF Books
<1>5. snapshot'.upto \in 0..Len(ledger)
  <2>1. snapshot'.upto = Len(ledger) /\ Len(ledger) \in Nat
    BY <1>1, <1>2 DEF Snapshot, LedgerTyped
  <2> QED BY <2>1
<1>6. BookFollowsEntries'
  <2>1. (BookFollowsEntries <=> \A p \in Books : RunningIn(ledger, p) /\ MoneyIn(ledger, p))'
    BY FollowsIn, PTL
  <2> QED BY <1>2, <1>3, <1>4, <2>1
<1>7. BookTypeInv'
  BY <1>2, <1>4, <1>5 DEF BookInv, BookTypeInv, LedgerTyped
<1> QED BY <1>6, <1>7 DEF BookInv

LEMMA OtherStepsKept ==
  BookInv /\ (WriteDecisions \/ Tick \/ UNCHANGED book_vars) => BookInv'
<1> SUFFICES ASSUME BookInv, WriteDecisions \/ Tick \/ UNCHANGED book_vars PROVE BookInv'
  OBVIOUS
<1>1. ledger' = ledger /\ snapshot' = snapshot
  BY DEF WriteDecisions, Tick, book_vars
<1>2. now' \in 1..MaxTime
  <2>1. now \in 1..MaxTime
    BY DEF BookInv, BookTypeInv
  <2> QED BY <2>1, MaxTimeIs DEF WriteDecisions, Tick, book_vars
<1>3. Books' = Books
  BY <1>1 DEF Books
<1>4. BookFollowsEntries'
  <2>1. (BookFollowsEntries <=> \A p \in Books : RunningIn(ledger, p) /\ MoneyIn(ledger, p))'
    BY FollowsIn, PTL
  <2>2. \A p \in Books : RunningIn(ledger, p) /\ MoneyIn(ledger, p)
    BY FollowsIn DEF BookInv
  <2> QED BY <1>1, <1>3, <2>1, <2>2
<1> QED BY <1>1, <1>2, <1>3, <1>4 DEF BookInv, BookTypeInv, LedgerTyped

LEMMA BookInvAlways == BookSpec => []BookInv
<1>1. BookInv /\ [BookNext]_book_vars => BookInv'
  BY RecordKept, WriteSnapshotKept, OtherStepsKept DEF BookNext
<1> QED BY <1>1, BookBegins, PTL DEF BookSpec

(* However many entries, of whatever symbols, sides, sizes and prices, are *)
(* written in whatever order: the positions of a snapshot are the running  *)
(* positions of the entries it was made of, and its money is theirs.       *)
THEOREM BookFollows == BookSpec => []BookFollowsEntries
<1>1. BookInv => BookFollowsEntries
  BY DEF BookInv
<1> QED BY <1>1, BookInvAlways, PTL
=============================================================================
