------------------------- MODULE TrimPipelineProofs -------------------------
(***************************************************************************)
(* That a level of a position fires once but for what faults let through,  *)
(* that a trim that was sold shows in the row, and that the row never      *)
(* loses what it gained, for all levels, prices, sizes, sessions, faults.  *)
(*                                                                         *)
(* The first is a matter of counting: a trim is queued, popped or sold,    *)
(* and the flag of its level is up, in memory or in the row, unless a      *)
(* fault has been spent on losing it.                                      *)
(***************************************************************************)
EXTENDS TrimPipeline, FiniteSetTheorems, FunctionTheorems, SequenceTheorems, TLAPS

-----------------------------------------------------------------------------
(* Operators                                                               *)

(* The smaller of two numbers. *)
LEMMA MinOfTwo ==
  ASSUME NEW a \in Int, NEW b \in Int
  PROVE  Min({a, b}) \in {a, b} /\ Min({a, b}) <= a /\ Min({a, b}) <= b
<1>1. \E m \in {a, b} : \A y \in {a, b} : m <= y
  <2>1. CASE a <= b
    BY <2>1
  <2>2. CASE ~(a <= b)
    BY <2>2
  <2> QED BY <2>1, <2>2
<1> QED BY <1>1 DEF Min

(* The larger of two numbers, one of which may be below zero. *)
LEMMA MaxOfTwo ==
  ASSUME NEW a \in Int, NEW b \in Int
  PROVE  Max({a, b}) \in {a, b} /\ Max({a, b}) >= a /\ Max({a, b}) >= b
<1>1. \E m \in {a, b} : \A y \in {a, b} : m >= y
  <2>1. CASE a >= b
    BY <2>1
  <2>2. CASE ~(a >= b)
    BY <2>2
  <2> QED BY <2>1, <2>2
<1> QED BY <1>1 DEF Max

(* How often a reason is in a queue. *)
At(s, reason)    == {i \in DOMAIN s : s[i] = reason}
Count(s, reason) == Cardinality(At(s, reason))

LEMMA CountType ==
  ASSUME NEW s \in Seq(Reasons), NEW reason
  PROVE  IsFiniteSet(At(s, reason)) /\ Count(s, reason) \in Nat
<1>1. Len(s) \in Nat /\ DOMAIN s = 1..Len(s)
  OBVIOUS
<1>2. IsFiniteSet(1..Len(s))
  BY <1>1, FS_Interval
<1>3. At(s, reason) \in SUBSET (1..Len(s))
  BY <1>1 DEF At
<1> QED BY <1>2, <1>3, FS_Subset, FS_CardinalityType DEF Count

LEMMA CountEmpty == \A reason : Count(<<>>, reason) = 0
  BY FS_EmptySet DEF Count, At

LEMMA CountAppend ==
  ASSUME NEW s \in Seq(Reasons), NEW x \in Reasons, NEW reason
  PROVE  Count(Append(s, x), reason) = Count(s, reason) + IF x = reason THEN 1 ELSE 0
<1> DEFINE a == Append(s, x)
           n == Len(s) + 1
<1>1. /\ DOMAIN a = 1..n /\ a[n] = x /\ \A i \in 1..Len(s) : a[i] = s[i]
      /\ DOMAIN s = 1..Len(s) /\ Len(s) \in Nat
  BY AppendProperties, DOMAIN a = 1..Len(a)
<1> HIDE DEF a
<1>2. n \notin At(s, reason)
  BY <1>1 DEF At
<1>3. CASE x = reason
  <2>1. At(a, reason) = At(s, reason) \cup {n}
    BY <1>1, <1>3 DEF At
  <2> QED BY <1>2, <1>3, <2>1, CountType, FS_AddElement DEF Count, a
<1>4. CASE x # reason
  <2>1. At(a, reason) = At(s, reason)
    BY <1>1, <1>4 DEF At
  <2> QED BY <1>4, <2>1, CountType DEF Count, a
<1> QED BY <1>3, <1>4

LEMMA CountTail ==
  ASSUME NEW s \in Seq(Reasons), s # <<>>, NEW reason
  PROVE  Count(Tail(s), reason) = Count(s, reason) - IF Head(s) = reason THEN 1 ELSE 0
<1> DEFINE t == Tail(s)
           T == At(t, reason)
           S == At(s, reason) \ {1}
           f == [i \in T |-> i + 1]
<1>1. /\ t \in Seq(Reasons) /\ Len(t) = Len(s) - 1 /\ DOMAIN t = 1..Len(t)
      /\ \A i \in 1..Len(t) : t[i] = s[i + 1]
      /\ Len(s) \in Nat /\ DOMAIN s = 1..Len(s) /\ Head(s) = s[1] /\ 1 \in DOMAIN s
  BY HeadTailProperties
<1> HIDE DEF t
<1>2. \A i \in T : i \in Nat /\ i + 1 \in S
  BY <1>1 DEF At
<1>3. \A j \in S : j - 1 \in T /\ (j - 1) + 1 = j
  BY <1>1 DEF At
<1>4. f \in Bijection(T, S)
  <2>1. f \in [T -> S]
    BY <1>2
  <2>2. \A i, j \in T : f[i] = f[j] => i = j
    BY <1>2
  <2>3. \A j \in S : \E i \in T : f[i] = j
    BY <1>3
  <2> HIDE DEF f, T, S
  <2> QED BY <2>1, <2>2, <2>3, Fun_IsBij
<1>5. IsFiniteSet(T)
  BY <1>1, CountType
<1>6. Cardinality(S) = Cardinality(T)
  <2> HIDE DEF S, T, f
  <2> QED BY <1>4, <1>5, FS_Bijection DEF ExistsBijection
<1>7. Cardinality(S) = IF 1 \in At(s, reason) THEN Count(s, reason) - 1 ELSE Count(s, reason)
  BY CountType, FS_RemoveElement DEF Count
<1>8. 1 \in At(s, reason) <=> Head(s) = reason
  BY <1>1 DEF At
<1>9. Count(s, reason) \in Nat /\ Count(t, reason) = Cardinality(T)
  BY CountType DEF Count
<1> HIDE DEF S, T
<1> QED BY <1>6, <1>7, <1>8, <1>9 DEF t

-----------------------------------------------------------------------------
(* Types                                                                   *)

Evaluating == pc \in {"r1", "r2", "exit", "upsert"}

(* The rest of the types, and what is at hand at each step. *)
Typed ==
  /\ TypeOK
  /\ price \in Nat /\ avg_price \in Nat /\ stop_qty \in Nat /\ selling \in Nat
  /\ sell_qty \in Nat /\ seen \in Nat /\ faults \in Nat
  /\ sold \in [{"r1_trim", "r2_trim"} -> Nat]
  /\ Evaluating => ps \in Row
  /\ pc \in {"sell", "record", "mark"} => batch # <<>>

LEMMA RowFacts ==
  ASSUME Typed
  PROVE  /\ MeasuredMove \in Nat /\ TrailDistance \in Int
         /\ Loaded \in Row
         /\ row # NoRow => row \in Row /\ Loaded.r1 = row.r1 /\ Loaded.r2 = row.r2
         /\ row = NoRow => ~Loaded.r1 /\ ~Loaded.r2
<1>1. MeasuredMove \in Nat /\ TrailDistance \in Int
  BY TrimConstants DEF MeasuredMove, TrailDistance
<1>2. CASE row = NoRow
  BY <1>1, <1>2, TrimConstants DEF Loaded, Row, Typed
<1>3. CASE row # NoRow
  <2>1. row \in Row /\ row.high \in Nat
    BY <1>3 DEF Typed, TypeOK, Row
  <2>2. Max({row.high, price}) \in Nat
    <3>1. row.high \in Int /\ price \in Int /\ price \in Nat
      BY <2>1 DEF Typed
    <3> QED BY <2>1, <3>1, MaxOfTwo
  <2>3. Loaded = [row EXCEPT !.avg = avg_price, !.high = Max({row.high, price})]
    BY <1>3, <2>1 DEF Loaded, Row
  <2> QED BY <1>1, <1>3, <2>1, <2>2, <2>3 DEF Row, Typed
<1> QED BY <1>2, <1>3

LEMMA LeaveTypes ==
  ASSUME LeaveCycle
  PROVE  /\ pc' = "idle" /\ seen' = 0 /\ ps' = NoRow /\ batch' = <<>> /\ sell_qty' = 0
         /\ batch' \in Seq(Reasons)
  BY DEF LeaveCycle

(* What is not offered yet may be. *)
LEMMA AvailableFacts ==
  ASSUME Typed
  PROVE  /\ Available \in Nat /\ stop_qty + selling + Available <= position
  BY DEF Typed, TypeOK, Available

LEMMA TypedInit == Init => Typed
<1> SUFFICES ASSUME Init PROVE Typed
  OBVIOUS
<1>1. sold \in [{"r1_trim", "r2_trim"} -> Nat]
  BY DEF Init
<1>2. position \in Nat /\ stop_qty + selling <= position /\ day \in 1..MaxDay
  BY TrimConstants DEF Init
<1> QED BY <1>1, <1>2, TrimConstants DEF Init, Typed, TypeOK, Steps, Evaluating

LEMMA TypedNext == Typed /\ [Next]_vars => Typed'
<1> SUFFICES ASSUME Typed, [Next]_vars PROVE Typed'
  OBVIOUS
<1>0. TypeOK /\ Available \in Nat /\ stop_qty + selling + Available <= position
  BY AvailableFacts DEF Typed
<1> USE <1>0 DEF Typed, Evaluating, market, broker, states, local, budgets
<1>1. CASE BeginCycle
  BY <1>1 DEF BeginCycle, TypeOK, Steps
<1>2. CASE ManageStops
  <2>1. stop_qty' \in {stop_qty, 0, stop_qty + Available}
    BY <1>2 DEF ManageStops
  <2>0. stop_level' \in StopLevels \union {0}
    BY <1>2 DEF ManageStops, TypeOK
  <2>2. /\ stop_qty \in Nat /\ selling \in Nat /\ position \in Nat
        /\ stop_qty + selling <= position
    BY DEF TypeOK
  <2>3. stop_qty' \in Nat
    BY <2>1, <2>2
  <2>4. stop_qty' + selling <= position
    <3>1. Available \in Nat /\ stop_qty + selling + Available <= position
      OBVIOUS
    <3>2. CASE stop_qty' = stop_qty + Available
      BY <2>2, <3>1, <3>2
    <3>3. CASE stop_qty' = stop_qty
      BY <2>2, <3>3
    <3>4. CASE stop_qty' = 0
      <4>1. selling <= position
        BY <2>2
      <4> QED BY <2>2, <3>4, <4>1
    <3> QED BY <2>1, <3>2, <3>3, <3>4
  <2>5. position' \in Nat /\ stop_qty' + selling' <= position'
    BY <1>2, <2>2, <2>4 DEF ManageStops
  <2>6. TypeOK'
    <3>1. day' \in 1..MaxDay /\ price' \in Prices /\ candidate' \in BOOLEAN
      BY <1>2 DEF ManageStops, TypeOK, Steps
    <3>2. row' \in Row \union {NoRow} /\ ps' \in Row \union {NoRow}
      BY <1>2 DEF ManageStops, TypeOK, Steps
    <3>3. trim_intents' \in Seq(Reasons) /\ batch' \in Seq(Reasons)
      BY <1>2 DEF ManageStops, TypeOK, Steps
    <3>4. /\ symbol_state' \in {"FLAT", "ENTERING", "OPEN", "EXITING"}
          /\ fill_ts' \in {"none", "recent", "old"} /\ pc' \in Steps
      BY <1>2 DEF ManageStops, TypeOK, Steps
    <3>5. (sell_qty' > 0) = (pc' \in {"sell", "record", "mark"})
      BY <1>2 DEF ManageStops, TypeOK, Steps
    <3> QED BY <2>0, <2>5, <3>1, <3>2, <3>3, <3>4, <3>5 DEF TypeOK
  <2> QED BY <1>2, <2>3, <2>6 DEF ManageStops
<1>3. CASE ReadPosition
  BY <1>3, RowFacts DEF ReadPosition, TypeOK, Steps
<1>4. CASE NothingToEvaluate
  BY <1>4 DEF NothingToEvaluate, TypeOK, Steps
<1>5. CASE EvaluateR1
  <2>1. Append(trim_intents, "r1_trim") \in Seq(Reasons)
    BY DEF TypeOK, Reasons
  <2>2. ps \in Row /\ ps.stop \in Nat /\ ps.avg \in Nat
    BY <1>5 DEF EvaluateR1, Row
  <2>3. Max({ps.stop, ps.avg}) \in Nat
    <3>1. ps.stop \in Int /\ ps.avg \in Int
      BY <2>2
    <3> QED BY <2>2, <3>1, MaxOfTwo
  <2>4. ps' \in Row
    BY <1>5, <2>2, <2>3 DEF EvaluateR1, Row
  <2>5. trim_intents' \in Seq(Reasons)
    BY <1>5, <2>1 DEF EvaluateR1, Add, TypeOK
  <2> QED BY <1>5, <2>4, <2>5 DEF EvaluateR1, TypeOK, Steps
<1>6. CASE EvaluateR2
  <2>1. Append(trim_intents, "r2_trim") \in Seq(Reasons)
    BY DEF TypeOK, Reasons
  <2>2. ps \in Row /\ [ps EXCEPT !.r2 = TRUE] \in Row
    BY <1>6 DEF EvaluateR2, Row
  <2>3. \A p \in Row : Trailed(p) \in Row
    <3> SUFFICES ASSUME NEW p \in Row PROVE Trailed(p) \in Row
      OBVIOUS
    <3>1. p.stop \in Nat /\ p.high - TrailDistance \in Int
      BY RowFacts DEF Row
    <3>2. Max({p.stop, p.high - TrailDistance}) \in Nat
      <4>1. p.stop \in Int
        BY <3>1
      <4>2. LET m == Max({p.stop, p.high - TrailDistance})
            IN m \in {p.stop, p.high - TrailDistance} /\ m >= p.stop
        BY <3>1, <4>1, MaxOfTwo
      <4> QED BY <3>1, <4>2
    <3> QED BY <3>2 DEF Trailed, Row
  <2>4. ps' \in Row
    BY <1>6, <2>2, <2>3 DEF EvaluateR2
  <2>5. trim_intents' \in Seq(Reasons)
    BY <1>6, <2>1 DEF EvaluateR2, Add, TypeOK
  <2> QED BY <1>6, <2>4, <2>5 DEF EvaluateR2, TypeOK, Steps
<1>7. CASE EvaluateStop
  <2>1. Append(trim_intents, "stop_exit") \in Seq(Reasons)
    BY DEF TypeOK, Reasons
  <2>2. trim_intents' \in Seq(Reasons)
    BY <1>7, <2>1 DEF EvaluateStop, Add, TypeOK
  <2> QED BY <1>7, <2>2 DEF EvaluateStop, TypeOK, Steps
<1>8. CASE UpsertPosition
  BY <1>8 DEF UpsertPosition, TypeOK, Steps
<1>9. CASE EvaluationRaises
  BY <1>9 DEF EvaluationRaises, Fault, TypeOK, Steps
<1>10. CASE Refresh
  BY <1>10 DEF Refresh, Fault, TypeOK, Steps
<1>11. CASE PopTrims
  BY <1>11 DEF PopTrims, TypeOK, Steps
<1>12. CASE DropTrim
  <2>1. Tail(batch) \in Seq(Reasons)
    BY <1>12, HeadTailProperties DEF DropTrim, TypeOK
  <2> QED BY <1>12, <2>1 DEF DropTrim, Fault, TypeOK, Steps
<1>13. CASE TakeTrim
  <2>1. TrimQty(Head(batch)) \in Nat /\ TrimQty(Head(batch)) > 0
    BY <1>13 DEF TakeTrim, Sells, TrimQty, TypeOK
  <2> QED BY <1>13, <2>1 DEF TakeTrim, TypeOK, Steps
<1>14. CASE SellAccepted
  <2>1. pc = "sell" /\ Tail(batch) \in Seq(Reasons) /\ Head(batch) \in Reasons
    BY <1>14, HeadTailProperties DEF SellAccepted, TypeOK
  <2>2. selling' \in Nat /\ stop_qty + selling' <= position /\ position \in Nat
    BY <1>14 DEF SellAccepted, BrokerAccepts, TypeOK
  <2>3. sold' \in [{"r1_trim", "r2_trim"} -> Nat]
    BY <1>14, <2>1 DEF SellAccepted, BrokerAccepts, Reasons
  <2>5. position' \in Nat /\ stop_qty' + selling' <= position'
    BY <1>14, <2>2 DEF SellAccepted
  <2>4. TypeOK'
    <3>1. /\ day' \in 1..MaxDay /\ price' \in Prices /\ candidate' \in BOOLEAN
          /\ stop_level' \in StopLevels \union {0}
      BY <1>14, <2>1 DEF SellAccepted, TypeOK, Steps
    <3>2. row' \in Row \union {NoRow} /\ ps' \in Row \union {NoRow}
      BY <1>14, <2>1 DEF SellAccepted, TypeOK, Steps
    <3>3. trim_intents' \in Seq(Reasons) /\ batch' \in Seq(Reasons)
      BY <1>14, <2>1 DEF SellAccepted, TypeOK, Steps
    <3>4. /\ symbol_state' \in {"FLAT", "ENTERING", "OPEN", "EXITING"}
          /\ fill_ts' \in {"none", "recent", "old"} /\ pc' \in Steps
      BY <1>14, <2>1 DEF SellAccepted, TypeOK, Steps
    <3>5. (sell_qty' > 0) = (pc' \in {"sell", "record", "mark"})
      BY <1>14, <2>1 DEF SellAccepted, TypeOK, Steps
    <3> QED BY <2>5, <3>1, <3>2, <3>3, <3>4, <3>5 DEF TypeOK
  <2> QED BY <1>14, <2>1, <2>2, <2>3, <2>4 DEF SellAccepted
<1>15. CASE SellRaises
  <2>1. pc = "sell" /\ Head(batch) \in Reasons
    BY <1>15, HeadTailProperties DEF SellRaises, TypeOK
  <2>2. selling' \in Nat /\ stop_qty + selling' <= position /\ position \in Nat
    BY <1>15 DEF SellRaises, BrokerAccepts, TypeOK
  <2>3. sold' \in [{"r1_trim", "r2_trim"} -> Nat] /\ faults' \in Nat
    BY <1>15, <2>1 DEF SellRaises, BrokerAccepts, Fault, Reasons
  <2>5. position' \in Nat /\ stop_qty' + selling' <= position'
    BY <1>15, <2>2 DEF SellRaises
  <2>4. TypeOK'
    BY <1>15, <2>5, LeaveTypes DEF SellRaises, TypeOK, Steps
  <2> QED BY <1>15, <2>1, <2>2, <2>3, <2>4, LeaveTypes DEF SellRaises
<1>16. CASE RecordSell
  BY <1>16 DEF RecordSell, TypeOK, Steps
<1>17. CASE MarkExiting
  <2>1. Tail(batch) \in Seq(Reasons)
    BY <1>17, HeadTailProperties DEF MarkExiting, TypeOK
  <2> QED BY <1>17, <2>1 DEF MarkExiting, TypeOK, Steps
<1>18. CASE FinishCycle
  BY <1>18, LeaveTypes DEF FinishCycle, TypeOK, Steps
<1>19. CASE Crash
  BY <1>19, LeaveTypes DEF Crash, Fault, TypeOK, Steps
<1>20. CASE Tick
  BY <1>20, TrimConstants DEF Tick, TypeOK
<1>21. CASE TimePasses
  BY <1>21 DEF TimePasses, TypeOK
<1>22. CASE EntryFills
  <2>1. position' \in Nat /\ position' >= 0 /\ stop_qty = 0 /\ selling = 0
    BY <1>22, TrimConstants DEF EntryFills, TypeOK
  <2> QED BY <1>22, <2>1 DEF EntryFills, TypeOK
<1>23. CASE SellFills
  <2>1. PICK q \in 1..selling : position' = position - q /\ selling' = selling - q
    BY <1>23 DEF SellFills
  <2>2. /\ position' \in Nat /\ selling' \in Nat /\ stop_qty + selling' <= position'
    BY <2>1 DEF TypeOK
  <2> QED BY <1>23, <2>2 DEF SellFills, TypeOK
<1>24. CASE StopFires
  <2>1. /\ position' \in Nat /\ stop_qty' = 0 /\ selling <= position'
    BY <1>24 DEF StopFires, TypeOK
  <2> QED BY <1>24, <2>1 DEF StopFires, TypeOK
<1>25. CASE NextDay
  BY <1>25, TrimConstants DEF NextDay, TypeOK
<1>26. CASE UNCHANGED vars
  BY <1>26 DEF vars, TypeOK
<1>27. CASE RestFills
  <2>1. PICK q \in EntryQtys : position' = position + q
    BY <1>27 DEF RestFills
  <2>2. position' \in Nat /\ stop_qty + selling <= position'
    <3>1. q \in Nat /\ position \in Nat /\ stop_qty + selling <= position
      BY TrimConstants DEF TypeOK
    <3> QED BY <2>1, <3>1
  <2>3. avg_price' \in Nat
    <3>1. price \in Int /\ avg_price \in Int
      OBVIOUS
    <3>2. Min({avg_price, price}) \in Nat /\ Max({avg_price, price}) \in Nat
      BY <3>1, MinOfTwo, MaxOfTwo
    <3> QED BY <1>27, <3>2 DEF RestFills
  <2>4. TypeOK'
    BY <1>27, <2>2 DEF RestFills, TypeOK
  <2> QED BY <1>27, <2>3, <2>4 DEF RestFills, TypeOK
<1> QED
  BY <1>1, <1>2, <1>3, <1>4, <1>5, <1>6, <1>7, <1>8, <1>9, <1>10, <1>11, <1>12, <1>13,
     <1>14, <1>15, <1>16, <1>17, <1>18, <1>19, <1>20, <1>21, <1>22, <1>23, <1>24, <1>25,
     <1>26, <1>27 DEF Next, CycleStep

(* Every variable stays in its type, and shares on offer are shares held:  *)
(* the stop and the market sells never offer a share twice.                *)
THEOREM TypeCorrect == Spec => []TypeOK
<1>1. Typed => TypeOK
  BY DEF Typed
<1> QED BY <1>1, TypedInit, TypedNext, PTL DEF Spec

-----------------------------------------------------------------------------
(* Counting                                                                *)

Levels == {"r1_trim", "r2_trim"}

Flag(p, level) == IF level = "r1_trim" THEN p.r1 ELSE p.r2

(* The flag that decides: the one in memory during an evaluation, else the *)
(* row's.                                                                  *)
Flagged(level) == IF Evaluating THEN Flag(ps, level)
                                ELSE row # NoRow /\ Flag(row, level)

(* Trims that may still be sold; the one at hand may have been already.    *)
Pending(level) ==
  Count(trim_intents, level) + Count(batch, level)
    - IF pc \in {"record", "mark"} /\ Head(batch) = level THEN 1 ELSE 0

FiredOrPending ==
  \A level \in Levels :
    sold[level] + Pending(level) <= faults + IF Flagged(level) THEN 1 ELSE 0

(* From R2 on the stop trails, in the row and at the end of an evaluation; *)
(* without a measured move R2 is never reached.                            *)
Trails(p) ==
  /\ p.r2 => p.stop >= p.high - TrailDistance
  /\ MeasuredMove = 0 => ~p.r2

Trailing ==
  /\ row # NoRow => Trails(row)
  /\ pc \in {"exit", "upsert"} => Trails(ps)
  /\ pc \in {"r1", "r2"} => MeasuredMove # 0

(* What the head of the popped trims counts for. *)
LEMMA BatchFacts ==
  ASSUME Typed, NEW level
  PROVE  /\ Count(trim_intents, level) \in Nat /\ Count(batch, level) \in Nat
         /\ Pending(level) \in Nat
         /\ batch # <<>> =>
              /\ Head(batch) \in Reasons /\ Count(Tail(batch), level) \in Nat
              /\ Count(Tail(batch), level) =
                   Count(batch, level) - IF Head(batch) = level THEN 1 ELSE 0
<1>1. trim_intents \in Seq(Reasons) /\ batch \in Seq(Reasons)
  BY DEF Typed, TypeOK
<1>2. Count(trim_intents, level) \in Nat /\ Count(batch, level) \in Nat
  BY <1>1, CountType
<1>3. ASSUME batch # <<>>
      PROVE  /\ Head(batch) \in Reasons /\ Tail(batch) \in Seq(Reasons)
             /\ Count(Tail(batch), level) \in Nat
             /\ Count(Tail(batch), level) =
                  Count(batch, level) - IF Head(batch) = level THEN 1 ELSE 0
  <2>1. Head(batch) \in Reasons /\ Tail(batch) \in Seq(Reasons)
    BY <1>1, <1>3, HeadTailProperties
  <2> QED BY <1>1, <1>3, <2>1, CountType, CountTail
<1>4. Pending(level) \in Nat
  <2>1. CASE pc \in {"record", "mark"} /\ Head(batch) = level
    <3>1. batch # <<>>
      BY <2>1 DEF Typed
    <3>2. Count(batch, level) - 1 \in Nat
      BY <1>3, <2>1, <3>1
    <3>3. Pending(level) = Count(trim_intents, level) + Count(batch, level) - 1
      BY <2>1 DEF Pending
    <3> QED BY <1>2, <3>2, <3>3
  <2>2. CASE ~(pc \in {"record", "mark"} /\ Head(batch) = level)
    BY <1>2, <2>2 DEF Pending
  <2> QED BY <2>1, <2>2
<1> QED BY <1>2, <1>3, <1>4

LEMMA PendingType == Typed => \A level : Pending(level) \in Nat
  BY BatchFacts

LEMMA PendingTypeAfter == (Typed => \A level : Pending(level) \in Nat)'
  BY PendingType, PTL

LEMMA FlagFacts ==
  ASSUME Typed, NEW level \in Levels
  PROVE  /\ Flagged(level) \in BOOLEAN
         /\ Flag(Loaded, level) = (row # NoRow /\ Flag(row, level))
         /\ sold[level] \in Nat /\ faults \in Nat
<1>1. Loaded.r1 \in BOOLEAN /\ Loaded.r2 \in BOOLEAN
  BY RowFacts DEF Row
<1>2. Evaluating => ps.r1 \in BOOLEAN /\ ps.r2 \in BOOLEAN
  BY DEF Typed, Row
<1>3. row # NoRow => row.r1 \in BOOLEAN /\ row.r2 \in BOOLEAN
  BY RowFacts DEF Row
<1>4. Flagged(level) \in BOOLEAN
  BY <1>2, <1>3 DEF Flagged, Flag
<1>5. Flag(Loaded, level) = (row # NoRow /\ Flag(row, level))
  <2>1. CASE row = NoRow
    BY <1>1, <2>1, RowFacts DEF Flag
  <2>2. CASE row # NoRow
    BY <1>3, <2>2, RowFacts DEF Flag
  <2> QED BY <2>1, <2>2
<1> QED BY <1>4, <1>5 DEF Typed, Levels

LEMMA FiredInit == Init => FiredOrPending
<1> SUFFICES ASSUME Init, NEW level \in Levels
             PROVE  sold[level] + Pending(level) <= faults + IF Flagged(level) THEN 1 ELSE 0
  BY DEF FiredOrPending
<1>1. sold[level] = 0
  BY DEF Init, Levels
<1>2. Pending(level) = 0
  BY CountEmpty DEF Init, Pending
<1>3. ~Flagged(level) /\ faults = 0
  BY DEF Init, Flagged, Evaluating
<1> QED BY <1>1, <1>2, <1>3

LEMMA RowIsARow == \A p \in Row : p # NoRow
<1> SUFFICES ASSUME NEW p \in Row, p = NoRow PROVE FALSE
  OBVIOUS
<1>1. "avg" \in DOMAIN p
  BY DEF Row
<1>2. DOMAIN p = {"stop"}
  BY DEF NoRow
<1> QED BY <1>1, <1>2

(* A step that sells nothing more than it takes off the queues, and lowers *)
(* a flag at the price of a fault only.                                    *)
LEMMA FiredStep ==
  ASSUME Typed, Typed', FiredOrPending, NEW level \in Levels,
         \/ /\ sold'[level] + Pending(level)' <= sold[level] + Pending(level)
            /\ faults' >= faults
            /\ Flagged(level)' = Flagged(level) \/ faults' > faults
         \/ /\ sold'[level] + Pending(level)' = sold[level] + Pending(level) + 1
            /\ faults' = faults /\ ~Flagged(level) /\ Flagged(level)'
  PROVE  sold'[level] + Pending(level)' <= faults' + IF Flagged(level)' THEN 1 ELSE 0
<1>1. sold[level] \in Nat /\ sold'[level] \in Nat /\ faults \in Nat /\ faults' \in Nat
  BY DEF Typed, Levels
<1>2. Pending(level) \in Nat /\ Pending(level)' \in Nat
  BY PendingType, PendingTypeAfter
<1>3. sold[level] + Pending(level) <= faults + IF Flagged(level) THEN 1 ELSE 0
  BY DEF FiredOrPending
<1>4. CASE Flagged(level)
  <2>1. sold'[level] + Pending(level)' <= sold[level] + Pending(level) /\ faults' >= faults
    BY <1>4
  <2>2. sold[level] + Pending(level) <= faults + 1
    BY <1>3, <1>4
  <2>3. CASE Flagged(level)'
    BY <1>1, <1>2, <2>1, <2>2, <2>3
  <2>4. CASE ~Flagged(level)'
    <3>1. faults' > faults
      BY <1>4, <2>4
    <3> QED BY <1>1, <1>2, <2>1, <2>2, <2>4, <3>1
  <2> QED BY <2>3, <2>4
<1>5. CASE ~Flagged(level)
  BY <1>1, <1>2, <1>3, <1>5
<1> QED BY <1>4, <1>5

(* A step outside the queues and the flags. *)
LEMMA FiredSame ==
  ASSUME Typed, Typed', FiredOrPending, UNCHANGED <<trim_intents, batch, sold, row>>,
         (pc \in {"record", "mark"}) = (pc \in {"record", "mark"})',
         \/ ~Evaluating /\ ~Evaluating'
         \/ Evaluating = Evaluating' /\ ps' = ps,
         faults' >= faults
  PROVE  FiredOrPending'
<1> SUFFICES ASSUME NEW level \in Levels
             PROVE  sold'[level] + Pending(level)' <= faults' + IF Flagged(level)' THEN 1 ELSE 0
  BY DEF FiredOrPending
<1>1. Pending(level)' = Pending(level)
  BY DEF Pending
<1>2. Flagged(level)' = Flagged(level)
  BY DEF Flagged
<1>3. sold'[level] + Pending(level)' <= sold[level] + Pending(level)
  BY <1>1, PendingType, FlagFacts
<1> QED BY <1>2, <1>3, FiredStep

LEMMA FiredNext == Typed /\ Typed' /\ FiredOrPending /\ [Next]_vars => FiredOrPending'
<1> SUFFICES ASSUME Typed, Typed', FiredOrPending, [Next]_vars PROVE FiredOrPending'
  OBVIOUS
<1> USE DEF market, broker, states, local, budgets
<1>0. faults \in Nat /\ faults' \in Nat
  BY DEF Typed
<1>1. CASE BeginCycle \/ ManageStops \/ NothingToEvaluate \/ TakeTrim \/ RecordSell \/ NextDay
  BY <1>0, <1>1, FiredSame
     DEF BeginCycle, ManageStops, NothingToEvaluate, TakeTrim, RecordSell, NextDay,
         Evaluating
<1>2. CASE Refresh
  BY <1>0, <1>2, FiredSame DEF Refresh, Fault, Evaluating
<1>3. CASE Tick \/ TimePasses \/ EntryFills \/ RestFills \/ SellFills \/ StopFires
           \/ UNCHANGED vars
  BY <1>0, <1>3, FiredSame
     DEF Tick, TimePasses, EntryFills, RestFills, SellFills, StopFires, vars, Evaluating
<1> SUFFICES ASSUME NEW level \in Levels,
                    ~(BeginCycle \/ ManageStops \/ NothingToEvaluate \/ TakeTrim \/ RecordSell
                      \/ NextDay \/ Refresh \/ Tick \/ TimePasses \/ EntryFills \/ RestFills
                      \/ SellFills \/ StopFires \/ UNCHANGED vars)
             PROVE  sold'[level] + Pending(level)' <= faults' + IF Flagged(level)' THEN 1 ELSE 0
  BY <1>1, <1>2, <1>3 DEF FiredOrPending
<1> DEFINE queued == Count(trim_intents, level)
           popped == Count(batch, level)
<1>4. /\ queued \in Nat /\ popped \in Nat /\ Pending(level) \in Nat /\ sold[level] \in Nat
      /\ level \in Reasons /\ level # "stop_exit"
      /\ trim_intents \in Seq(Reasons) /\ batch \in Seq(Reasons)
  BY BatchFacts, FlagFacts DEF Levels, Reasons, Typed, TypeOK
<1>5. pc \notin {"record", "mark"} => Pending(level) = queued + popped
  BY <1>4 DEF Pending
<1>6. pc' \notin {"record", "mark"}
        => Pending(level)' = Count(trim_intents', level) + Count(batch', level)
  <2>1. (Typed => \A lv : Pending(lv) \in Nat)'
    BY PendingTypeAfter
  <2>2. Count(trim_intents', level) \in Nat /\ Count(batch', level) \in Nat
    BY CountType DEF Typed, TypeOK
  <2> QED BY <2>2 DEF Pending
<1> HIDE DEF queued, popped
<1>7. CASE ReadPosition
  <2>1. Pending(level)' = Pending(level)
    BY <1>7 DEF ReadPosition, Pending
  <2>2. Flagged(level)' = Flagged(level)
    <3>1. ps' = Loaded /\ pc' \in {"upsert", "r1"} /\ pc = "read"
      BY <1>7 DEF ReadPosition
    <3> QED BY <3>1, FlagFacts DEF Flagged, Flag, Evaluating
  <2> QED BY <1>0, <1>4, <1>7, <2>1, <2>2, FiredStep DEF ReadPosition
<1>8. CASE EvaluateR1
  <2>1. /\ ps \in Row /\ pc = "r1" /\ pc' = "r2" /\ batch' = batch /\ sold' = sold
        /\ faults' = faults
    BY <1>8 DEF EvaluateR1, Typed, Evaluating
  <2>2. Flag(ps, "r2_trim") = Flag(ps', "r2_trim")
    BY <1>8, <2>1 DEF EvaluateR1, Row, Flag
  <2>3. CASE seen >= R1 /\ ~ps.r1
    <3>1. /\ trim_intents' = Append(trim_intents, "r1_trim") /\ ps'.r1 = TRUE
      BY <1>8, <2>1, <2>3 DEF EvaluateR1, Add, Row
    <3>2. Count(trim_intents', level) = queued + IF level = "r1_trim" THEN 1 ELSE 0
      BY <1>4, <3>1, CountAppend DEF Reasons, queued
    <3>3. Pending(level)' = Pending(level) + IF level = "r1_trim" THEN 1 ELSE 0
      BY <1>4, <1>5, <1>6, <2>1, <3>2 DEF popped
    <3>4. CASE level = "r1_trim"
      <4>1. ~Flagged(level) /\ Flagged(level)'
        BY <2>1, <2>3, <3>1, <3>4 DEF Flagged, Flag, Evaluating
      <4> QED BY <1>4, <2>1, <3>3, <3>4, <4>1, FiredStep
    <3>5. CASE level = "r2_trim"
      <4>1. Flagged(level)' = Flagged(level)
        BY <2>1, <2>2, <3>5 DEF Flagged, Evaluating
      <4> QED BY <1>0, <1>4, <2>1, <3>3, <3>5, <4>1, FiredStep
    <3> QED BY <3>4, <3>5 DEF Levels
  <2>4. CASE ~(seen >= R1 /\ ~ps.r1)
    <3>1. UNCHANGED <<trim_intents, ps>>
      BY <1>8, <2>4 DEF EvaluateR1
    <3>2. Pending(level)' = Pending(level)
      BY <2>1, <3>1 DEF Pending
    <3>3. Flagged(level)' = Flagged(level)
      BY <2>1, <3>1 DEF Flagged, Evaluating
    <3> QED BY <1>0, <1>4, <2>1, <3>2, <3>3, FiredStep
  <2> QED BY <2>3, <2>4
<1>9. CASE EvaluateR2
  <2>1. /\ ps \in Row /\ pc = "r2" /\ pc' = "exit" /\ batch' = batch /\ sold' = sold
        /\ faults' = faults
    BY <1>9 DEF EvaluateR2, Typed, Evaluating
  <2>2. \A q \in Row : Trailed(q).r1 = q.r1 /\ Trailed(q).r2 = q.r2
    BY DEF Trailed, Row
  <2>3. CASE seen >= R2 /\ ~ps.r2
    <3>1. [ps EXCEPT !.r2 = TRUE] \in Row
      BY <2>1 DEF Row
    <3>2. /\ trim_intents' = Append(trim_intents, "r2_trim")
          /\ ps'.r2 = TRUE /\ ps'.r1 = ps.r1
      BY <1>9, <2>1, <2>2, <2>3, <3>1 DEF EvaluateR2, Add, Row
    <3>3. Count(trim_intents', level) = queued + IF level = "r2_trim" THEN 1 ELSE 0
      BY <1>4, <3>2, CountAppend DEF Reasons, queued
    <3>4. Pending(level)' = Pending(level) + IF level = "r2_trim" THEN 1 ELSE 0
      BY <1>4, <1>5, <1>6, <2>1, <3>3 DEF popped
    <3>5. CASE level = "r2_trim"
      <4>1. ~Flagged(level) /\ Flagged(level)'
        BY <2>1, <2>3, <3>2, <3>5 DEF Flagged, Flag, Evaluating
      <4> QED BY <1>4, <2>1, <3>4, <3>5, <4>1, FiredStep
    <3>6. CASE level = "r1_trim"
      <4>1. Flagged(level)' = Flagged(level)
        BY <2>1, <3>2, <3>6 DEF Flagged, Flag, Evaluating
      <4> QED BY <1>0, <1>4, <2>1, <3>4, <3>6, <4>1, FiredStep
    <3> QED BY <3>5, <3>6 DEF Levels
  <2>4. CASE ~(seen >= R2 /\ ~ps.r2)
    <3>1. UNCHANGED trim_intents /\ ps' = Trailed(ps)
      BY <1>9, <2>4 DEF EvaluateR2
    <3>2. Pending(level)' = Pending(level)
      BY <2>1, <3>1 DEF Pending
    <3>3. Flagged(level)' = Flagged(level)
      BY <2>1, <2>2, <3>1 DEF Flagged, Flag, Evaluating
    <3> QED BY <1>0, <1>4, <2>1, <3>2, <3>3, FiredStep
  <2> QED BY <2>3, <2>4
<1>10. CASE EvaluateStop
  <2>1. /\ pc = "exit" /\ pc' = "upsert" /\ batch' = batch /\ sold' = sold /\ ps' = ps
        /\ faults' = faults
        /\ trim_intents' \in {trim_intents, Append(trim_intents, "stop_exit")}
    BY <1>10 DEF EvaluateStop, Add
  <2>2. Count(trim_intents', level) = queued
    <3>1. Count(Append(trim_intents, "stop_exit"), level) = queued
      BY <1>4, CountAppend DEF Reasons, queued
    <3> QED BY <2>1, <3>1 DEF queued
  <2>3. Pending(level)' = Pending(level)
    BY <1>5, <1>6, <2>1, <2>2 DEF popped
  <2>4. Flagged(level)' = Flagged(level)
    BY <2>1 DEF Flagged, Evaluating
  <2> QED BY <1>0, <1>4, <2>1, <2>3, <2>4, FiredStep
<1>11. CASE UpsertPosition
  <2>1. /\ pc = "upsert" /\ pc' = "refresh" /\ row' = ps /\ ps \in Row /\ faults' = faults
        /\ UNCHANGED <<trim_intents, batch, sold>>
    BY <1>11 DEF UpsertPosition, Typed, Evaluating
  <2>2. Pending(level)' = Pending(level)
    BY <2>1 DEF Pending
  <2>3. Flagged(level)' = Flagged(level)
    <3>1. Flag(ps, level) \in BOOLEAN /\ ps # NoRow
      BY <2>1, RowIsARow DEF Flag, Row
    <3> QED BY <2>1, <3>1 DEF Flagged, Flag, Evaluating
  <2> QED BY <1>0, <1>4, <2>1, <2>2, <2>3, FiredStep
<1>12. CASE EvaluationRaises
  <2>1. /\ pc' = "refresh" /\ pc \in {"read", "r1", "r2", "exit", "upsert"}
        /\ faults' = faults + 1 /\ UNCHANGED <<trim_intents, batch, sold>>
    BY <1>12 DEF EvaluationRaises, Fault
  <2>2. Pending(level)' = Pending(level)
    BY <2>1 DEF Pending
  <2> QED BY <1>0, <1>4, <2>1, <2>2, FiredStep
<1>13. CASE PopTrims
  <2>1. /\ batch' = trim_intents /\ trim_intents' = <<>> /\ pc = "pop" /\ pc' = "trims"
        /\ UNCHANGED <<sold, row, faults>>
    BY <1>13 DEF PopTrims
  <2>2. Pending(level)' <= Pending(level)
    BY <1>4, <1>5, <1>6, <2>1, CountEmpty DEF queued
  <2>3. Flagged(level)' = Flagged(level)
    BY <2>1 DEF Flagged, Evaluating
  <2>4. Pending(level)' \in Nat
    BY PendingTypeAfter
  <2> QED BY <1>0, <1>4, <2>1, <2>2, <2>3, <2>4, FiredStep
<1>14. CASE DropTrim
  <2>1. /\ batch' = Tail(batch) /\ batch # <<>> /\ pc = "trims" /\ pc' = pc
        /\ UNCHANGED <<trim_intents, sold, row>> /\ faults' >= faults
    BY <1>0, <1>14 DEF DropTrim, Fault
  <2>2. Count(batch', level) <= popped /\ Count(batch', level) \in Nat
    BY <1>4, <2>1, BatchFacts DEF popped
  <2>3. Pending(level)' <= Pending(level)
    BY <1>4, <1>5, <1>6, <2>1, <2>2 DEF queued
  <2>4. Flagged(level)' = Flagged(level)
    BY <2>1 DEF Flagged, Evaluating
  <2>5. Pending(level)' \in Nat
    BY PendingTypeAfter
  <2> QED BY <1>0, <1>4, <2>1, <2>3, <2>4, <2>5, FiredStep
<1>15. CASE SellAccepted
  <2>1. /\ pc = "sell" /\ batch # <<>> /\ Head(batch) \in Reasons
        /\ UNCHANGED <<trim_intents, row, faults>>
    BY <1>15, BatchFacts DEF SellAccepted, Typed
  <2>2. Flagged(level)' = Flagged(level)
    BY <1>15, <2>1 DEF SellAccepted, Flagged, Evaluating
  <2>3. CASE Head(batch) = "stop_exit"
    <3>1. sold' = sold /\ pc' = "trims" /\ batch' = Tail(batch)
      BY <1>15, <2>3 DEF SellAccepted, BrokerAccepts
    <3>2. Count(batch', level) = popped
      BY <1>4, <2>1, <2>3, <3>1, BatchFacts DEF popped
    <3>3. Pending(level)' = Pending(level)
      BY <1>5, <1>6, <2>1, <3>1, <3>2 DEF queued
    <3> QED BY <1>0, <1>4, <2>1, <2>2, <3>1, <3>3, FiredStep
  <2>4. CASE Head(batch) # "stop_exit"
    <3>1. /\ sold' = [sold EXCEPT ![Head(batch)] = @ + 1] /\ pc' = "record" /\ batch' = batch
      BY <1>15, <2>4 DEF SellAccepted, BrokerAccepts
    <3>2. Pending(level)' = Pending(level) - IF Head(batch) = level THEN 1 ELSE 0
      BY <1>4, <1>5, <2>1, <3>1 DEF Pending, queued, popped
    <3>3. sold'[level] = sold[level] + IF Head(batch) = level THEN 1 ELSE 0
      BY <1>4, <3>1 DEF Typed, Levels
    <3>4. sold'[level] + Pending(level)' <= sold[level] + Pending(level)
      BY <1>4, <3>2, <3>3
    <3> QED BY <1>0, <2>1, <2>2, <3>4, FiredStep
  <2> QED BY <2>3, <2>4
<1>16. CASE SellRaises
  <2>1. /\ pc = "sell" /\ batch # <<>> /\ Head(batch) \in Reasons
        /\ UNCHANGED <<trim_intents, row>> /\ pc' = "idle" /\ batch' = <<>>
    BY <1>16, BatchFacts DEF SellRaises, LeaveCycle, Typed
  <2>2. Flagged(level)' = Flagged(level)
    BY <2>1 DEF Flagged, Evaluating
  <2>3. Pending(level)' = queued
    BY <1>4, <1>6, <2>1, CountEmpty DEF queued
  <2>4. Pending(level) = queued + popped
    BY <1>5, <2>1
  <2>5. CASE UNCHANGED sold /\ (UNCHANGED faults \/ Fault)
    <3>1. faults' >= faults
      BY <1>0, <2>5 DEF Fault
    <3> QED BY <1>0, <1>4, <2>2, <2>3, <2>4, <2>5, <3>1, FiredStep
  <2>6. CASE Fault /\ BrokerAccepts
    <3>1. faults' = faults + 1
      BY <2>6 DEF Fault
    <3>2. sold'[level] = sold[level] + IF Head(batch) = level THEN 1 ELSE 0
      BY <1>4, <2>6 DEF BrokerAccepts, Typed, Levels
    <3>3. Head(batch) = level => popped >= 1
      BY <1>4, <2>1, BatchFacts DEF popped
    <3>4. sold'[level] + Pending(level)' <= sold[level] + Pending(level)
      BY <1>4, <2>3, <2>4, <3>2, <3>3
    <3> QED BY <1>0, <2>2, <3>1, <3>4, FiredStep
  <2> QED BY <1>16, <2>5, <2>6 DEF SellRaises
<1>17. CASE MarkExiting
  <2>1. /\ pc = "mark" /\ pc' = "trims" /\ batch' = Tail(batch) /\ batch # <<>>
        /\ UNCHANGED <<trim_intents, row, sold, faults>>
    BY <1>17 DEF MarkExiting, Typed
  <2>2. Count(batch', level) = popped - IF Head(batch) = level THEN 1 ELSE 0
    BY <2>1, BatchFacts DEF popped
  <2>3. Pending(level) = queued + popped - IF Head(batch) = level THEN 1 ELSE 0
    BY <2>1 DEF Pending, queued, popped
  <2>4. Pending(level)' = Pending(level)
    BY <1>4, <1>6, <2>1, <2>2, <2>3 DEF queued
  <2>5. Flagged(level)' = Flagged(level)
    BY <2>1 DEF Flagged, Evaluating
  <2> QED BY <1>0, <1>4, <2>1, <2>4, <2>5, FiredStep
<1>18. CASE FinishCycle \/ Crash
  <2>1. /\ pc' = "idle" /\ batch' = <<>> /\ UNCHANGED <<trim_intents, row, sold>>
        /\ \/ faults' = faults /\ pc = "trims"
           \/ faults' = faults + 1
    BY <1>18 DEF FinishCycle, Crash, LeaveCycle, Fault
  <2>2. Pending(level)' = queued
    BY <1>4, <1>6, <2>1, CountEmpty DEF queued
  <2>3. Pending(level) >= queued
    <3>1. pc \in {"record", "mark"} /\ Head(batch) = level => popped >= 1
      BY <1>4, BatchFacts DEF popped, Typed
    <3> QED BY <1>4, <3>1 DEF Pending, queued, popped
  <2>4. faults' = faults => Flagged(level)' = Flagged(level)
    BY <1>0, <2>1 DEF Flagged, Evaluating
  <2>5. sold'[level] + Pending(level)' <= sold[level] + Pending(level)
    BY <1>4, <2>1, <2>2, <2>3
  <2> QED BY <1>0, <2>1, <2>4, <2>5, FiredStep
<1> QED
  BY <1>7, <1>8, <1>9, <1>10, <1>11, <1>12, <1>13, <1>14, <1>15, <1>16, <1>17, <1>18
     DEF Next, CycleStep

(* A level of a position fires once, and once more for every fault between *)
(* the queueing of its trim and the flag in the row.                       *)
THEOREM LevelsFireOnce == Spec => []LevelFiresOnce
<1>1. Typed /\ FiredOrPending => LevelFiresOnce
  <2> SUFFICES ASSUME Typed, FiredOrPending, NEW level \in Levels
               PROVE  sold[level] <= 1 + faults
    BY DEF LevelFiresOnce, Levels
  <2>1. sold[level] + Pending(level) <= faults + IF Flagged(level) THEN 1 ELSE 0
    BY DEF FiredOrPending
  <2> QED BY <2>1, PendingType, FlagFacts
<1> QED BY <1>1, TypedInit, TypedNext, FiredInit, FiredNext, PTL DEF Spec

-----------------------------------------------------------------------------
(* The trail                                                               *)

LEMMA TrailedFacts ==
  ASSUME NEW p \in Row
  PROVE  /\ Trailed(p).r2 = p.r2
         /\ Trailed(p).r2 => Trailed(p).stop >= Trailed(p).high - TrailDistance
<1>1. CASE p.r2
  <2>1. p.stop \in Int /\ p.high - TrailDistance \in Int
    BY TrimConstants DEF Row, TrailDistance, MeasuredMove
  <2>2. Max({p.stop, p.high - TrailDistance}) >= p.high - TrailDistance
    BY <2>1, MaxOfTwo
  <2>3. Trailed(p) = [p EXCEPT !.stop = Max({p.stop, p.high - TrailDistance})]
    BY <1>1 DEF Trailed, Row
  <2> QED BY <1>1, <2>2, <2>3 DEF Row
<1>2. CASE ~p.r2
  BY <1>2 DEF Trailed
<1> QED BY <1>1, <1>2

LEMMA TrailingNext == Typed /\ Trailing /\ [Next]_vars => Trailing'
<1> SUFFICES ASSUME Typed, Trailing, [Next]_vars PROVE Trailing'
  OBVIOUS
<1> USE DEF market, broker, states, local, budgets
<1>1. CASE ReadPosition
  <2>1. /\ row' = row /\ ps' = Loaded
        /\ pc' = IF MeasuredMove = 0 THEN "upsert" ELSE "r1"
    BY <1>1 DEF ReadPosition
  <2>2. MeasuredMove = 0 => ~Loaded.r2
    BY RowFacts DEF Trailing, Trails
  <2>3. Loaded \in Row /\ (MeasuredMove = 0 => Trails(Loaded))
    BY <2>2, RowFacts DEF Trails
  <2> QED BY <2>1, <2>3 DEF Trailing, Trails
<1>2. CASE EvaluateR1
  BY <1>2 DEF EvaluateR1, Trailing, Trails
<1>3. CASE EvaluateR2
  <2>1. /\ row' = row /\ pc = "r2" /\ pc' = "exit" /\ ps \in Row /\ MeasuredMove # 0
        /\ [ps EXCEPT !.r2 = TRUE] \in Row
        /\ ps' \in {Trailed([ps EXCEPT !.r2 = TRUE]), Trailed(ps)}
    BY <1>3 DEF EvaluateR2, Typed, Evaluating, Trailing, Row
  <2>2. ps'.r2 => ps'.stop >= ps'.high - TrailDistance
    BY <2>1, TrailedFacts
  <2> QED BY <2>1, <2>2 DEF Trailing, Trails, MeasuredMove, TrailDistance
<1>4. CASE UpsertPosition
  BY <1>4 DEF UpsertPosition, Trailing, Trails
<1>5. CASE row' = row /\ ps' = ps /\ (pc' = pc \/ pc' \notin {"r1", "r2", "exit", "upsert"})
  BY <1>5 DEF Trailing, Trails
<1>6. CASE row' = row /\ pc' \in {"idle", "refresh"}
  BY <1>6 DEF Trailing, Trails
<1>7. CASE EvaluateStop
  BY <1>7 DEF EvaluateStop, Trailing, Trails
<1>8. BeginCycle \/ ManageStops \/ NothingToEvaluate \/ Refresh \/ PopTrims \/ DropTrim
      \/ TakeTrim \/ SellAccepted \/ RecordSell \/ MarkExiting
        => row' = row /\ ps' = ps /\ (pc' = pc \/ pc' \notin {"r1", "r2", "exit", "upsert"})
  BY DEF BeginCycle, ManageStops, NothingToEvaluate, Refresh, PopTrims, DropTrim, TakeTrim,
         SellAccepted, RecordSell, MarkExiting
<1>9. Tick \/ TimePasses \/ EntryFills \/ RestFills \/ SellFills \/ StopFires \/ NextDay
      \/ UNCHANGED vars
        => row' = row /\ ps' = ps /\ pc' = pc
  BY DEF Tick, TimePasses, EntryFills, RestFills, SellFills, StopFires, NextDay, vars
<1>10. EvaluationRaises \/ SellRaises \/ FinishCycle \/ Crash
         => row' = row /\ pc' \in {"idle", "refresh"}
  BY DEF EvaluationRaises, SellRaises, FinishCycle, Crash, LeaveCycle
<1> QED BY <1>1, <1>2, <1>3, <1>4, <1>5, <1>6, <1>7, <1>8, <1>9, <1>10 DEF Next, CycleStep

-----------------------------------------------------------------------------
(* What the row gained                                                     *)

(* What is in memory is no worse than the row it was read from.            *)
Follows(p) ==
  row # NoRow => /\ p.stop >= row.stop /\ p.high >= row.high
                 /\ (row.r1 => p.r1) /\ (row.r2 => p.r2)

Following == Evaluating => Follows(ps)

(* No lower than the cheapest entry. *)
Paid(a) == \E p \in EntryPrices : a >= p

Breakeven(p) == p.r1 => Paid(p.stop)

Even ==
  /\ row # NoRow => Breakeven(row)
  /\ Evaluating => Breakeven(ps) /\ Paid(ps.avg)
  /\ position > 0 => Paid(avg_price)

(* Without faults what was sold or is about to be is flagged in the row.   *)
Shown ==
  faults = 0 => \A level \in Levels :
    sold[level] > 0 \/ Count(batch, level) > 0 => row # NoRow /\ Flag(row, level)

LEMMA LoadedFacts ==
  ASSUME Typed
  PROVE  Follows(Loaded) /\ Loaded.avg = avg_price /\ (row # NoRow => Loaded.stop = row.stop)
<1>1. CASE row = NoRow
  BY <1>1 DEF Loaded, Follows
<1>2. CASE row # NoRow
  <2>1. row \in Row /\ row.high \in Int /\ row.stop \in Nat /\ price \in Int
    BY <1>2 DEF Typed, TypeOK, Row
  <2>2. Max({row.high, price}) >= row.high
    BY <2>1, MaxOfTwo
  <2>3. Loaded = [row EXCEPT !.avg = avg_price, !.high = Max({row.high, price})]
    BY <1>2, <2>1 DEF Loaded, Row
  <2> QED BY <1>2, <2>1, <2>2, <2>3 DEF Follows, Row
<1> QED BY <1>1, <1>2

(* Only an upsert changes the row, only an evaluation what is in memory.   *)
LEMMA RowSteps ==
  ASSUME [Next]_vars
  PROVE  \/ ReadPosition \/ EvaluateR1 \/ EvaluateR2 \/ UpsertPosition
         \/ row' = row /\ ps' = ps /\ pc = "exit" /\ pc' = "upsert"
         \/ row' = row /\ ps' = ps /\ pc' = pc
         \/ row' = row /\ ~Evaluating'
<1> USE DEF market, broker, states, local, budgets, Evaluating
<1>1. EvaluateStop => row' = row /\ ps' = ps /\ pc = "exit" /\ pc' = "upsert"
  BY DEF EvaluateStop
<1>2. Tick \/ TimePasses \/ EntryFills \/ RestFills \/ SellFills \/ StopFires \/ NextDay
      \/ UNCHANGED vars
        => row' = row /\ ps' = ps /\ pc' = pc
  BY DEF Tick, TimePasses, EntryFills, RestFills, SellFills, StopFires, NextDay, vars
<1>3. BeginCycle \/ ManageStops \/ NothingToEvaluate \/ Refresh \/ PopTrims \/ DropTrim
      \/ TakeTrim \/ SellAccepted \/ RecordSell \/ MarkExiting
        => row' = row /\ ~Evaluating'
  BY DEF BeginCycle, ManageStops, NothingToEvaluate, Refresh, PopTrims, DropTrim, TakeTrim,
         SellAccepted, RecordSell, MarkExiting
<1>4. EvaluationRaises \/ SellRaises \/ FinishCycle \/ Crash => row' = row /\ ~Evaluating'
  BY DEF EvaluationRaises, SellRaises, FinishCycle, Crash, LeaveCycle
<1> QED BY <1>1, <1>2, <1>3, <1>4 DEF Next, CycleStep

(* R1 raises the stop to the average price, if it is lower. *)
LEMMA R1Facts ==
  ASSUME Typed, EvaluateR1
  PROVE  /\ ps \in Row /\ ps'.stop >= ps.stop /\ ps'.high = ps.high /\ ps'.r2 = ps.r2
         /\ ps'.avg = ps.avg /\ (ps.r1 => ps'.r1)
         /\ (ps'.r1 /\ ~ps.r1 => ps'.stop >= ps.avg) /\ ps'.stop \in Nat
<1>1. ps \in Row /\ ps.stop \in Nat /\ ps.avg \in Nat /\ ps.r1 \in BOOLEAN
  BY DEF EvaluateR1, Typed, Evaluating, Row
<1>2. LET m == Max({ps.stop, ps.avg}) IN m \in Nat /\ m >= ps.stop /\ m >= ps.avg
  <2>1. ps.stop \in Int /\ ps.avg \in Int
    BY <1>1
  <2> QED BY <1>1, <2>1, MaxOfTwo
<1>3. CASE seen >= R1 /\ ~ps.r1
  <2>1. ps' = [ps EXCEPT !.r1 = TRUE, !.stop = Max({ps.stop, ps.avg})]
    BY <1>1, <1>3 DEF EvaluateR1, Row
  <2> QED BY <1>1, <1>2, <1>3, <2>1 DEF Row
<1>4. CASE ~(seen >= R1 /\ ~ps.r1)
  <2>1. ps' = ps
    BY <1>4 DEF EvaluateR1
  <2> QED BY <1>1, <2>1
<1> QED BY <1>3, <1>4

(* The trail raises the stop or leaves it. *)
LEMMA R2Facts ==
  ASSUME Typed, EvaluateR2
  PROVE  /\ ps \in Row /\ ps'.stop >= ps.stop /\ ps'.high = ps.high /\ ps'.r1 = ps.r1
         /\ ps'.avg = ps.avg /\ (ps.r2 => ps'.r2) /\ ps'.stop \in Int
<1>1. ps \in Row /\ [ps EXCEPT !.r2 = TRUE] \in Row
  BY DEF EvaluateR2, Typed, Evaluating, Row
<1>2. \A p \in Row : /\ Trailed(p).stop >= p.stop /\ Trailed(p).stop \in Int
                     /\ Trailed(p).high = p.high /\ Trailed(p).avg = p.avg
                     /\ Trailed(p).r1 = p.r1 /\ Trailed(p).r2 = p.r2
  <2> SUFFICES ASSUME NEW p \in Row
               PROVE  /\ Trailed(p).stop >= p.stop /\ Trailed(p).stop \in Int
                      /\ Trailed(p).high = p.high /\ Trailed(p).avg = p.avg
                      /\ Trailed(p).r1 = p.r1 /\ Trailed(p).r2 = p.r2
    OBVIOUS
  <2>1. p.stop \in Int /\ p.high - TrailDistance \in Int
    BY TrimConstants DEF Row, TrailDistance, MeasuredMove
  <2>2. LET m == Max({p.stop, p.high - TrailDistance}) IN m \in Int /\ m >= p.stop
    BY <2>1, MaxOfTwo
  <2>3. CASE p.r2
    <3>1. Trailed(p) = [p EXCEPT !.stop = Max({p.stop, p.high - TrailDistance})]
      BY <2>3 DEF Trailed, Row
    <3> QED BY <2>2, <3>1 DEF Row
  <2>4. CASE ~p.r2
    BY <2>1, <2>4 DEF Trailed
  <2> QED BY <2>3, <2>4
<1>3. ps' \in {Trailed([ps EXCEPT !.r2 = TRUE]), Trailed(ps)}
  BY DEF EvaluateR2
<1>4. CASE ps' = Trailed(ps)
  BY <1>1, <1>2, <1>4
<1>5. CASE ps' = Trailed([ps EXCEPT !.r2 = TRUE])
  <2>1. LET p == [ps EXCEPT !.r2 = TRUE]
        IN p.stop = ps.stop /\ p.high = ps.high /\ p.avg = ps.avg /\ p.r1 = ps.r1 /\ p.r2
    BY <1>1 DEF Row
  <2> QED BY <1>1, <1>2, <1>5, <2>1
<1> QED BY <1>3, <1>4, <1>5

LEMMA FollowingNext == Typed /\ Following /\ [Next]_vars => Following'
<1> SUFFICES ASSUME Typed, Following, [Next]_vars PROVE Following'
  OBVIOUS
<1>0. row # NoRow => row.stop \in Nat /\ row.high \in Nat
  BY DEF Typed, TypeOK, Row
<1>1. CASE ReadPosition
  <2>1. row' = row /\ ps' = Loaded
    BY <1>1 DEF ReadPosition
  <2> QED BY <2>1, LoadedFacts DEF Following, Follows
<1>2. CASE EvaluateR1
  <2>1. row' = row /\ Follows(ps)
    BY <1>2 DEF EvaluateR1, Following, Evaluating
  <2> QED BY <1>0, <1>2, <2>1, R1Facts DEF Following, Follows, Row
<1>3. CASE EvaluateR2
  <2>1. row' = row /\ Follows(ps)
    BY <1>3 DEF EvaluateR2, Following, Evaluating
  <2> QED BY <1>0, <1>3, <2>1, R2Facts DEF Following, Follows, Row
<1>4. CASE UpsertPosition
  BY <1>4 DEF UpsertPosition, Following, Evaluating
<1>5. CASE row' = row /\ ps' = ps /\ pc = "exit" /\ pc' = "upsert"
  BY <1>5 DEF Following, Follows, Evaluating
<1>6. CASE row' = row /\ ps' = ps /\ pc' = pc
  BY <1>6 DEF Following, Follows, Evaluating
<1>7. CASE row' = row /\ ~Evaluating'
  BY <1>7 DEF Following
<1> QED BY <1>1, <1>2, <1>3, <1>4, <1>5, <1>6, <1>7, RowSteps

(* Shares in hand were bought at an entry price, or on average above one.  *)
LEMMA PaidNext ==
  ASSUME Typed, Typed', Even, [Next]_vars
  PROVE  position' > 0 => Paid(avg_price')
<1> USE DEF market, broker, states, local, budgets
<1>1. CASE EntryFills
  <2>1. avg_price' = price /\ price \in EntryPrices /\ price \in Nat
    BY <1>1 DEF EntryFills, Typed
  <2> QED BY <2>1 DEF Paid
<1>2. CASE RestFills
  <2>1. price \in EntryPrices /\ price \in Int /\ avg_price \in Int /\ avg_price \in Nat
        /\ price \in Nat /\ avg_price' \in Nat
    BY <1>2 DEF RestFills, Typed
  <2>2. CASE position = 0
    BY <1>2, <2>1, <2>2 DEF RestFills, Paid
  <2>3. CASE position # 0
    <3>1. PICK e \in EntryPrices : avg_price >= e
      BY <2>3 DEF Even, Paid, Typed, TypeOK
    <3>2. /\ Min({avg_price, price}) \in {avg_price, price}
          /\ Max({avg_price, price}) \in {avg_price, price}
      BY <2>1, MinOfTwo, MaxOfTwo
    <3>3. avg_price' >= Min({avg_price, price})
      BY <1>2, <2>1, <2>3, <3>2 DEF RestFills
    <3>4. e \in Nat
      BY TrimConstants
    <3>5. CASE Min({avg_price, price}) = price
      BY <2>1, <3>3, <3>5 DEF Paid
    <3>6. CASE Min({avg_price, price}) = avg_price
      <4>1. avg_price' >= e
        BY <2>1, <3>1, <3>3, <3>4, <3>6
      <4> QED BY <4>1 DEF Paid
    <3> QED BY <3>2, <3>5, <3>6
  <2> QED BY <2>2, <2>3
<1>3. CASE SellFills \/ StopFires
  <2>1. position \in Nat /\ avg_price' = avg_price /\ position' <= position
    BY <1>3 DEF SellFills, StopFires, Typed, TypeOK
  <2>2. position' \in Nat
    BY DEF Typed, TypeOK
  <2> QED BY <2>1, <2>2 DEF Even
<1>4. CASE UNCHANGED <<position, avg_price>>
  BY <1>4 DEF Even
<1>5. \/ EntryFills \/ RestFills \/ SellFills \/ StopFires
      \/ UNCHANGED <<position, avg_price>>
  BY DEF Next, CycleStep, vars, BeginCycle, ManageStops, ReadPosition, NothingToEvaluate,
     EvaluateR1, EvaluateR2, EvaluateStop, UpsertPosition, EvaluationRaises, Refresh,
     PopTrims, DropTrim, TakeTrim, SellAccepted, SellRaises, RecordSell, MarkExiting,
     FinishCycle, Crash, Tick, TimePasses, NextDay
<1> QED BY <1>1, <1>2, <1>3, <1>4, <1>5

LEMMA EvenNext == Typed /\ Typed' /\ Even /\ [Next]_vars => Even'
<1> SUFFICES ASSUME Typed, Typed', Even, [Next]_vars PROVE Even'
  OBVIOUS
<1>0. position' > 0 => Paid(avg_price')
  BY PaidNext
<1>1. CASE ReadPosition
  <2>1. row' = row /\ ps' = Loaded /\ position > 0
    BY <1>1 DEF ReadPosition
  <2>2. Loaded.r1 => row # NoRow /\ row.r1
    BY RowFacts
  <2>3. Breakeven(Loaded) /\ Paid(Loaded.avg)
    BY <2>1, <2>2, LoadedFacts DEF Even, Breakeven
  <2> QED BY <1>0, <2>1, <2>3 DEF Even
<1>2. CASE EvaluateR1
  <2>1. row' = row /\ Breakeven(ps) /\ Paid(ps.avg)
    BY <1>2 DEF EvaluateR1, Even, Evaluating
  <2>2. Paid(ps'.avg)
    BY <1>2, <2>1, R1Facts
  <2>3. Breakeven(ps')
    <3>1. \A p \in EntryPrices : p \in Nat
      BY TrimConstants
    <3>2. ps.stop \in Nat /\ ps.avg \in Nat
      BY <1>2, R1Facts DEF Row
    <3>3. CASE ps.r1
      <4>1. PICK p \in EntryPrices : ps.stop >= p
        BY <2>1, <3>3 DEF Breakeven, Paid
      <4> QED BY <1>2, <3>1, <3>2, <4>1, R1Facts DEF Breakeven, Paid
    <3>4. CASE ~ps.r1
      <4>1. PICK p \in EntryPrices : ps.avg >= p
        BY <2>1 DEF Paid
      <4> QED BY <1>2, <3>1, <3>2, <3>4, <4>1, R1Facts DEF Breakeven, Paid
    <3> QED BY <3>3, <3>4
  <2> QED BY <1>0, <2>1, <2>2, <2>3 DEF Even
<1>3. CASE EvaluateR2
  <2>1. row' = row /\ Breakeven(ps) /\ Paid(ps.avg)
    BY <1>3 DEF EvaluateR2, Even, Evaluating
  <2>2. Paid(ps'.avg)
    BY <1>3, <2>1, R2Facts
  <2>3. Breakeven(ps')
    <3>1. \A p \in EntryPrices : p \in Nat
      BY TrimConstants
    <3>2. ps.stop \in Nat /\ ps'.stop \in Int /\ ps'.stop >= ps.stop /\ ps'.r1 = ps.r1
      BY <1>3, R2Facts DEF Row
    <3>3. CASE ps.r1
      <4>1. PICK p \in EntryPrices : ps.stop >= p
        BY <2>1, <3>3 DEF Breakeven, Paid
      <4> QED BY <3>1, <3>2, <4>1 DEF Breakeven, Paid
    <3> QED BY <3>2, <3>3 DEF Breakeven
  <2> QED BY <1>0, <2>1, <2>2, <2>3 DEF Even
<1>4. CASE UpsertPosition
  BY <1>0, <1>4 DEF UpsertPosition, Even, Evaluating
<1>5. CASE row' = row /\ ps' = ps /\ pc = "exit" /\ pc' = "upsert"
  BY <1>0, <1>5 DEF Even, Evaluating
<1>6. CASE row' = row /\ ps' = ps /\ pc' = pc
  BY <1>0, <1>6 DEF Even, Evaluating
<1>7. CASE row' = row /\ ~Evaluating'
  BY <1>0, <1>7 DEF Even
<1> QED BY <1>1, <1>2, <1>3, <1>4, <1>5, <1>6, <1>7, RowSteps

(* What the queue holds was flagged in the row before it is popped, as     *)
(* long as no fault came between; and the row keeps its flags.             *)
LEMMA ShownNext ==
  Typed /\ Typed' /\ FiredOrPending /\ Following /\ Shown /\ [Next]_vars => Shown'
<1> SUFFICES ASSUME Typed, Typed', FiredOrPending, Following, Shown, [Next]_vars,
                    faults' = 0, NEW level \in Levels,
                    sold'[level] > 0 \/ Count(batch', level) > 0
             PROVE  row' # NoRow /\ Flag(row', level)
  BY DEF Shown
<1> USE DEF market, broker, states, local, budgets
<1> DEFINE before == sold[level] > 0 \/ Count(batch, level) > 0
<1>0. /\ batch # <<>> => Head(batch) \in Reasons /\ Count(Tail(batch), level) \in Nat
      /\ batch # <<>> => Count(Tail(batch), level) =
                            Count(batch, level) - IF Head(batch) = level THEN 1 ELSE 0
      /\ Count(batch, level) \in Nat /\ Count(trim_intents, level) \in Nat
      /\ Pending(level) \in Nat /\ sold[level] \in Nat
      /\ level # "stop_exit"
  BY BatchFacts, FlagFacts DEF Levels
<1>1. faults = 0
  <2>1. faults \in Nat /\ (faults' = faults \/ Fault)
    BY DEF Typed, Next, CycleStep, vars, BeginCycle, ManageStops, ReadPosition,
       NothingToEvaluate, EvaluateR1, EvaluateR2, EvaluateStop, UpsertPosition,
       EvaluationRaises, Refresh, PopTrims, DropTrim, TakeTrim, SellAccepted, SellRaises,
       RecordSell, MarkExiting, FinishCycle, Crash, Tick, TimePasses, EntryFills, RestFills,
       SellFills, StopFires, NextDay
  <2> QED BY <2>1 DEF Fault
<1>2. before => row # NoRow /\ Flag(row, level)
  BY <1>1 DEF Shown
<1>3. ~Fault
  <2>1. faults \in Nat
    BY DEF Typed
  <2> QED BY <1>1, <2>1 DEF Fault
<1>4. CASE PopTrims
  <2>1. pc = "pop" /\ batch' = trim_intents /\ sold' = sold /\ row' = row
    BY <1>4 DEF PopTrims
  <2>2. CASE sold'[level] > 0
    BY <1>2, <2>1, <2>2
  <2>3. CASE Count(batch', level) > 0
    <3>1. Pending(level) >= 1
      BY <1>0, <2>1, <2>3 DEF Pending
    <3>2. sold[level] + Pending(level) <= IF Flagged(level) THEN 1 ELSE 0
      BY <1>1, <1>0 DEF FiredOrPending
    <3>3. Flagged(level)
      BY <1>0, <3>1, <3>2
    <3> QED BY <2>1, <3>3 DEF Flagged, Evaluating
  <2> QED BY <2>2, <2>3
<1>5. CASE UpsertPosition
  <2>1. row' = ps /\ sold' = sold /\ batch' = batch /\ ps \in Row /\ Follows(ps)
    BY <1>5 DEF UpsertPosition, Typed, Evaluating, Following
  <2> QED BY <1>2, <2>1, RowIsARow DEF Follows, Flag
<1>6. CASE SellAccepted
  <2>1. pc = "sell" /\ row' = row /\ batch # <<>> /\ BrokerAccepts
    BY <1>6 DEF SellAccepted, Typed
  <2>2. CASE Head(batch) = level
    <3>1. Count(batch, level) > 0
      BY <1>0, <2>1, <2>2
    <3> QED BY <1>2, <2>1, <3>1
  <2>3. CASE Head(batch) # level
    <3>1. sold'[level] = sold[level]
      BY <2>1, <2>3 DEF BrokerAccepts, Typed, Levels
    <3>2. batch' = Tail(batch) \/ batch' = batch
      BY <1>6 DEF SellAccepted
    <3>3. Count(batch', level) > 0 => Count(batch, level) > 0
      <4>1. CASE batch' = Tail(batch)
        BY <1>0, <2>1, <4>1
      <4>2. CASE batch' = batch
        BY <4>2
      <4> QED BY <3>2, <4>1, <4>2
    <3> QED BY <1>2, <2>1, <3>1, <3>3
  <2> QED BY <2>2, <2>3
<1>7. CASE DropTrim \/ MarkExiting
  <2>1. batch # <<>> /\ batch' = Tail(batch) /\ sold' = sold /\ row' = row
    BY <1>7 DEF DropTrim, MarkExiting, Typed
  <2>2. Count(batch', level) > 0 => Count(batch, level) > 0
    BY <1>0, <2>1
  <2> QED BY <1>2, <2>1, <2>2
<1>8. CASE SellRaises \/ FinishCycle
  <2>1. batch' = <<>> /\ sold' = sold /\ row' = row
    BY <1>3, <1>8 DEF SellRaises, FinishCycle, LeaveCycle
  <2> QED BY <1>2, <2>1, CountEmpty
<1>9. CASE UNCHANGED <<batch, sold, row>>
  BY <1>2, <1>9
<1>10. \/ PopTrims \/ UpsertPosition \/ SellAccepted \/ DropTrim \/ MarkExiting
       \/ SellRaises \/ FinishCycle \/ UNCHANGED <<batch, sold, row>>
  BY <1>3 DEF Next, CycleStep, vars, BeginCycle, ManageStops, ReadPosition, NothingToEvaluate,
     EvaluateR1, EvaluateR2, EvaluateStop, EvaluationRaises, Refresh, TakeTrim, RecordSell,
     Crash, Tick, TimePasses, EntryFills, RestFills, SellFills, StopFires, NextDay
<1> QED BY <1>4, <1>5, <1>6, <1>7, <1>8, <1>9, <1>10

GainInv == Typed /\ FiredOrPending /\ Trailing /\ Following /\ Even /\ Shown

LEMMA GainInvAlways == Spec => []GainInv
<1>1. Init => Trailing /\ Following /\ Even
  BY DEF Init, Trailing, Following, Even, Evaluating
<1>2. Init => Shown
  <2> SUFFICES ASSUME Init, NEW level \in Levels
               PROVE  ~(sold[level] > 0 \/ Count(batch, level) > 0)
    BY DEF Shown
  <2>1. sold[level] = 0 /\ batch = <<>>
    BY DEF Init, Levels
  <2> QED BY <2>1, CountEmpty
<1>3. Init => GainInv
  BY <1>1, <1>2, TypedInit, FiredInit DEF GainInv
<1>4. GainInv /\ [Next]_vars => GainInv'
  BY TypedNext, FiredNext, TrailingNext, FollowingNext, EvenNext, ShownNext DEF GainInv
<1> QED BY <1>3, <1>4, PTL DEF Spec

(* A trim that was sold shows in the row, with the stop where it belongs:  *)
(* the queue is popped after the row was stored, unless a call raised or   *)
(* the process died.                                                       *)
THEOREM SoldLevelsAreShown == Spec => []SoldLevelsShow
<1>1. GainInv => SoldLevelsShow
  <2> SUFFICES ASSUME GainInv, faults = 0
               PROVE  /\ sold.r1_trim > 0 =>
                           row # NoRow /\ row.r1 /\ \E p \in EntryPrices : row.stop >= p
                      /\ sold.r2_trim > 0 =>
                           row # NoRow /\ row.r2 /\ row.stop >= row.high - TrailDistance
    BY DEF SoldLevelsShow
  <2>1. /\ sold["r1_trim"] > 0 => row # NoRow /\ row.r1
        /\ sold["r2_trim"] > 0 => row # NoRow /\ row.r2
    BY DEF GainInv, Shown, Levels, Flag
  <2>2. row # NoRow => Breakeven(row) /\ Trails(row)
    BY DEF GainInv, Even, Trailing
  <2> QED BY <2>1, <2>2 DEF Breakeven, Paid, Trails
<1> QED BY <1>1, GainInvAlways, PTL

(* No step takes from the row what it gained, and from R2 on every step    *)
(* that stores it keeps the stop on the trail: what an evaluation holds in *)
(* memory is at least what it read, and nothing else writes the row.       *)
THEOREM RowsRatchet == Spec => RowRatchets
<1> DEFINE A == row' # row =>
      /\ row' # NoRow
      /\ row'.r2 => row'.stop >= row'.high - TrailDistance
      /\ row # NoRow => /\ row'.stop >= row.stop /\ row'.high >= row.high
                        /\ (row.r1 => row'.r1) /\ (row.r2 => row'.r2)
<1>1. GainInv /\ [Next]_vars => [A]_vars
  <2> SUFFICES ASSUME GainInv, [Next]_vars, row' # row
               PROVE  /\ row' # NoRow
                      /\ row'.r2 => row'.stop >= row'.high - TrailDistance
                      /\ row # NoRow => /\ row'.stop >= row.stop /\ row'.high >= row.high
                                        /\ (row.r1 => row'.r1) /\ (row.r2 => row'.r2)
    OBVIOUS
  <2>1. UpsertPosition
    BY RowSteps DEF ReadPosition, EvaluateR1, EvaluateR2
  <2>2. row' = ps /\ ps \in Row /\ Follows(ps) /\ Trails(ps)
    BY <2>1 DEF UpsertPosition, GainInv, Typed, Evaluating, Following, Trailing
  <2> QED BY <2>2, RowIsARow DEF Follows, Trails
<1> QED BY <1>1, GainInvAlways, PTL DEF Spec, RowRatchets
=============================================================================
