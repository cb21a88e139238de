------------------------- MODULE StopManagerProofs -------------------------
(***************************************************************************)
(* The bound on the number of working stops and the ratchet, for every     *)
(* number of shares, levels, sessions, fills and failing calls.            *)
(*                                                                         *)
(* Neither is inductive.  What lets a submission through is what the       *)
(* cancels before it have achieved: StopBound adds that.  What the new     *)
(* stop's level is, was decided from one that has been cancelled since:    *)
(* Ratchet follows the level through the cycle.                            *)
(***************************************************************************)
EXTENDS StopManager, FiniteSetTheorems, TLAPS

SomeOrder ==
  [type : {"stop"}, qty : Int, level : Nat, status : {"open", "pending_cancel"}]
  \union [type : {"other"}, qty : Int] \union {Free}

(* As much of the types as the argument needs. *)
Shape ==
  /\ orders \in [Slots -> SomeOrder]
  /\ position \in Int /\ qty \in Int
  /\ structure \in Nat /\ existing \in Nat /\ desired \in Nat
  /\ to_cancel \subseteq Slots
  /\ faults \in Nat

(* While stops are being cancelled, those not among them got past a fault; *)
(* after that all that are left did.                                       *)
StopBound ==
  /\ Cardinality(OpenStops) <= 1 + faults
  /\ pc = "cancel" => Cardinality(OpenStops \ to_cancel) <= faults
  /\ pc \in {"reread", "submit"} => Cardinality(OpenStops) <= faults

StopInv == Shape /\ StopBound

-----------------------------------------------------------------------------
(* The larger of two numbers. *)
LEMMA MaxOfTwo ==
  ASSUME NEW a \in Nat, NEW b \in Nat
  PROVE  Max({a, b}) \in {a, b} /\ Max({a, b}) >= a /\ Max({a, b}) >= b
<1>1. \E m \in {a, b} : \A y \in {a, b} : m >= y
  <2>1. CASE a >= b
    BY <2>1
  <2>2. CASE ~(a >= b)
    BY <2>2
  <2>3. QED
    BY <2>1, <2>2
<1>2. QED
  BY <1>1 DEF Max

(* One element makes a finite set larger by at most one. *)
LEMMA OneMoreElement ==
  ASSUME NEW S, IsFiniteSet(S), NEW x
  PROVE  /\ IsFiniteSet(S \union {x})
         /\ Cardinality(S \union {x}) <= Cardinality(S) + 1
         /\ Cardinality(S \union {x}) \in Nat
<1>1. IsFiniteSet(S \union {x}) /\ Cardinality(S) \in Nat
      /\ Cardinality(S \union {x}) \in {Cardinality(S), Cardinality(S) + 1}
  BY FS_AddElement, FS_CardinalityType
<1>2. QED
  BY <1>1

(* Working stops are finitely many. *)
LEMMA OpenStopsFinite ==
  ASSUME NEW S, S \subseteq OpenStops
  PROVE  IsFiniteSet(S) /\ Cardinality(S) \in Nat
<1>1. IsFiniteSet(Slots)
  BY FS_Interval, StopBounds DEF Slots
<1>2. S \subseteq Slots
  BY DEF OpenStops
<1>3. QED
  BY <1>1, <1>2, FS_Subset, FS_CardinalityType

(* A step that adds no working stop keeps the bound. *)
LEMMA FewerStops ==
  ASSUME StopInv, Shape', OpenStops' \subseteq OpenStops,
         pc' = pc, to_cancel' = to_cancel, faults' >= faults
  PROVE  StopBound'
<1>1. Cardinality(OpenStops') <= Cardinality(OpenStops)
      /\ Cardinality(OpenStops') \in Nat /\ Cardinality(OpenStops) \in Nat
  BY OpenStopsFinite, FS_Subset
<1>2. Cardinality(OpenStops' \ to_cancel) <= Cardinality(OpenStops \ to_cancel)
      /\ Cardinality(OpenStops' \ to_cancel) \in Nat
      /\ Cardinality(OpenStops \ to_cancel) \in Nat
  <2>1. /\ OpenStops' \ to_cancel \subseteq OpenStops \ to_cancel
        /\ OpenStops \ to_cancel \subseteq OpenStops
        /\ OpenStops' \ to_cancel \subseteq OpenStops
    OBVIOUS
  <2>2. QED
    BY <2>1, OpenStopsFinite, FS_Subset
<1>3. QED
  BY <1>1, <1>2 DEF StopInv, StopBound, Shape

(* Where nothing is being submitted only the number counts. *)
LEMMA Elsewhere ==
  ASSUME StopInv, Shape', OpenStops' \subseteq OpenStops, faults' >= faults,
         pc' \notin {"cancel", "reread", "submit"}
  PROVE  StopBound'
<1>1. Cardinality(OpenStops') <= Cardinality(OpenStops)
      /\ Cardinality(OpenStops') \in Nat /\ Cardinality(OpenStops) \in Nat
  BY OpenStopsFinite, FS_Subset
<1>2. QED
  BY <1>1 DEF StopInv, StopBound, Shape

(* Placing one more stop, or none, from a step that may submit. *)
LEMMA OneMore ==
  ASSUME StopInv, Shape', pc = "submit", pc' = "idle", faults' >= faults,
         BrokerAccepts
  PROVE  StopBound'
<1>1. PICK i \in Slots :
        orders' = [orders EXCEPT ![i] =
          [type |-> "stop", qty |-> qty, level |-> desired, status |-> "open"]]
  BY DEF BrokerAccepts
<1>2. OpenStops' \subseteq OpenStops \union {i}
  BY <1>1 DEF OpenStops, StopInv, Shape
<1>3. IsFiniteSet(OpenStops) /\ Cardinality(OpenStops) \in Nat
  BY OpenStopsFinite
<1>4. IsFiniteSet(OpenStops \union {i})
      /\ Cardinality(OpenStops \union {i}) <= Cardinality(OpenStops) + 1
      /\ Cardinality(OpenStops \union {i}) \in Nat
  BY <1>3, OneMoreElement
<1>5. Cardinality(OpenStops') <= Cardinality(OpenStops) + 1
      /\ Cardinality(OpenStops') \in Nat
  BY <1>2, <1>3, <1>4, FS_Subset, FS_CardinalityType
<1>6. QED
  BY <1>3, <1>5 DEF StopInv, StopBound, Shape

-----------------------------------------------------------------------------
(* The shape is kept by every step. *)
LEMMA ShapeStep ==
  ASSUME Shape, [Next]_vars
  PROVE  Shape'
<1> USE StopBounds DEF market, local, Shape
<1>a. Desired \in Nat
  BY MaxOfTwo DEF Desired, Candidate
<1>1. CASE ReadPosition
  BY <1>1 DEF ReadPosition
<1>2. CASE ReadExisting
  <2>1. existing' \in Nat
    BY <1>2 DEF ReadExisting, OpenStops, Fault, Free, SomeOrder
  <2>2. QED
    BY <1>2, <2>1 DEF ReadExisting, Fault
<1>3. CASE DelaySkips
  BY <1>3 DEF DelaySkips, Done
<1>4. CASE DecideStop
  BY <1>4, <1>a DEF DecideStop
<1>5. CASE DecideNothing
  BY <1>5 DEF DecideNothing, Done, Fault
<1>6. CASE Reconcile
  BY <1>6 DEF Reconcile, Done, OpenStops
<1>7. CASE ReconcileBlind
  BY <1>7 DEF ReconcileBlind, Fault
<1>8. ASSUME NEW i \in Slots, CancelStop(i) PROVE Shape'
  <2>1. orders' \in [Slots -> SomeOrder]
    BY <1>8 DEF CancelStop, OpenStops, Free, SomeOrder
  <2>2. QED
    BY <1>8, <2>1 DEF CancelStop, Fault
<1>9. CASE Reread
  BY <1>9 DEF Reread, Done
<1>10. CASE RereadBlind
  BY <1>10 DEF RereadBlind, Fault
<1>11. CASE SubmitAccepted
  BY <1>11 DEF SubmitAccepted, BrokerAccepts, Done, SomeOrder, Free, Slots
<1>12. CASE SubmitBlocked
  BY <1>12 DEF SubmitBlocked, Done
<1>13. CASE SubmitRaises
  BY <1>13 DEF SubmitRaises, BrokerAccepts, Done, Fault, SomeOrder, Free, Slots
<1>14. CASE Crash
  BY <1>14 DEF Crash, Done, Fault
<1>15. ASSUME NEW p \in Prices, Tick(p) PROVE Shape'
  BY <1>15 DEF Tick
<1>16. ASSUME NEW s \in 0..MaxLevel, NewBars(s) PROVE Shape'
  BY <1>16 DEF NewBars
<1>17. ASSUME NEW n \in 1..MaxQty, EntryFills(n) PROVE Shape'
  BY <1>17 DEF EntryFills
<1>18. ASSUME NEW n \in 1..MaxQty, OtherSell(n) PROVE Shape'
  BY <1>18 DEF OtherSell, SomeOrder, Free, Slots
<1>19. ASSUME NEW i \in Slots, StopFires(i) PROVE Shape'
  BY <1>19 DEF StopFires, Leave, SomeOrder, Free, Slots
<1>20. ASSUME NEW i \in Slots, OtherEnds(i) PROVE Shape'
  BY <1>20 DEF OtherEnds, OtherSells, Leave, SomeOrder, Free, Slots
<1>21. CASE CancelCompletes
  BY <1>21 DEF CancelCompletes, SomeOrder, Free, Slots
<1>22. CASE NextPhase
  BY <1>22 DEF NextPhase
<1>23. CASE NextDay
  BY <1>23 DEF NextDay, SomeOrder, Free, Slots
<1>24. CASE UNCHANGED vars
  BY <1>24 DEF vars
<1>25. QED
  BY <1>1, <1>2, <1>3, <1>4, <1>5, <1>6, <1>7, <1>8, <1>9, <1>10, <1>11, <1>12,
     <1>13, <1>14, <1>15, <1>16, <1>17, <1>18, <1>19, <1>20, <1>21, <1>22, <1>23,
     <1>24 DEF Next, Manage, Environment

-----------------------------------------------------------------------------
(* A cancel that got through leaves the stops outside to_cancel as they    *)
(* were; one that failed adds one to them, and counts as a fault.          *)
LEMMA CancelStep ==
  ASSUME StopInv, Shape', NEW i \in Slots, CancelStop(i)
  PROVE  StopBound'
<1> DEFINE Spared == OpenStops \ to_cancel
<1>1. pc = "cancel" /\ i \in to_cancel /\ to_cancel' = to_cancel \ {i}
      /\ pc' = (IF to_cancel' = {} THEN "reread" ELSE "cancel")
  BY DEF CancelStop
<1>2. IsFiniteSet(Spared) /\ Cardinality(Spared) \in Nat
      /\ Cardinality(Spared) <= faults
  BY <1>1, OpenStopsFinite DEF StopInv, StopBound
<1>3. OpenStops' \subseteq OpenStops
  BY DEF CancelStop, OpenStops, StopInv, Shape
<1>4. Cardinality(OpenStops') <= 1 + faults /\ Cardinality(OpenStops') \in Nat
      /\ Cardinality(OpenStops' \ to_cancel') \in Nat
  <2>1. Cardinality(OpenStops') <= Cardinality(OpenStops)
        /\ Cardinality(OpenStops) \in Nat /\ Cardinality(OpenStops') \in Nat
    BY <1>3, OpenStopsFinite, FS_Subset
  <2>2. OpenStops' \ to_cancel' \subseteq OpenStops
    BY <1>3
  <2>3. QED
    BY <2>1, <2>2, OpenStopsFinite DEF StopInv, StopBound, Shape
<1>5. Cardinality(OpenStops' \ to_cancel') <= faults' /\ faults' >= faults
  <2>1. CASE UNCHANGED faults
    <3>1. OpenStops' \ to_cancel' \subseteq Spared
      <4>1. orders' = IF i \in OpenStops
                        THEN [orders EXCEPT ![i].status = "pending_cancel"]
                        ELSE orders
        BY <2>1 DEF CancelStop, Fault, StopInv, Shape
      <4>2. i \notin OpenStops'
        BY <4>1 DEF OpenStops, SomeOrder, Free, StopInv, Shape
      <4>3. QED
        BY <1>1, <1>3, <4>2
    <3>2. Cardinality(OpenStops' \ to_cancel') <= Cardinality(Spared)
      BY <1>2, <3>1, FS_Subset
    <3>3. QED
      BY <1>2, <1>4, <2>1, <3>2 DEF StopInv, Shape
  <2>2. CASE Fault
    <3>1. OpenStops' \ to_cancel' \subseteq Spared \union {i}
      BY <1>1, <1>3
    <3>2. IsFiniteSet(Spared \union {i})
          /\ Cardinality(Spared \union {i}) <= Cardinality(Spared) + 1
          /\ Cardinality(Spared \union {i}) \in Nat
      BY <1>2, OneMoreElement
    <3>3. QED
      BY <1>2, <1>4, <2>2, <3>1, <3>2, FS_Subset DEF Fault, StopInv, Shape
  <2>3. QED
    BY <2>1, <2>2 DEF CancelStop
<1>6. to_cancel' = {} => OpenStops' \ to_cancel' = OpenStops'
  OBVIOUS
<1>7. QED
  BY <1>1, <1>4, <1>5, <1>6 DEF StopBound, StopInv, Shape

(* The bound is kept by every step. *)
LEMMA BoundStep ==
  ASSUME StopInv, Shape', [Next]_vars
  PROVE  StopBound'
<1> USE DEF Shape, StopInv
<1>1. CASE ReadPosition
  BY <1>1, Elsewhere DEF ReadPosition, OpenStops
<1>2. CASE ReadExisting
  BY <1>2, Elsewhere DEF ReadExisting, OpenStops, Fault
<1>3. CASE DelaySkips
  BY <1>3, Elsewhere DEF DelaySkips, Done, OpenStops
<1>4. CASE DecideStop
  BY <1>4, Elsewhere DEF DecideStop, OpenStops
<1>5. CASE DecideNothing
  BY <1>5, Elsewhere DEF DecideNothing, Done, OpenStops, Fault
<1>6. CASE Reconcile
  <2>1. UNCHANGED <<orders, faults>> /\ OpenStops' = OpenStops
    BY <1>6 DEF Reconcile, OpenStops
  <2>2. CASE Done
    BY <2>1, <2>2, Elsewhere DEF Done
  <2>3. CASE to_cancel' = OpenStops /\ pc' = "cancel"
    <3>1. OpenStops' \ to_cancel' = {}
      BY <2>1, <2>3
    <3>2. QED
      BY <2>1, <2>3, <3>1, FS_EmptySet DEF StopBound
  <2>4. CASE OpenStops = {} /\ pc' = "submit"
    BY <2>1, <2>4, FS_EmptySet DEF StopBound
  <2>5. QED
    BY <1>6, <2>2, <2>3, <2>4 DEF Reconcile
<1>7. CASE ReconcileBlind
  <2>1. OpenStops' = OpenStops /\ faults' = faults + 1 /\ pc' = "submit"
    BY <1>7 DEF ReconcileBlind, Fault, OpenStops
  <2>2. QED
    BY <2>1, OpenStopsFinite DEF StopBound
<1>8. ASSUME NEW i \in Slots, CancelStop(i) PROVE StopBound'
  BY <1>8, CancelStep
<1>9. CASE Reread
  <2>1. OpenStops' = OpenStops /\ faults' = faults /\ pc = "reread"
    BY <1>9 DEF Reread, OpenStops
  <2>2. CASE Done
    BY <2>1, <2>2, Elsewhere DEF Done
  <2>3. CASE pc' = "submit"
    BY <2>1, <2>3 DEF StopBound
  <2>4. QED
    BY <1>9, <2>2, <2>3 DEF Reread
<1>10. CASE RereadBlind
  <2>1. OpenStops' = OpenStops /\ faults' = faults + 1 /\ pc' = "submit"
    BY <1>10 DEF RereadBlind, Fault, OpenStops
  <2>2. QED
    BY <2>1, OpenStopsFinite DEF StopBound
<1>11. CASE SubmitAccepted
  BY <1>11, OneMore DEF SubmitAccepted, Done
<1>12. CASE SubmitBlocked
  BY <1>12, Elsewhere DEF SubmitBlocked, Done, OpenStops
<1>13. CASE SubmitRaises
  <2>1. pc = "submit" /\ pc' = "idle" /\ faults' = faults + 1
    BY <1>13 DEF SubmitRaises, Done, Fault
  <2>2. CASE BrokerAccepts
    BY <2>1, <2>2, OneMore
  <2>3. CASE UNCHANGED orders
    BY <2>1, <2>3, Elsewhere DEF OpenStops
  <2>4. QED
    BY <1>13, <2>2, <2>3 DEF SubmitRaises
<1>14. CASE Crash
  BY <1>14, Elsewhere DEF Crash, Done, Fault, OpenStops
<1>15. CASE Environment
  <2> DEFINE Undisturbed ==
        /\ OpenStops' \subseteq OpenStops
        /\ pc' = pc /\ to_cancel' = to_cancel /\ faults' = faults
  <2>1. Undisturbed
    <3> USE DEF OpenStops, SomeOrder, Free, local, market
    <3>1. ASSUME NEW p \in Prices, Tick(p) PROVE Undisturbed
      BY <3>1 DEF Tick
    <3>2. ASSUME NEW s \in 0..MaxLevel, NewBars(s) PROVE Undisturbed
      BY <3>2 DEF NewBars
    <3>3. ASSUME NEW n \in 1..MaxQty, EntryFills(n) PROVE Undisturbed
      BY <3>3 DEF EntryFills
    <3>4. ASSUME NEW n \in 1..MaxQty, OtherSell(n) PROVE Undisturbed
      BY <3>4 DEF OtherSell
    <3>5. ASSUME NEW i \in Slots, StopFires(i) PROVE Undisturbed
      BY <3>5 DEF StopFires, Leave
    <3>6. ASSUME NEW i \in Slots, OtherEnds(i) PROVE Undisturbed
      BY <3>6 DEF OtherEnds, Leave
    <3>7. CASE CancelCompletes
      BY <3>7 DEF CancelCompletes
    <3>8. CASE NextPhase
      BY <3>8 DEF NextPhase
    <3>9. CASE NextDay
      BY <3>9 DEF NextDay
    <3>10. QED
      BY <1>15, <3>1, <3>2, <3>3, <3>4, <3>5, <3>6, <3>7, <3>8, <3>9
         DEF Environment
  <2>2. QED
    BY <2>1, FewerStops
<1>16. CASE UNCHANGED vars
  BY <1>16, FewerStops DEF vars, OpenStops, local
<1>17. QED
  BY <1>1, <1>2, <1>3, <1>4, <1>5, <1>6, <1>7, <1>8, <1>9, <1>10, <1>11, <1>12,
     <1>13, <1>14, <1>15, <1>16 DEF Next, Manage

-----------------------------------------------------------------------------
LEMMA StopInvAlways == Spec => []StopInv
<1>1. Init => StopInv
  <2> SUFFICES ASSUME Init PROVE StopInv
    OBVIOUS
  <2>1. OpenStops = {}
    BY DEF Init, OpenStops, Free
  <2>2. Shape
    BY StopBounds DEF Init, Shape, SomeOrder
  <2> QED BY <2>1, <2>2, FS_EmptySet DEF Init, StopInv, StopBound
<1>2. StopInv /\ [Next]_vars => StopInv'
  BY ShapeStep, BoundStep DEF StopInv
<1> QED BY <1>1, <1>2, PTL DEF Spec

(* exits.py cancels the old stop before it submits the new one, and every  *)
(* working stop beyond the first is paid for by a call that failed.        *)
THEOREM StopsAreBounded == Spec => []StopsBoundedByFaults
<1>1. StopInv => StopsBoundedByFaults
  BY DEF StopInv, StopBound, StopsBoundedByFaults
<1> QED BY <1>1, StopInvAlways, PTL

-----------------------------------------------------------------------------
(* The ratchet                                                             *)

(* Without faults: no working stop is below the highest level there was    *)
(* since protection last broke, what is read, wanted and then submitted is *)
(* no lower either, and outside a replacement no stop means no protection. *)
Ratchet ==
  /\ best \in Nat
  /\ faults = 0 =>
       /\ \A i \in OpenStops : orders[i].level >= best
       /\ pc \in {"idle", "existing", "decide", "reconcile"} /\ OpenStops = {} => best = 0
       /\ pc = "decide" => existing >= best
       /\ pc \in {"reconcile", "cancel", "reread", "submit"} => desired >= best

(* A step that ends the cycle with the protection there is, or was nothing *)
(* but a read.                                                             *)
LEMMA RatchetDone ==
  ASSUME Shape, Ratchet, UNCHANGED <<orders, faults>>, pc' = "idle",
         \/ best' = Protection
         \/ best' = best /\ pc \in {"idle", "existing", "decide", "reconcile"}
  PROVE  Ratchet'
<1>1. OpenStops' = OpenStops
  BY DEF OpenStops
<1>2. best' \in {0, best} /\ best \in Nat
  BY DEF Protection, Ratchet
<1>3. faults = 0 /\ OpenStops = {} => best' = 0
  BY DEF Protection, Ratchet
<1>4. \A i \in OpenStops : orders'[i] = orders[i] /\ orders[i].level \in Nat
  BY DEF OpenStops, Shape, SomeOrder, Free
<1> QED BY <1>1, <1>2, <1>3, <1>4 DEF Ratchet

(* A step of the environment: working stops may go, and with them what was *)
(* the best.                                                               *)
LEMMA RatchetUndisturbed ==
  ASSUME Shape, Ratchet, OpenStops' \subseteq OpenStops,
         \A i \in OpenStops' : orders'[i].level = orders[i].level,
         UNCHANGED <<pc, existing, desired, faults>>, best' \in {0, best},
         OpenStops' = {} => best' = 0 \/ OpenStops = {}
  PROVE  Ratchet'
<1>1. existing \in Nat /\ desired \in Nat /\ best \in Nat
      /\ \A i \in OpenStops : orders[i].level \in Nat
  BY DEF OpenStops, Shape, SomeOrder, Free, Ratchet
<1> QED BY <1>1 DEF Ratchet

LEMMA RatchetStep ==
  ASSUME StopInv, Ratchet, [Next]_vars
  PROVE  Ratchet'
<1> USE DEF StopInv, market, local
<1>0. /\ best \in Nat /\ faults \in Nat /\ existing \in Nat /\ desired \in Nat
      /\ structure \in Nat
      /\ \A i \in OpenStops : orders[i].level \in Nat
  BY DEF OpenStops, Shape, SomeOrder, Free, Ratchet
<1>1. CASE ReadPosition
  BY <1>1 DEF ReadPosition, OpenStops, Ratchet
<1>2. CASE ReadExisting
  <2>1. OpenStops' = OpenStops /\ best' = best /\ orders' = orders /\ pc = "existing"
        /\ pc' = "decide"
    BY <1>2 DEF ReadExisting, OpenStops
  <2>2. CASE Fault
    BY <1>0, <2>1, <2>2 DEF Fault, Ratchet
  <2>3. CASE /\ existing' \in (IF OpenStops = {} THEN {0}
                               ELSE {orders[i].level : i \in OpenStops})
             /\ UNCHANGED faults
    <3>1. faults = 0 => existing' >= best
      <4>1. CASE OpenStops = {}
        BY <1>0, <2>1, <2>3, <4>1 DEF Ratchet
      <4>2. CASE OpenStops # {}
        BY <2>3, <4>2 DEF Ratchet
      <4> QED BY <4>1, <4>2
    <3> QED BY <2>1, <2>3, <3>1 DEF Ratchet
  <2> QED BY <1>2, <2>2, <2>3 DEF ReadExisting
<1>3. CASE DelaySkips
  BY <1>3, RatchetDone DEF DelaySkips, Done
<1>4. CASE DecideStop
  <2>1. OpenStops' = OpenStops /\ desired' = Desired /\ pc = "decide" /\ pc' = "reconcile"
        /\ UNCHANGED <<best, orders, faults>>
    BY <1>4 DEF DecideStop, OpenStops
  <2>2. Candidate \in Nat
    BY <1>0 DEF Candidate
  <2>3. Desired \in Nat /\ Desired >= existing
    BY <1>0, <2>2, MaxOfTwo DEF Desired
  <2>4. faults = 0 => desired' >= best
    BY <1>0, <2>1, <2>3 DEF Ratchet
  <2> QED BY <2>1, <2>4 DEF Ratchet
<1>5. CASE DecideNothing
  <2>1. CASE Fault
    BY <1>0, <1>5, <2>1 DEF DecideNothing, Fault, Ratchet
  <2>2. CASE UNCHANGED faults
    BY <1>5, <2>2, RatchetDone DEF DecideNothing, Done
  <2> QED BY <1>5, <2>1, <2>2 DEF DecideNothing
<1>6. CASE Reconcile
  <2>1. UNCHANGED <<orders, faults>> /\ OpenStops' = OpenStops /\ pc = "reconcile"
    BY <1>6 DEF Reconcile, OpenStops
  <2>2. CASE Done /\ best' = Protection
    BY <2>1, <2>2, RatchetDone DEF Done
  <2>3. CASE pc' \in {"cancel", "submit"} /\ UNCHANGED <<best, desired>>
    BY <2>1, <2>3 DEF Ratchet
  <2> QED BY <1>6, <2>2, <2>3 DEF Reconcile
<1>7. CASE ReconcileBlind \/ RereadBlind \/ Crash \/ SubmitRaises
  <2>1. faults' = faults + 1
    BY <1>7 DEF ReconcileBlind, RereadBlind, Crash, SubmitRaises, Fault
  <2>2. best' \in Nat
    <3>1. Max({best, desired}) \in Nat
      BY <1>0, MaxOfTwo
    <3> QED BY <1>0, <1>7, <3>1
        DEF ReconcileBlind, RereadBlind, Crash, SubmitRaises, BrokerAccepts, Protection
  <2> QED BY <1>0, <2>1, <2>2 DEF Ratchet
<1>8. ASSUME NEW i \in Slots, CancelStop(i) PROVE Ratchet'
  <2>1. /\ pc = "cancel" /\ pc' \in {"cancel", "reread"} /\ UNCHANGED <<best, desired>>
        /\ faults' \in {faults, faults + 1}
    BY <1>8 DEF CancelStop, Fault
  <2>2. OpenStops' \subseteq OpenStops /\ \A j \in OpenStops' : orders'[j].level = orders[j].level
    BY <1>8 DEF CancelStop, OpenStops, Shape, SomeOrder, Free
  <2> QED BY <1>0, <2>1, <2>2 DEF Ratchet
<1>9. CASE Reread
  <2>1. UNCHANGED <<orders, faults>> /\ OpenStops' = OpenStops /\ pc = "reread"
    BY <1>9 DEF Reread, OpenStops
  <2>2. CASE Done /\ best' = Protection
    BY <2>1, <2>2, RatchetDone DEF Done
  <2>3. CASE pc' = "submit" /\ UNCHANGED <<local, best>>
    BY <2>1, <2>3 DEF Ratchet
  <2> QED BY <1>9, <2>2, <2>3 DEF Reread
<1>10. CASE SubmitAccepted
  <2>1. /\ pc = "submit" /\ pc' = "idle" /\ faults' = faults
        /\ best' = Max({best, desired})
    BY <1>10 DEF SubmitAccepted, BrokerAccepts, Done
  <2>2. PICK i \in Slots : orders' = [orders EXCEPT ![i] =
          [type |-> "stop", qty |-> qty, level |-> desired, status |-> "open"]]
    BY <1>10 DEF SubmitAccepted, BrokerAccepts
  <2>3. best' \in Nat /\ best' \in {best, desired}
    BY <1>0, <2>1, MaxOfTwo
  <2>4. ASSUME faults = 0
        PROVE  /\ i \in OpenStops' /\ \A j \in OpenStops' : orders'[j].level >= best'
    <3>1. OpenStops = {}
      BY <2>1, <2>4, OpenStopsFinite, FS_EmptySet DEF StopBound
    <3>2. i \in OpenStops' /\ OpenStops' \subseteq {i} /\ orders'[i].level = desired
      BY <2>2, <3>1 DEF OpenStops, Shape
    <3>3. desired >= best'
      BY <1>0, <2>1, <2>3, <2>4 DEF Ratchet
    <3> QED BY <3>2, <3>3
  <2> QED BY <2>1, <2>3, <2>4 DEF Ratchet
<1>11. CASE SubmitBlocked
  BY <1>11, RatchetDone DEF SubmitBlocked, Done
<1>12. CASE Environment
  <2> DEFINE Undisturbed ==
        /\ OpenStops' \subseteq OpenStops
        /\ \A i \in OpenStops' : orders'[i].level = orders[i].level
        /\ UNCHANGED <<pc, existing, desired, faults>> /\ best' \in {0, best}
        /\ OpenStops' = {} => best' = 0 \/ OpenStops = {}
  <2>1. Undisturbed
    <3> USE DEF OpenStops, SomeOrder, Free, Shape
    <3>1. ASSUME NEW p \in Prices, Tick(p) PROVE Undisturbed
      BY <3>1 DEF Tick
    <3>2. ASSUME NEW s \in 0..MaxLevel, NewBars(s) PROVE Undisturbed
      BY <3>2 DEF NewBars
    <3>3. ASSUME NEW n \in 1..MaxQty, EntryFills(n) PROVE Undisturbed
      BY <3>3 DEF EntryFills
    <3>4. ASSUME NEW n \in 1..MaxQty, OtherSell(n) PROVE Undisturbed
      BY <3>4 DEF OtherSell
    <3>5. ASSUME NEW i \in Slots, StopFires(i) PROVE Undisturbed
      BY <3>5 DEF StopFires, Leave
    <3>6. ASSUME NEW i \in Slots, OtherEnds(i) PROVE Undisturbed
      BY <3>6 DEF OtherEnds, OtherSells, Leave
    <3>7. CASE CancelCompletes
      BY <3>7 DEF CancelCompletes
    <3>8. CASE NextPhase
      BY <3>8 DEF NextPhase
    <3>9. CASE NextDay
      BY <3>9 DEF NextDay
    <3> QED
      BY <1>12, <3>1, <3>2, <3>3, <3>4, <3>5, <3>6, <3>7, <3>8, <3>9 DEF Environment
  <2> QED BY <2>1, RatchetUndisturbed
<1>13. CASE UNCHANGED vars
  BY <1>13 DEF vars, OpenStops, Ratchet
<1> QED
  BY <1>1, <1>2, <1>3, <1>4, <1>5, <1>6, <1>7, <1>8, <1>9, <1>10, <1>11, <1>12, <1>13
     DEF Next, Manage

(* As long as no call fails the stop of a position moves up only, although *)
(* its level is read from one order and given to another, with fills,      *)
(* phases, bars and the broker's cancellations in between.                 *)
THEOREM StopOnlyRises == Spec => []StopRatchets
<1>1. Init => Ratchet
  BY DEF Init, Ratchet, OpenStops, Free
<1>2. StopInv /\ Ratchet /\ [Next]_vars => Ratchet'
  BY RatchetStep
<1>3. Ratchet => StopRatchets
  BY DEF Ratchet, StopRatchets
<1> QED BY <1>1, <1>2, <1>3, StopInvAlways, PTL DEF Spec
=============================================================================
