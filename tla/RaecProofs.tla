------------------------------ MODULE RaecProofs ------------------------------
(***************************************************************************)
(* Proofs about the manual 401(k) book.  Of the runs (RaecRun): that       *)
(* regime changes get their tickets, that the files keep the regimes, and  *)
(* that mere drift waits for the cooldown, for any number of strategies,   *)
(* runs, days and faults.  Of the desk (ManualTickets, as the desk part of *)
(* MCRaecRun): that a ticket is posted again only with an excuse, and that *)
(* a reply is recorded once, with the right verdict.                       *)
(*                                                                         *)
(* None of them is inductive.  The runs need what a run holds between its  *)
(* steps: that the state it loaded is still that of the file, that the     *)
(* strategies to run, at hand and waiting to be posted are apart, and that *)
(* what waits is in the file already.  The desk needs a count of the posts *)
(* still to come, and where the receiver is with the reply at hand.        *)
(***************************************************************************)
EXTENDS MCRaecRun, SequenceTheorems, FiniteSetTheorems, WellFoundedInduction, TLAPS

-----------------------------------------------------------------------------
(* Operators of the model                                                  *)

(* What is kept of a history ends as the history does. *)
LEMMA KeptFacts ==
  ASSUME NEW X, NEW s \in Seq(X), NEW x \in X
  PROVE  /\ Kept(Append(s, x)) \in Seq(X)
         /\ Len(Kept(Append(s, x))) \in 1..SmoothingDays
         /\ Kept(Append(s, x))[Len(Kept(Append(s, x)))] = x
<1> DEFINE a == Append(s, x)
<1>1. /\ a \in Seq(X) /\ Len(a) = Len(s) + 1 /\ a[Len(a)] = x
  BY AppendProperties
<1>2. SmoothingDays \in Nat \ {0} /\ Len(s) \in Nat
  BY RaecConstants
<1>3. CASE Len(a) <= SmoothingDays
  BY <1>1, <1>2, <1>3 DEF Kept
<1>4. CASE ~(Len(a) <= SmoothingDays)
  <2> DEFINE m == Len(a) - SmoothingDays + 1
  <2>1. /\ m \in Int /\ Len(a) \in Int /\ m >= 1 /\ m <= Len(a)
        /\ Len(a) - m + 1 = SmoothingDays /\ m + SmoothingDays - 1 = Len(a)
    BY <1>1, <1>2, <1>4
  <2>2. \A i \in m..Len(a) : a[i] \in X
    <3>1. \A i \in 1..Len(a) : a[i] \in X BY <1>1, ElementOfSeq
    <3> QED BY <3>1, <2>1
  <2>3. /\ SubSeq(a, m, Len(a)) \in Seq(X)
        /\ Len(SubSeq(a, m, Len(a))) = SmoothingDays
        /\ \A i \in 1..SmoothingDays : SubSeq(a, m, Len(a))[i] = a[m + i - 1]
    <3> HIDE DEF a, m
    <3> QED BY <2>1, <2>2, SubSeqProperties
  <2>4. SubSeq(a, m, Len(a))[SmoothingDays] = x
    <3> HIDE DEF a, m
    <3> QED BY <2>1, <2>3, <1>1, <1>2
  <2>5. Kept(a) = SubSeq(a, m, Len(a))
    BY <1>4 DEF Kept
  <2>6. SmoothingDays \in 1..SmoothingDays
    BY <1>2
  <2> QED BY <2>3, <2>4, <2>5, <2>6
<1> QED BY <1>3, <1>4

(* An evaluation of the date: its regime and its reason follow from the    *)
(* state it loaded.                                                        *)
Evaluated(res) ==
  /\ res \in Results
  /\ res.regime = Smoothed(res.loaded)
  /\ \E d \in Drifts : /\ res.why = Why(res.loaded, d)
                       /\ res.trades = (res.loaded.allocs /\ d # "aligned")

(* A change of which there is something to trade is always a reason, and   *)
(* drift is one outside the cooldown only.                                 *)
LEMMA ReasonFacts ==
  ASSUME NEW res, Evaluated(res)
  PROVE  /\ Change(res) => Rebalance(res)
         /\ res.why = "drift" => ~CoolingDown(res.loaded)
<1>1. PICK d \in Drifts : /\ res.why = Why(res.loaded, d)
                          /\ res.trades = (res.loaded.allocs /\ d # "aligned")
  BY DEF Evaluated
<1>2. res.regime = Smoothed(res.loaded)
  BY DEF Evaluated
<1>3. Change(res) => res.why \in {"first", "change"}
  BY <1>1, <1>2 DEF Change, Why
<1>4. res.why = "drift" => ~CoolingDown(res.loaded)
  BY <1>1 DEF Why
<1> QED BY <1>3, <1>4 DEF Rebalance

-----------------------------------------------------------------------------
(* Types                                                                   *)

LEMMA ConstantFacts ==
  /\ None \notin Regimes /\ SmoothingDays \in Nat \ {0} /\ Cooldown \in Nat
  /\ MaxDay \in Nat \ {0} /\ MaxRuns \in Nat /\ MaxFaults \in Nat
  /\ Order \in Seq(Subs)
  /\ \A i, j \in DOMAIN Order : Order[i] = Order[j] => i = j
  BY RaecConstants DEF Subs, None

(* An evaluation and what is saved of it are of their types. *)
LEMMA EvaluationTypes ==
  ASSUME TypeOK, NEW s \in Subs, NEW d \in Drifts
  PROVE  Result(s, d) \in Results /\ Evaluated(Result(s, d))
<1>1. state[s] \in StateFile /\ raw \in Regimes
  BY DEF TypeOK
<1>2. Smoothed(state[s]) \in Regimes
  BY <1>1 DEF Smoothed, StateFile, None
<1>3. Why(state[s], d) \in Whys
  BY <1>1 DEF Why, Whys
<1>4. (state[s].allocs /\ d # "aligned") \in BOOLEAN
  OBVIOUS
<1>5. Result(s, d) \in Results
  BY <1>1, <1>2, <1>3, <1>4 DEF Result, Results
<1> QED BY <1>5 DEF Evaluated, Result

LEMMA SavedTypes ==
  ASSUME TypeOK, NEW res \in Results
  PROVE  /\ Saved(res) \in StateFile /\ Len(Saved(res).seen) <= SmoothingDays
         /\ Saved(res).eval = day /\ Saved(res).confirmed = res.regime
         /\ Saved(res).seen = Seen(res.loaded)
         /\ Saved(res).rebalance = IF Rebalance(res) THEN day ELSE res.loaded.rebalance
<1>1. /\ res.loaded \in StateFile /\ res.regime \in Regimes
      /\ res.loaded.seen \in Seq(Regimes \X (1..MaxDay))
  BY DEF Results, StateFile
<1>2. day \in 1..MaxDay /\ day \in 0..MaxDay /\ raw \in Regimes
  BY ConstantFacts DEF TypeOK
<1>3. <<raw, day>> \in Regimes \X (1..MaxDay)
  BY <1>2
<1>4. /\ Seen(res.loaded) \in Seq(Regimes \X (1..MaxDay))
      /\ Len(Seen(res.loaded)) \in 1..SmoothingDays
  BY <1>1, <1>3, KeptFacts DEF Seen
<1> HIDE DEF Seen
<1>5. /\ Saved(res).eval = day /\ Saved(res).confirmed = res.regime
      /\ Saved(res).seen = Seen(res.loaded)
      /\ Saved(res).rebalance = IF Rebalance(res) THEN day ELSE res.loaded.rebalance
  <2>1. CASE Rebalance(res)
    BY <1>1, <2>1 DEF Saved, StateFile
  <2>2. CASE ~Rebalance(res)
    BY <1>1, <2>2 DEF Saved, StateFile
  <2> QED BY <2>1, <2>2
<1>6. Saved(res) \in StateFile
  BY <1>1, <1>2, <1>4 DEF Saved, StateFile
<1> QED BY <1>4, <1>5, <1>6, ConstantFacts

(* Between an evaluation and its save there is a result at hand. *)
Typed == TypeOK /\ (pc \in {"post", "save"} => result \in Results)

LEMMA TypedInit == Init => Typed
<1> SUFFICES ASSUME Init PROVE Typed
  OBVIOUS
<1> USE ConstantFacts DEF Init
<1>1. /\ day \in 1..MaxDay /\ raw \in Regimes /\ drift \in [Subs -> Drifts \cup {Unknown}]
      /\ runs \in 0..MaxRuns /\ faults \in 0..MaxFaults
  OBVIOUS
<1>2. Fresh \in StateFile /\ Len(Fresh.seen) <= SmoothingDays
  <2>1. <<>> \in Seq(Regimes \X (1..MaxDay)) /\ Len(<<>>) = 0
    OBVIOUS
  <2> QED BY <2>1 DEF Fresh, StateFile
<1>3. state \in [Subs -> StateFile] /\ \A s \in Subs : Len(state[s].seen) <= SmoothingDays
  BY <1>2
<1>4. last_post \in [Subs -> (0..MaxDay) \X Whys]
  BY DEF Whys
<1>5. /\ todo \in Seq(Subs) /\ sub_results \in Seq(Results)
      /\ sub_smoothed_regimes \in [Subs -> Regimes \cup {None}]
      /\ evaluated \in [Subs -> Regimes \cup {None}]
  OBVIOUS
<1> QED BY <1>1, <1>3, <1>4, <1>5 DEF Typed, TypeOK, Modes

(* The run at rest is of its types. *)
LEMMA RestTypes ==
  ASSUME Rest
  PROVE  /\ pc' = "idle" /\ mode' \in Modes /\ todo' \in Seq(Subs)
         /\ result' \in Results \cup {NoResult} /\ sub_results' \in Seq(Results)
         /\ evaluated' \in [Subs -> Regimes \cup {None}]
  BY DEF Rest, Modes

LEMMA WaitingTypes ==
  ASSUME TypeOK
  PROVE  Waiting \subseteq Subs
<1>1. \A i \in DOMAIN sub_results : sub_results[i] \in Results
  BY DEF TypeOK
<1> QED BY <1>1 DEF Waiting, Results

LEMMA PostTypes ==
  ASSUME TypeOK, NEW res \in Results, Post(res)
  PROVE  last_post' \in [Subs -> (0..MaxDay) \X Whys]
<1>1. res.sub \in Subs /\ <<day, res.why>> \in (0..MaxDay) \X Whys
  BY ConstantFacts DEF TypeOK, Results
<1> QED BY <1>1 DEF Post, TypeOK

LEMMA FaultTypes ==
  ASSUME TypeOK, Fault
  PROVE  faults' \in 0..MaxFaults
  BY ConstantFacts DEF TypeOK, Fault

LEMMA SaveTypes ==
  ASSUME Typed, NEW reported \in BOOLEAN, SaveState(reported), faults' \in 0..MaxFaults
  PROVE  Typed'
<1> DEFINE s == result.sub
<1>1. pc = "save" /\ TypeOK /\ result \in Results /\ s \in Subs
  BY DEF Typed, SaveState, Results
<1>2. /\ state' \in [Subs -> StateFile]
      /\ \A t \in Subs : Len(state'[t].seen) <= SmoothingDays
  <2>1. state' = [state EXCEPT ![s] = Saved(result)]
    BY DEF SaveState
  <2> QED BY <1>1, <2>1, SavedTypes DEF TypeOK
<1>3. /\ owed' \subseteq Subs /\ unsaved' \subseteq Subs /\ behind' \subseteq Subs
      /\ excused' \subseteq Subs
  BY <1>1 DEF TypeOK, SaveState
<1>4. /\ day' \in 1..MaxDay /\ raw' \in Regimes
      /\ drift' \in [Subs -> Drifts \cup {Unknown}]
      /\ sub_smoothed_regimes' \in [Subs -> Regimes \cup {None}]
      /\ last_post' \in [Subs -> (0..MaxDay) \X Whys] /\ runs' \in 0..MaxRuns
  BY <1>1 DEF TypeOK, SaveState, market
<1>5. CASE Alone
  <2>1. Rest
    BY <1>1, <1>5 DEF SaveState
  <2> QED BY <1>2, <1>3, <1>4, <2>1, RestTypes DEF Typed, TypeOK
<1>6. CASE ~Alone
  <2>1. /\ pc' = "evaluate" /\ result' = NoResult /\ mode' \in Modes /\ todo' \in Seq(Subs)
    BY <1>1, <1>6 DEF SaveState, TypeOK
  <2>2. sub_results' \in Seq(Results)
    <3>1. sub_results \in Seq(Results) /\ Append(sub_results, result) \in Seq(Results)
      BY <1>1, AppendProperties DEF TypeOK
    <3> QED BY <1>6, <3>1 DEF SaveState
  <2>3. evaluated' \in [Subs -> Regimes \cup {None}]
    BY <1>1, <1>6 DEF SaveState, TypeOK, Results
  <2> QED BY <1>2, <1>3, <1>4, <2>1, <2>2, <2>3 DEF Typed, TypeOK
<1> QED BY <1>5, <1>6

LEMMA TypedNext == Typed /\ [Next]_vars => Typed'
<1> SUFFICES ASSUME Typed, [Next]_vars PROVE Typed'
  OBVIOUS
<1> USE DEF Typed, market, files, process, history
<1>1. ASSUME NEW s \in Subs, NEW silent \in BOOLEAN, StartSingle(s, silent) PROVE Typed'
  <2>1. todo' \in Seq(Subs) BY <1>1 DEF StartSingle
  <2>2. runs' \in 0..MaxRuns BY <1>1, ConstantFacts DEF StartSingle, TypeOK
  <2> QED BY <1>1, <2>1, <2>2 DEF StartSingle, TypeOK, Modes
<1>2. ASSUME NEW s \in Subs, SetAllocations(s) PROVE Typed'
  <2>1. /\ state' \in [Subs -> StateFile]
        /\ \A t \in Subs : Len(state'[t].seen) <= SmoothingDays
    BY <1>2 DEF SetAllocations, TypeOK, StateFile
  <2> QED BY <1>2, <2>1 DEF SetAllocations, TypeOK
<1>3. ASSUME NEW kind \in {"coordinator", "muted", "dry"}, StartCoordinator(kind) PROVE Typed'
  <2>1. runs' \in 0..MaxRuns BY <1>3, ConstantFacts DEF StartCoordinator, TypeOK
  <2> QED BY <1>3, <2>1, ConstantFacts DEF StartCoordinator, TypeOK, Modes
<1>4. CASE Evaluate
  <2>1. PICK d \in Drifts : /\ drift' = [drift EXCEPT ![Head(todo)] = d]
                            /\ result' = Result(Head(todo), d)
    BY <1>4 DEF Evaluate
  <2>2. Head(todo) \in Subs /\ Tail(todo) \in Seq(Subs)
    BY <1>4, HeadTailProperties DEF Evaluate, TypeOK
  <2>3. result' \in Results /\ drift' \in [Subs -> Drifts \cup {Unknown}]
    BY <2>1, <2>2, EvaluationTypes DEF TypeOK
  <2> QED BY <1>4, <2>2, <2>3 DEF Evaluate, TypeOK
<1>5. CASE EvaluationRaises
  <2>1. faults' \in 0..MaxFaults /\ Tail(todo) \in Seq(Subs)
    BY <1>5, FaultTypes, HeadTailProperties DEF EvaluationRaises, TypeOK
  <2>2. CASE Rest
    BY <1>5, <2>1, <2>2, RestTypes DEF EvaluationRaises, TypeOK
  <2>3. CASE ~Rest
    BY <1>5, <2>1, <2>3 DEF EvaluationRaises, TypeOK
  <2> QED BY <2>2, <2>3
<1>6. CASE PostTicket
  <2>1. last_post' \in [Subs -> (0..MaxDay) \X Whys]
    BY <1>6, PostTypes DEF PostTicket
  <2> QED BY <1>6, <2>1 DEF PostTicket, TypeOK
<1>7. CASE StateSaved
  BY <1>7, SaveTypes DEF StateSaved, TypeOK
<1>8. CASE LedgerRaises
  BY <1>8, FaultTypes, SaveTypes DEF LedgerRaises
<1>9. CASE PostSub
  <2>1. Head(sub_results) \in Results /\ sub_results' \in Seq(Results)
    BY <1>9, HeadTailProperties DEF PostSub, TypeOK
  <2>2. last_post' \in [Subs -> (0..MaxDay) \X Whys]
    BY <1>9, <2>1, PostTypes DEF PostSub, TypeOK
  <2>3. owed' \subseteq Subs /\ excused' \subseteq Subs /\ unsaved' \subseteq Subs
    BY <1>9 DEF PostSub, TypeOK
  <2> QED BY <1>9, <2>1, <2>2, <2>3 DEF PostSub, TypeOK
<1>10. CASE SaveCoordinator
  <2>1. sub_smoothed_regimes' \in [Subs -> Regimes \cup {None}]
    BY <1>10 DEF SaveCoordinator, TypeOK
  <2> QED BY <1>10, <2>1, RestTypes DEF SaveCoordinator, TypeOK
<1>11. CASE EndDryRun
  <2>1. Waiting \subseteq Subs
    BY WaitingTypes
  <2> QED BY <1>11, <2>1, RestTypes DEF EndDryRun, TypeOK
<1>12. CASE Crash
  <2>1. Waiting \subseteq Subs
    BY WaitingTypes
  <2>2. unsaved' \subseteq Subs
    BY <1>12 DEF Crash, TypeOK, Results
  <2> QED BY <1>12, <2>1, <2>2, RestTypes, FaultTypes DEF Crash, TypeOK
<1>13. CASE NextDay
  <2>1. day' \in 1..MaxDay /\ runs' \in 0..MaxRuns
    BY <1>13, ConstantFacts DEF NextDay, TypeOK
  <2> QED BY <1>13, <2>1 DEF NextDay, TypeOK
<1>14. CASE UNCHANGED vars
  BY <1>14 DEF vars, TypeOK
<1> QED
  BY <1>1, <1>2, <1>3, <1>4, <1>5, <1>6, <1>7, <1>8, <1>9, <1>10, <1>11, <1>12, <1>13,
     <1>14 DEF Next

(* Every variable keeps to its domain. *)
THEOREM TypeCorrect == Spec => []TypeOK
<1>1. Typed => TypeOK
  BY DEF Typed
<1> QED BY <1>1, TypedInit, TypedNext, PTL DEF Spec

-----------------------------------------------------------------------------
(* The invariant                                                           *)

Ahead == {todo[i] : i \in DOMAIN todo}

(* At rest nothing is left of a run; on its own a strategy leaves nothing  *)
(* for a coordinator to post; a ticket precedes its save.                  *)
Orderly ==
  /\ pc = "idle" => mode = "single" /\ todo = <<>>
  /\ Alone => sub_results = <<>> /\ \A s \in Subs : evaluated[s] = None
  /\ pc = "post" => mode = "single" /\ Rebalance(result)

(* The strategies still to run, at hand and waiting are different ones.    *)
Apart ==
  /\ \A i, j \in DOMAIN todo : todo[i] = todo[j] => i = j
  /\ \A i, j \in DOMAIN sub_results : sub_results[i].sub = sub_results[j].sub => i = j
  /\ \A i \in DOMAIN sub_results : sub_results[i].sub \notin Ahead
  /\ \A s \in Ahead : evaluated[s] = None
  /\ pc \in {"post", "save"} =>
       /\ result.sub \notin Ahead /\ evaluated[result.sub] = None
       /\ \A i \in DOMAIN sub_results : sub_results[i].sub # result.sub

(* What is at hand was worked out from the file as it still is, what waits *)
(* is in the file.                                                         *)
Current ==
  /\ pc \in {"post", "save"} =>
       /\ Evaluated(result)
       /\ result.loaded.rebalance = state[result.sub].rebalance
  /\ \A i \in DOMAIN sub_results :
       /\ Evaluated(sub_results[i])
       /\ Rebalance(sub_results[i]) => state[sub_results[i].sub].rebalance = day
  /\ \A s \in Subs : evaluated[s] # None => evaluated[s] = state[s].confirmed

(* A saved change of regime has its ticket, will have it, or was lost by a *)
(* run told not to post or cut short.                                      *)
Ticketed ==
  \A s \in owed \ excused : \E i \in DOMAIN sub_results :
    sub_results[i].sub = s /\ Rebalance(sub_results[i])

Followed == \A s \in Subs \ behind : sub_smoothed_regimes[s] = state[s].confirmed

(* The file knows of the last ticket, or is about to, and so did what      *)
(* waits when it was worked out.                                           *)
Known ==
  \A s \in Subs :
    /\ last_post[s][1] <= day /\ last_post[s][1] \in Nat
    /\ s \notin unsaved /\ last_post[s][1] > 0 =>
         /\ \/ state[s].rebalance >= last_post[s][1]
            \/ pc = "save" /\ mode = "single" /\ result.sub = s /\ Rebalance(result)
         /\ \A i \in DOMAIN sub_results : sub_results[i].sub = s =>
              sub_results[i].loaded.rebalance >= last_post[s][1]

IInv == /\ Typed /\ Orderly /\ Apart /\ Current
        /\ Ticketed /\ Followed /\ Known /\ SteadyRegimeConfirmed

LEMMA IInvInit == Init => IInv
<1> SUFFICES ASSUME Init PROVE IInv
  OBVIOUS
<1>1. Typed
  BY TypedInit
<1>2. Orderly /\ Apart /\ Current /\ Ticketed
  BY DEF Init, Orderly, Apart, Ahead, Current, Ticketed
<1>3. Followed /\ Known
  BY <1>1 DEF Init, Followed, Known, Fresh, Typed, TypeOK
<1>4. SteadyRegimeConfirmed
  <2>1. SmoothingDays # 0 BY ConstantFacts
  <2>2. \A s \in Subs : Len(state[s].seen) = 0
    BY DEF Init, Fresh
  <2> QED BY <2>1, <2>2 DEF SteadyRegimeConfirmed
<1> QED BY <1>1, <1>2, <1>3, <1>4 DEF IInv

(* Tail, seen through the indices. *)
LEMMA TailFacts ==
  ASSUME NEW X, NEW s \in Seq(X), s # <<>>
  PROVE  /\ 1 \in DOMAIN s /\ Head(s) = s[1] /\ Head(s) \in X /\ Tail(s) \in Seq(X)
         /\ \A i \in DOMAIN Tail(s) :
              i \in Nat /\ i + 1 \in DOMAIN s /\ i + 1 # 1 /\ Tail(s)[i] = s[i + 1]
  BY HeadTailProperties, DOMAIN Tail(s) = 1..Len(Tail(s))

LEMMA AppendFacts ==
  ASSUME NEW X, NEW s \in Seq(X), NEW x \in X
  PROVE  \A i \in DOMAIN Append(s, x) :
           \/ i \in DOMAIN s /\ Append(s, x)[i] = s[i]
           \/ i = Len(s) + 1 /\ Append(s, x)[i] = x
  BY AppendProperties, DOMAIN Append(s, x) = 1..Len(Append(s, x))

(* A run that ends changes no file and forgets what it held. *)
LEMMA RestKeeps ==
  ASSUME IInv, Rest, UNCHANGED <<state, sub_smoothed_regimes, behind>>
  PROVE  Orderly' /\ Apart' /\ Current' /\ Followed' /\ SteadyRegimeConfirmed'
<1>1. Orderly' /\ Apart'
  BY DEF Rest, Orderly, Apart, Ahead, Alone
<1>2. Current'
  BY DEF Rest, Current
<1>3. Followed' /\ SteadyRegimeConfirmed'
  BY DEF IInv, Followed, SteadyRegimeConfirmed
<1> QED BY <1>1, <1>2, <1>3

(* An evaluation is one as long as the date is the same. *)
LEMMA EvaluatedSame ==
  ASSUME day' = day, raw' = raw
  PROVE  \A res : Evaluated(res) => Evaluated(res)'
<1>1. \A st : Smoothed(st)' = Smoothed(st)
  BY DEF Smoothed, Seen, Agree
<1>2. \A st, d : Why(st, d)' = Why(st, d)
  BY <1>1 DEF Why, CoolingDown
<1> QED BY <1>1, <1>2 DEF Evaluated

(* When the observations saved agree, they agree on the raw regime of the  *)
(* date, and then the smoother did.                                        *)
LEMMA SavedSteady ==
  ASSUME TypeOK, NEW res, Evaluated(res), NEW r \in Regimes,
         Len(Saved(res).seen) = SmoothingDays,
         \A i \in DOMAIN Saved(res).seen : Saved(res).seen[i][1] = r
  PROVE  Saved(res).confirmed = r
<1> DEFINE k == Seen(res.loaded)
<1>1. /\ res \in Results /\ res.loaded.seen \in Seq(Regimes \X (1..MaxDay))
      /\ res.regime = Smoothed(res.loaded)
  BY DEF Evaluated, Results, StateFile
<1>2. Saved(res).seen = k /\ Saved(res).confirmed = res.regime
  BY <1>1, SavedTypes
<1>3. <<raw, day>> \in Regimes \X (1..MaxDay)
  BY DEF TypeOK
<1>4. /\ k \in Seq(Regimes \X (1..MaxDay))
      /\ Len(k) \in 1..SmoothingDays /\ k[Len(k)] = <<raw, day>>
  <2> DEFINE X == Regimes \X (1..MaxDay)
             old == res.loaded.seen
             new == <<raw, day>>
  <2>1. old \in Seq(X) /\ new \in X /\ k = Kept(Append(old, new))
    BY <1>1, <1>3 DEF Seen
  <2> HIDE DEF X, old, new, k
  <2>2. k \in Seq(X) /\ Len(k) \in 1..SmoothingDays /\ k[Len(k)] = new
    BY <2>1, KeptFacts
  <2> QED BY <2>2 DEF X, new
<1> HIDE DEF k
<1>5. Len(k) \in DOMAIN k
  BY <1>4
<1>6. r = raw
  BY <1>2, <1>4, <1>5
<1>7. Agree(k)
  BY <1>2, <1>6, ConstantFacts DEF Agree
<1> QED BY <1>1, <1>2, <1>6, <1>7 DEF Smoothed, k

(* A strategy is saved: the file then knows of the last ticket, unless     *)
(* there is none of it.                                                    *)
LEMMA SaveKeeps ==
  ASSUME IInv, NEW reported \in BOOLEAN, SaveState(reported), Typed'
  PROVE  IInv'
<1> DEFINE s == result.sub
<1>1. /\ pc = "save" /\ TypeOK /\ result \in Results /\ s \in Subs
      /\ Evaluated(result) /\ result.loaded.rebalance = state[s].rebalance
      /\ s \notin Ahead /\ evaluated[s] = None
      /\ \A i \in DOMAIN sub_results : sub_results[i].sub # s
  BY DEF IInv, Typed, SaveState, Results, Current, Apart
<1>2. /\ state' = [state EXCEPT ![s] = Saved(result)] /\ behind' = behind \cup {s}
      /\ UNCHANGED <<market, sub_smoothed_regimes, tickets, last_post, runs>>
  BY DEF SaveState
<1>3. /\ state'[s] = Saved(result) /\ \A t \in Subs \ {s} : state'[t] = state[t]
      /\ Saved(result).confirmed = result.regime
      /\ Saved(result).rebalance = IF Rebalance(result) THEN day ELSE state[s].rebalance
  BY <1>1, <1>2, SavedTypes DEF TypeOK
<1>4. Change(result) => Rebalance(result)
  BY <1>1, ReasonFacts
<1>5. SteadyRegimeConfirmed'
  <2> SUFFICES ASSUME NEW t \in Subs, NEW r \in Regimes,
                      Len(state'[t].seen) = SmoothingDays,
                      \A i \in DOMAIN state'[t].seen : state'[t].seen[i][1] = r
               PROVE  state'[t].confirmed = r
    BY DEF SteadyRegimeConfirmed
  <2>1. CASE t = s
    BY <1>1, <1>3, <2>1, SavedSteady
  <2>2. CASE t # s
    BY <1>3, <2>2 DEF IInv, SteadyRegimeConfirmed
  <2> QED BY <2>1, <2>2
<1>6. Followed'
  BY <1>2, <1>3 DEF IInv, Followed
<1>7. day \in Nat /\ day > 0 /\ \A t \in Subs : state[t].rebalance \in Nat
  BY <1>1, ConstantFacts DEF TypeOK, StateFile
<1>8. \A t \in Subs : /\ last_post[t][1] <= day /\ last_post[t][1] \in Nat
                      /\ t # s /\ t \notin unsaved /\ last_post[t][1] > 0
                           => state'[t].rebalance >= last_post[t][1]
  BY <1>1, <1>3 DEF IInv, Known
<1>9. Rebalance(result) => state'[s].rebalance >= last_post[s][1]
  BY <1>1, <1>3, <1>7, <1>8
<1>10. ASSUME ~Rebalance(result) \/ mode # "single",
              s \notin unsaved, last_post[s][1] > 0
       PROVE  state[s].rebalance >= last_post[s][1]
  BY <1>1, <1>10 DEF IInv, Known
<1>11. /\ s \notin unsaved /\ last_post[s][1] > 0
         => \/ state'[s].rebalance >= last_post[s][1]
            \/ mode = "single" /\ Rebalance(result)
  BY <1>3, <1>9, <1>10
<1>12. CASE Alone
  <2>1. Rest /\ sub_results = <<>>
    BY <1>12 DEF SaveState, IInv, Orderly
  <2>2. Orderly' /\ Apart'
    BY <2>1 DEF Rest, Orderly, Apart, Ahead, Alone
  <2>3. Current'
    BY <2>1 DEF Rest, Current
  <2>4. Ticketed'
    <3>1. owed \ excused = {}
      BY <2>1 DEF IInv, Ticketed
    <3>2. owed' \ excused' \subseteq owed \ excused
      <4>1. CASE mode = "single" /\ Rebalance(result)
        BY <4>1 DEF SaveState
      <4>2. CASE ~(mode = "single" /\ Rebalance(result)) /\ Change(result)
        <5>1. Rebalance(result)
          <6>1. Change(result) BY ONLY <4>2
          <6> QED BY ONLY <1>4, <6>1
        <5>2. mode # "single" BY ONLY <4>2, <5>1
        <5>3. mode = "silent" BY <1>12, <5>2 DEF Alone
        <5> QED BY <4>2, <5>3 DEF SaveState
      <4>3. CASE ~(mode = "single" /\ Rebalance(result)) /\ ~Change(result)
        BY <4>3 DEF SaveState
      <4> QED BY <4>1, <4>2, <4>3
    <3> QED BY <3>1, <3>2 DEF Ticketed
  <2>5. Known'
    <3> SUFFICES ASSUME NEW t \in Subs
                 PROVE  /\ last_post[t][1] <= day /\ last_post[t][1] \in Nat
                        /\ t \notin unsaved' /\ last_post[t][1] > 0 =>
                             state'[t].rebalance >= last_post[t][1]
      BY <1>2, <2>1 DEF Known, Rest, market
    <3>1. unsaved' = IF Rebalance(result) THEN unsaved \ {s} ELSE unsaved
      BY <1>12 DEF SaveState
    <3> QED BY <1>8, <1>9, <1>11, <3>1
  <2> QED BY <1>5, <1>6, <2>2, <2>3, <2>4, <2>5 DEF IInv
<1>13. CASE ~Alone
  <2> DEFINE new == IF reported THEN Append(sub_results, result) ELSE sub_results
  <2>1. /\ pc' = "evaluate" /\ result' = NoResult /\ sub_results' = new
        /\ evaluated' = IF reported THEN [evaluated EXCEPT ![s] = result.regime]
                                    ELSE evaluated
        /\ excused' = IF Change(result) /\ ~reported THEN excused \cup {s} ELSE excused
        /\ mode' = mode /\ todo' = todo /\ unsaved' = unsaved
        /\ owed' = IF Change(result) THEN owed \cup {s} ELSE owed
    BY <1>13 DEF SaveState, Alone
  <2>2. /\ \A i \in DOMAIN new : \/ i \in DOMAIN sub_results /\ new[i] = sub_results[i]
                                 \/ reported /\ i = Len(sub_results) + 1 /\ new[i] = result
        /\ \A i \in DOMAIN sub_results : i \in DOMAIN new /\ new[i] = sub_results[i]
        /\ reported => \E i \in DOMAIN new : new[i] = result
    <3>1. sub_results \in Seq(Results)
      BY <1>1 DEF TypeOK
    <3>2. /\ Len(Append(sub_results, result)) = Len(sub_results) + 1
          /\ Append(sub_results, result)[Len(sub_results) + 1] = result
          /\ \A i \in DOMAIN sub_results : /\ i \in DOMAIN Append(sub_results, result)
                                           /\ Append(sub_results, result)[i] = sub_results[i]
          /\ Len(sub_results) + 1 \in DOMAIN Append(sub_results, result)
      BY <1>1, <3>1, AppendProperties
    <3>3. \A i \in DOMAIN Append(sub_results, result) :
            \/ i \in DOMAIN sub_results /\ Append(sub_results, result)[i] = sub_results[i]
            \/ i = Len(sub_results) + 1 /\ Append(sub_results, result)[i] = result
      BY <1>1, <3>1, AppendFacts
    <3> QED BY <3>2, <3>3
  <2> HIDE DEF new
  <2>3. \A t \in Subs : evaluated'[t] = IF reported /\ t = s THEN result.regime
                                                             ELSE evaluated[t]
    BY <1>1, <2>1 DEF TypeOK
  <2>4. Orderly'
    BY <1>13, <2>1 DEF Orderly, Alone
  <2>5. Ahead' = Ahead /\ Ahead \subseteq Subs
    BY <1>1, <2>1 DEF Ahead, TypeOK
  <2>6. Apart'
    <3>1. \A i, j \in DOMAIN new : new[i].sub = new[j].sub => i = j
      BY <1>1, <2>2 DEF IInv, Apart
    <3>2. \A i \in DOMAIN new : new[i].sub \notin Ahead
      BY <1>1, <2>2 DEF IInv, Apart
    <3>3. \A t \in Ahead : evaluated'[t] = None
      BY <1>1, <2>3, <2>5 DEF IInv, Apart
    <3> QED BY <2>1, <2>5, <3>1, <3>2, <3>3 DEF IInv, Apart
  <2>7. Current'
    <3>1. \A i \in DOMAIN new : Evaluated(new[i])
      BY <1>1, <2>2 DEF IInv, Current
    <3>2. (\A i \in DOMAIN sub_results : Evaluated(sub_results[i]))'
      BY <1>2, <2>1, <3>1, EvaluatedSame DEF market
    <3>3. \A i \in DOMAIN new : Rebalance(new[i]) => state'[new[i].sub].rebalance = day
      <4> SUFFICES ASSUME NEW i \in DOMAIN new, Rebalance(new[i])
                   PROVE  state'[new[i].sub].rebalance = day
        OBVIOUS
      <4>1. CASE new[i] = result
        BY <1>3, <4>1
      <4>2. CASE i \in DOMAIN sub_results /\ new[i] = sub_results[i]
        <5>1. new[i].sub # s /\ new[i].sub \in Subs
          <6>1. sub_results[i] \in Results
            BY <1>1, <4>2 DEF TypeOK
          <6> QED BY <1>1, <4>2, <6>1 DEF Results
        <5> QED BY <1>3, <4>2, <5>1 DEF IInv, Current
      <4> QED BY <2>2, <4>1, <4>2
    <3>4. \A t \in Subs : evaluated'[t] # None => evaluated'[t] = state'[t].confirmed
      BY <1>1, <1>3, <2>3 DEF IInv, Current
    <3>5. day' = day BY <1>2 DEF market
    <3>6. (\A i \in DOMAIN sub_results :
             Rebalance(sub_results[i]) => state[sub_results[i].sub].rebalance = day)'
      BY <2>1, <3>3, <3>5 DEF Rebalance
    <3> QED BY <2>1, <3>2, <3>4, <3>6 DEF Current
  <2>8. Ticketed'
    <3> SUFFICES ASSUME NEW t \in owed' \ excused'
                 PROVE  \E i \in DOMAIN new : new[i].sub = t /\ Rebalance(new[i])
      BY <2>1 DEF Ticketed
    <3>1. CASE t \in owed
      <4>1. PICK i \in DOMAIN sub_results : sub_results[i].sub = t /\ Rebalance(sub_results[i])
        BY <2>1, <3>1 DEF IInv, Ticketed
      <4> QED BY <2>2, <4>1
    <3>2. CASE t \notin owed
      <4>1. t = s /\ Change(result) /\ reported
        BY <2>1, <3>2
      <4> QED BY <1>4, <2>2, <4>1
    <3> QED BY <3>1, <3>2
  <2>9. Known'
    <3> SUFFICES ASSUME NEW t \in Subs
                 PROVE  /\ last_post[t][1] <= day /\ last_post[t][1] \in Nat
                        /\ t \notin unsaved /\ last_post[t][1] > 0 =>
                             /\ state'[t].rebalance >= last_post[t][1]
                             /\ \A i \in DOMAIN new : new[i].sub = t =>
                                  new[i].loaded.rebalance >= last_post[t][1]
      BY <1>2, <2>1 DEF Known, market
    <3>1. t \notin unsaved /\ last_post[t][1] > 0 => state'[t].rebalance >= last_post[t][1]
      BY <1>8, <1>11, <1>13 DEF Alone
    <3>2. ASSUME t \notin unsaved, last_post[t][1] > 0, NEW i \in DOMAIN new, new[i].sub = t
          PROVE  new[i].loaded.rebalance >= last_post[t][1]
      <4>1. CASE new[i] = result
        BY <1>1, <1>10, <1>13, <3>2, <4>1 DEF Alone
      <4>2. CASE i \in DOMAIN sub_results /\ new[i] = sub_results[i]
        BY <3>2, <4>2 DEF IInv, Known
      <4> QED BY <2>2, <4>1, <4>2
    <3> QED BY <1>8, <3>1, <3>2
  <2> QED BY <1>5, <1>6, <2>4, <2>6, <2>7, <2>8, <2>9 DEF IInv
<1> QED BY <1>12, <1>13

(* The coordinator posts what it held first: the file is of the date, and  *)
(* its last ticket is no later.                                            *)
LEMMA PostSubKeeps ==
  ASSUME IInv, PostSub, Typed'
  PROVE  IInv'
<1> DEFINE res == Head(sub_results)
<1>1. /\ pc = "evaluate" /\ ~Alone /\ todo = <<>> /\ sub_results # <<>>
      /\ sub_results' = Tail(sub_results)
      /\ UNCHANGED <<day, raw, state, sub_smoothed_regimes, pc, mode, todo, result, evaluated,
                     behind>>
  BY DEF PostSub, market, Alone
<1>2. /\ sub_results \in Seq(Results) /\ last_post \in [Subs -> (0..MaxDay) \X Whys]
      /\ day \in 1..MaxDay /\ state \in [Subs -> StateFile]
  BY DEF IInv, Typed, TypeOK
<1>3. /\ 1 \in DOMAIN sub_results /\ res = sub_results[1] /\ res \in Results
      /\ \A i \in DOMAIN Tail(sub_results) :
           /\ i \in Nat /\ i + 1 \in DOMAIN sub_results /\ i + 1 # 1
           /\ Tail(sub_results)[i] = sub_results[i + 1]
  BY <1>1, <1>2, TailFacts
<1>4. \/ /\ Rebalance(res)
         /\ \/ last_post' = last_post
            \/ last_post' = [last_post EXCEPT ![res.sub] = <<day, res.why>>]
         /\ owed' = owed \ {res.sub} /\ excused' = excused \ {res.sub}
         /\ unsaved' = unsaved \ {res.sub}
      \/ /\ Rebalance(res) /\ excused' = excused \cup ({res.sub} \cap owed)
         /\ UNCHANGED <<last_post, owed, unsaved>>
      \/ ~Rebalance(res) /\ UNCHANGED <<last_post, owed, excused, unsaved>>
  BY DEF PostSub, Post
<1> HIDE DEF res
<1>5. res.sub \in Subs
  BY <1>3 DEF Results
<1>6. \A i \in DOMAIN Tail(sub_results) : Tail(sub_results)[i].sub # res.sub
  BY <1>3 DEF IInv, Apart
<1>7. Orderly'
  BY <1>1 DEF IInv, Orderly, Alone
<1>8. Apart'
  <2>1. Ahead' = Ahead
    BY <1>1 DEF Ahead
  <2>2. \A i, j \in DOMAIN Tail(sub_results) :
          Tail(sub_results)[i].sub = Tail(sub_results)[j].sub => i = j
    BY <1>3 DEF IInv, Apart
  <2>3. \A i \in DOMAIN Tail(sub_results) : Tail(sub_results)[i].sub \notin Ahead
    BY <1>3 DEF IInv, Apart
  <2> QED BY <1>1, <2>1, <2>2, <2>3 DEF IInv, Apart
<1>9. Current'
  <2>1. (\A i \in DOMAIN sub_results : Evaluated(sub_results[i]))'
    BY <1>1, <1>3, EvaluatedSame DEF IInv, Current
  <2>2. (\A i \in DOMAIN sub_results :
           Rebalance(sub_results[i]) => state[sub_results[i].sub].rebalance = day)'
    BY <1>1, <1>3 DEF IInv, Current, Rebalance
  <2> QED BY <1>1, <2>1, <2>2 DEF IInv, Current
<1>10. Ticketed'
  <2> SUFFICES ASSUME NEW t \in owed' \ excused'
               PROVE  \E i \in DOMAIN Tail(sub_results) :
                        Tail(sub_results)[i].sub = t /\ Rebalance(Tail(sub_results)[i])
    BY <1>1 DEF Ticketed
  <2>1. t \in owed \ excused /\ (Rebalance(res) => t # res.sub)
    BY <1>4
  <2>2. PICK i \in DOMAIN sub_results : sub_results[i].sub = t /\ Rebalance(sub_results[i])
    BY <2>1 DEF IInv, Ticketed
  <2>3. i # 1
    BY <1>3, <2>1, <2>2
  <2>4. i - 1 \in DOMAIN Tail(sub_results) /\ Tail(sub_results)[i - 1] = sub_results[i]
    <3>1. Len(Tail(sub_results)) = Len(sub_results) - 1 /\ Tail(sub_results) \in Seq(Results)
      BY <1>1, <1>2, HeadTailProperties
    <3>2. i \in 1..Len(sub_results)
      BY <1>2
    <3>3. i - 1 \in DOMAIN Tail(sub_results)
      BY <2>3, <3>1, <3>2
    <3> QED BY <1>3, <3>2, <3>3
  <2> QED BY <2>2, <2>4
<1>11. Followed' /\ SteadyRegimeConfirmed'
  BY <1>1 DEF IInv, Followed, SteadyRegimeConfirmed
<1>12. Known'
  <2> SUFFICES ASSUME NEW t \in Subs
               PROVE  /\ last_post'[t][1] <= day /\ last_post'[t][1] \in Nat
                      /\ t \notin unsaved' /\ last_post'[t][1] > 0 =>
                           /\ state[t].rebalance >= last_post'[t][1]
                           /\ \A i \in DOMAIN Tail(sub_results) :
                                Tail(sub_results)[i].sub = t =>
                                  Tail(sub_results)[i].loaded.rebalance >= last_post'[t][1]
    BY <1>1 DEF Known
  <2>1. day \in Nat /\ last_post[t][1] \in Nat /\ last_post[t][1] <= day
    BY <1>2, ConstantFacts DEF IInv, Known
  <2>2. CASE t = res.sub /\ Rebalance(res)
    <3>1. last_post'[t][1] \in {last_post[t][1], day}
      BY <1>2, <1>4, <1>5, <2>2
    <3>2. state[t].rebalance = day
      BY <1>3, <2>2 DEF IInv, Current
    <3> QED BY <1>6, <2>1, <2>2, <3>1, <3>2
  <2>3. CASE ~(t = res.sub /\ Rebalance(res))
    <3>1. last_post'[t] = last_post[t] /\ (t \notin unsaved' => t \notin unsaved)
      BY <1>2, <1>4, <2>3
    <3>2. t \notin unsaved /\ last_post[t][1] > 0 => state[t].rebalance >= last_post[t][1]
      BY <1>1 DEF IInv, Known
    <3>3. \A i \in DOMAIN Tail(sub_results) :
            t \notin unsaved /\ last_post[t][1] > 0 /\ Tail(sub_results)[i].sub = t =>
              Tail(sub_results)[i].loaded.rebalance >= last_post[t][1]
      BY <1>3 DEF IInv, Known
    <3> QED BY <2>1, <3>1, <3>2, <3>3
  <2> QED BY <2>2, <2>3
<1> QED BY <1>7, <1>8, <1>9, <1>10, <1>11, <1>12 DEF IInv

LEMMA EvaluateKeeps ==
  ASSUME IInv, Evaluate, Typed'
  PROVE  IInv'
<1> DEFINE s == Head(todo)
<1>1. /\ pc = "evaluate" /\ todo # <<>> /\ todo' = Tail(todo)
      /\ pc' = IF mode = "single" /\ Rebalance(result') THEN "post" ELSE "save"
      /\ UNCHANGED <<day, raw, files, mode, sub_results, evaluated, history>>
  BY DEF Evaluate
<1>2. /\ todo \in Seq(Subs) /\ sub_results \in Seq(Results) /\ TypeOK
  BY DEF IInv, Typed, TypeOK
<1>3. /\ 1 \in DOMAIN todo /\ s = todo[1] /\ s \in Subs
      /\ \A i \in DOMAIN Tail(todo) :
           /\ i \in Nat /\ i + 1 \in DOMAIN todo /\ i + 1 # 1 /\ Tail(todo)[i] = todo[i + 1]
  BY <1>1, <1>2, TailFacts
<1>4. PICK d \in Drifts : result' = Result(s, d)
  BY DEF Evaluate
<1>5. Evaluated(result') /\ result'.loaded = state[s] /\ result'.sub = s
  <2>1. Evaluated(Result(s, d))
    BY <1>2, <1>3, EvaluationTypes
  <2> QED BY <1>4, <2>1 DEF Result
<1> HIDE DEF s
<1>6. Ahead' \subseteq Ahead /\ s \in Ahead /\ s \notin Ahead'
  <2>1. Ahead' = {Tail(todo)[i] : i \in DOMAIN Tail(todo)}
    BY <1>1 DEF Ahead
  <2>2. \A i, j \in DOMAIN todo : todo[i] = todo[j] => i = j
    BY DEF IInv, Apart
  <2>3. \A i \in DOMAIN Tail(todo) : Tail(todo)[i] \in Ahead /\ Tail(todo)[i] # s
    BY <1>3, <2>2 DEF Ahead
  <2> QED BY <1>3, <2>1, <2>3 DEF Ahead
<1>7. Orderly'
  BY <1>1, <1>5 DEF IInv, Orderly, Rebalance, Alone
<1>8. Apart'
  <2>1. \A i, j \in DOMAIN Tail(todo) : Tail(todo)[i] = Tail(todo)[j] => i = j
    BY <1>3 DEF IInv, Apart
  <2> QED BY <1>1, <1>5, <1>6, <2>1 DEF IInv, Apart
<1>9. Current'
  <2>1. Evaluated(result)'
    BY <1>1, <1>5, EvaluatedSame
  <2>2. (\A i \in DOMAIN sub_results : Evaluated(sub_results[i]))'
    BY <1>1, EvaluatedSame DEF IInv, Current
  <2>3. (\A i \in DOMAIN sub_results :
           Rebalance(sub_results[i]) => state[sub_results[i].sub].rebalance = day)'
    BY <1>1 DEF IInv, Current, Rebalance, files
  <2> QED BY <1>1, <1>5, <2>1, <2>2, <2>3 DEF IInv, Current, files
<1>10. Ticketed' /\ Followed' /\ SteadyRegimeConfirmed'
  BY <1>1 DEF IInv, Ticketed, Followed, SteadyRegimeConfirmed, Rebalance, files, history
<1>11. Known'
  <2> SUFFICES ASSUME NEW t \in Subs
               PROVE  /\ last_post[t][1] <= day /\ last_post[t][1] \in Nat
                      /\ t \notin unsaved /\ last_post[t][1] > 0 =>
                           /\ state[t].rebalance >= last_post[t][1]
                           /\ \A i \in DOMAIN sub_results : sub_results[i].sub = t =>
                                sub_results[i].loaded.rebalance >= last_post[t][1]
    BY <1>1 DEF Known, files, history
  <2> QED BY <1>1 DEF IInv, Known
<1> QED BY <1>7, <1>8, <1>9, <1>10, <1>11 DEF IInv

LEMMA IInvNext == IInv /\ [Next]_vars => IInv'
<1> SUFFICES ASSUME IInv, [Next]_vars PROVE IInv'
  OBVIOUS
<1>0. Typed' /\ TypeOK
  BY TypedNext DEF IInv, Typed
<1> USE <1>0 DEF market, files, process, history
<1>1. ASSUME NEW s \in Subs, NEW silent \in BOOLEAN, StartSingle(s, silent) PROVE IInv'
  <2> USE <1>1 DEF StartSingle
  <2>1. Orderly' /\ Apart'
    BY DEF IInv, Orderly, Apart, Ahead, Alone
  <2>2. Current'
    BY DEF IInv, Orderly, Current, Alone
  <2>3. Ticketed' /\ Followed' /\ SteadyRegimeConfirmed' /\ Known'
    BY DEF IInv, Ticketed, Followed, SteadyRegimeConfirmed, Known
  <2> QED BY <2>1, <2>2, <2>3 DEF IInv
<1>2. ASSUME NEW s \in Subs, SetAllocations(s) PROVE IInv'
  <2>1. \A t \in Subs : /\ state'[t].rebalance = state[t].rebalance
                        /\ state'[t].confirmed = state[t].confirmed
                        /\ state'[t].seen = state[t].seen
    BY <1>2 DEF SetAllocations, TypeOK, StateFile
  <2>2. UNCHANGED <<day, raw, sub_smoothed_regimes, process, owed, excused, last_post,
                    unsaved, behind>>
    BY <1>2 DEF SetAllocations
  <2>3. Orderly' /\ Apart'
    BY <2>2 DEF IInv, Orderly, Apart, Ahead, Rebalance, Alone
  <2>4. Current'
    <3>1. /\ pc \in {"post", "save"} => result.sub \in Subs
          /\ \A i \in DOMAIN sub_results : sub_results[i].sub \in Subs
      BY DEF IInv, Current, Evaluated, Results
    <3>2. (pc \in {"post", "save"} => Evaluated(result))'
      BY <2>2, EvaluatedSame DEF IInv, Current
    <3>3. (\A i \in DOMAIN sub_results : Evaluated(sub_results[i]))'
      BY <2>2, EvaluatedSame DEF IInv, Current
    <3>4. (\A i \in DOMAIN sub_results :
             Rebalance(sub_results[i]) => state[sub_results[i].sub].rebalance = day)'
      BY <2>1, <2>2, <3>1 DEF IInv, Current, Rebalance
    <3> QED BY <2>1, <2>2, <3>1, <3>2, <3>3, <3>4 DEF IInv, Current
  <2>5. Ticketed' /\ Followed' /\ SteadyRegimeConfirmed' /\ Known'
    BY <2>1, <2>2 DEF IInv, Ticketed, Followed, SteadyRegimeConfirmed, Known, Rebalance
  <2> QED BY <2>3, <2>4, <2>5 DEF IInv
<1>3. ASSUME NEW kind \in {"coordinator", "muted", "dry"}, StartCoordinator(kind) PROVE IInv'
  <2> USE <1>3 DEF StartCoordinator
  <2>1. Orderly' /\ Apart'
    BY ConstantFacts DEF IInv, Orderly, Apart, Ahead, Subs, Alone
  <2>2. Current'
    BY DEF IInv, Orderly, Current, Alone
  <2>3. Ticketed' /\ Followed' /\ SteadyRegimeConfirmed' /\ Known'
    BY DEF IInv, Ticketed, Followed, SteadyRegimeConfirmed, Known
  <2> QED BY <2>1, <2>2, <2>3 DEF IInv
<1>4. CASE Evaluate
  BY <1>4, EvaluateKeeps
<1>5. CASE EvaluationRaises
  <2>1. CASE Alone
    <3>1. Rest /\ UNCHANGED <<market, files, history>> /\ sub_results = <<>>
          /\ pc = "evaluate"
      BY <1>5, <2>1 DEF EvaluationRaises, IInv, Orderly
    <3>2. Ticketed' /\ Known'
      BY <3>1 DEF IInv, Ticketed, Known, Rest
    <3> QED BY <3>1, <3>2, RestKeeps DEF IInv
  <2>2. CASE ~Alone
    <3>1. /\ pc = "evaluate" /\ todo' = Tail(todo) /\ todo # <<>>
          /\ UNCHANGED <<pc, mode, result, sub_results, evaluated, market, files, history>>
      BY <1>5, <2>2 DEF EvaluationRaises
    <3>2. \A i \in DOMAIN Tail(todo) : i + 1 \in DOMAIN todo /\ Tail(todo)[i] = todo[i + 1]
                                       /\ i \in Nat
      BY <3>1, TailFacts DEF TypeOK
    <3>3. Ahead' \subseteq Ahead
      BY <3>1, <3>2 DEF Ahead
    <3>4. Apart'
      BY <3>1, <3>2, <3>3 DEF IInv, Apart
    <3>5. Orderly'
      BY <2>2, <3>1 DEF IInv, Orderly, Alone
    <3>6. Current'
      <4>1. (\A i \in DOMAIN sub_results : Evaluated(sub_results[i]))'
        BY <3>1, EvaluatedSame DEF IInv, Current
      <4> QED BY <3>1, <4>1 DEF IInv, Current, Rebalance
    <3>7. Ticketed' /\ Followed' /\ SteadyRegimeConfirmed' /\ Known'
      BY <3>1 DEF IInv, Ticketed, Followed, SteadyRegimeConfirmed, Known, Rebalance
    <3> QED BY <3>4, <3>5, <3>6, <3>7 DEF IInv
  <2> QED BY <2>1, <2>2
<1>6. CASE PostTicket
  <2>1. /\ pc = "post" /\ pc' = "save" /\ mode = "single" /\ Rebalance(result)
        /\ UNCHANGED <<market, state, sub_smoothed_regimes, mode, todo, result, sub_results,
                       evaluated, owed, excused, unsaved, behind>>
        /\ sub_results = <<>> /\ result \in Results
    BY <1>6 DEF PostTicket, IInv, Orderly, Typed, Alone
  <2>2. Orderly' /\ Apart'
    BY <2>1 DEF IInv, Orderly, Apart, Ahead, Alone
  <2>3. Current'
    <3>1. Evaluated(result)'
      BY <2>1, EvaluatedSame DEF IInv, Current
    <3> QED BY <2>1, <3>1 DEF IInv, Current
  <2>4. Ticketed' /\ Followed' /\ SteadyRegimeConfirmed'
    BY <2>1 DEF IInv, Ticketed, Followed, SteadyRegimeConfirmed
  <2>5. Known'
    <3>1. \/ last_post' = last_post
          \/ last_post' = [last_post EXCEPT ![result.sub] = <<day, result.why>>]
      BY <1>6 DEF PostTicket, Post
    <3>2. /\ last_post \in [Subs -> (0..MaxDay) \X Whys] /\ day \in Nat
          /\ result.sub \in Subs
      BY <2>1, ConstantFacts DEF TypeOK, Results
    <3> SUFFICES ASSUME NEW t \in Subs
                 PROVE  /\ last_post'[t][1] <= day /\ last_post'[t][1] \in Nat
                        /\ t \notin unsaved /\ last_post'[t][1] > 0 =>
                             state[t].rebalance >= last_post'[t][1] \/ result.sub = t
      BY <2>1 DEF Known, Rebalance
    <3>3. last_post[t][1] <= day /\ last_post[t][1] \in Nat
      BY DEF IInv, Known
    <3>4. CASE t = result.sub
      <4>1. last_post'[t][1] \in {last_post[t][1], day}
        BY <3>1, <3>2, <3>4
      <4> QED BY <3>2, <3>3, <3>4, <4>1
    <3>5. CASE t # result.sub
      <4>1. last_post'[t] = last_post[t]
        BY <3>1, <3>2, <3>5
      <4> QED BY <2>1, <3>3, <4>1 DEF IInv, Known
    <3> QED BY <3>4, <3>5
  <2> QED BY <2>2, <2>3, <2>4, <2>5 DEF IInv
<1>7. CASE StateSaved
  BY <1>7, SaveKeeps DEF StateSaved
<1>8. CASE LedgerRaises
  BY <1>8, SaveKeeps DEF LedgerRaises
<1>9. CASE PostSub
  BY <1>9, PostSubKeeps
<1>10. CASE SaveCoordinator
  <2>1. /\ pc = "evaluate" /\ sub_results = <<>> /\ Rest
        /\ UNCHANGED <<market, state, tickets, owed, excused, last_post, unsaved>>
    BY <1>10 DEF SaveCoordinator
  <2>2. Orderly' /\ Apart' /\ Current'
    BY <2>1 DEF Rest, Orderly, Apart, Ahead, Current, Alone
  <2>3. Ticketed' /\ Known'
    BY <2>1 DEF IInv, Ticketed, Known, Rest
  <2>4. Followed'
    <3>1. /\ sub_smoothed_regimes' = [s \in Subs |->
               IF evaluated[s] # None THEN evaluated[s] ELSE sub_smoothed_regimes[s]]
          /\ behind' = {s \in behind : evaluated[s] = None}
      BY <1>10 DEF SaveCoordinator
    <3> QED BY <2>1, <3>1 DEF IInv, Followed, Current
  <2>5. SteadyRegimeConfirmed'
    BY <2>1 DEF IInv, SteadyRegimeConfirmed
  <2> QED BY <2>2, <2>3, <2>4, <2>5 DEF IInv
<1>11. CASE EndDryRun
  <2>1. /\ Rest /\ excused' = excused \cup (Waiting \cap owed) /\ mode = "dry" /\ pc = "evaluate"
        /\ UNCHANGED <<market, files, owed, last_post, unsaved, behind>>
    BY <1>11 DEF EndDryRun
  <2>2. Ticketed' /\ Known'
    BY <2>1 DEF IInv, Ticketed, Known, Rest, Waiting
  <2> QED BY <2>1, <2>2, RestKeeps DEF IInv
<1>12. CASE Crash
  <2>1. /\ Rest /\ excused' = excused \cup (Waiting \cap owed)
        /\ unsaved' = IF mode = "single" /\ pc = "save" /\ Rebalance(result)
                      THEN unsaved \cup {result.sub} ELSE unsaved
        /\ UNCHANGED <<market, files, owed, last_post, behind>>
    BY <1>12 DEF Crash
  <2>2. Ticketed'
    BY <2>1 DEF IInv, Ticketed, Rest, Waiting
  <2>3. Known'
    BY <2>1 DEF IInv, Known, Rest
  <2> QED BY <2>1, <2>2, <2>3, RestKeeps DEF IInv
<1>13. CASE NextDay
  <2>1. /\ pc = "idle" /\ mode = "single" /\ sub_results = <<>> /\ day' = day + 1
        /\ UNCHANGED <<state, sub_smoothed_regimes, process, history>> /\ day \in Nat
    BY <1>13, ConstantFacts DEF NextDay, IInv, Orderly, TypeOK, Alone
  <2>2. Orderly' /\ Apart' /\ Current'
    BY <2>1 DEF IInv, Orderly, Apart, Ahead, Current, Alone
  <2>3. Ticketed' /\ Followed' /\ SteadyRegimeConfirmed'
    BY <2>1 DEF IInv, Ticketed, Followed, SteadyRegimeConfirmed
  <2>4. Known'
    BY <2>1 DEF IInv, Known
  <2> QED BY <2>2, <2>3, <2>4 DEF IInv
<1>14. CASE UNCHANGED vars
  <2>1. UNCHANGED <<market, files, process, history>>
    BY <1>14 DEF vars
  <2>2. Orderly' /\ Apart'
    BY <2>1 DEF IInv, Orderly, Apart, Ahead, Rebalance, Alone
  <2>3. Current'
    <3>1. (pc \in {"post", "save"} => Evaluated(result))'
      BY <2>1, EvaluatedSame DEF IInv, Current
    <3>2. (\A i \in DOMAIN sub_results : Evaluated(sub_results[i]))'
      BY <2>1, EvaluatedSame DEF IInv, Current
    <3> QED BY <2>1, <3>1, <3>2 DEF IInv, Current, Rebalance
  <2>4. Ticketed' /\ Followed' /\ SteadyRegimeConfirmed' /\ Known'
    BY <2>1 DEF IInv, Ticketed, Followed, SteadyRegimeConfirmed, Known, Rebalance
  <2> QED BY <2>2, <2>3, <2>4 DEF IInv
<1> QED
  BY <1>1, <1>2, <1>3, <1>4, <1>5, <1>6, <1>7, <1>8, <1>9, <1>10, <1>11, <1>12, <1>13,
     <1>14 DEF Next

LEMMA IInvAlways == Spec => []IInv
  BY IInvInit, IInvNext, PTL DEF Spec

-----------------------------------------------------------------------------
(* What follows                                                            *)

(* A saved change of regime has its ticket, but for those saved by a run   *)
(* told not to post, or by a run of the coordinator cut short, until a     *)
(* ticket of the strategy is posted again.                                 *)
THEOREM RegimeChangesTicketed == Spec => []RegimeChangeTicketed
<1>1. IInv => RegimeChangeTicketed
  BY DEF IInv, Orderly, Ticketed, RegimeChangeTicketed, Alone
<1> QED BY <1>1, IInvAlways, PTL

(* A lasting regime is the confirmed one, and at rest the coordinator's    *)
(* file says what the strategies' files do.                                *)
THEOREM RegimesAreKept == Spec => []RegimesKept
<1>1. IInv => RegimesKept
  BY DEF IInv, Followed, RegimesKept, CoordinatorAgrees
<1> QED BY <1>1, IInvAlways, PTL

(* Drift makes no ticket within the cooldown: the reason was given against *)
(* the state loaded, which knew of the last ticket.                        *)
THEOREM CooldownKept == Spec => CooldownHolds
<1> DEFINE A == \A s \in Subs \ unsaved :
      last_post'[s] # last_post[s] /\ last_post[s][1] > 0 /\ last_post'[s][2] = "drift"
        => day - last_post[s][1] >= Cooldown
<1>1. IInv /\ [Next]_vars => [A]_vars
  <2> SUFFICES ASSUME IInv, [Next]_vars, NEW s \in Subs \ unsaved,
                      last_post'[s] # last_post[s], last_post[s][1] > 0,
                      last_post'[s][2] = "drift"
               PROVE  day - last_post[s][1] >= Cooldown
    OBVIOUS
  <2>1. /\ last_post \in [Subs -> (0..MaxDay) \X Whys] /\ day \in Nat /\ Cooldown \in Nat
        /\ last_post[s][1] \in Nat
    BY ConstantFacts DEF IInv, Typed, TypeOK, Known
  <2>2. \A res \in Results :
          Evaluated(res) /\ Post(res) /\ res.loaded.rebalance \in Nat
          /\ (res.sub = s => res.loaded.rebalance >= last_post[s][1])
            => day - last_post[s][1] >= Cooldown
    <3> SUFFICES ASSUME NEW res \in Results, Evaluated(res), Post(res),
                        res.loaded.rebalance \in Nat,
                        res.sub = s => res.loaded.rebalance >= last_post[s][1]
                 PROVE  day - last_post[s][1] >= Cooldown
      OBVIOUS
    <3>1. res.sub = s /\ res.why = "drift"
      BY <2>1 DEF Post
    <3>2. ~CoolingDown(res.loaded)
      BY <3>1, ReasonFacts
    <3> QED BY <2>1, <3>1, <3>2 DEF CoolingDown
  <2>3. \A res \in Results : res.loaded.rebalance \in Nat
    BY ConstantFacts DEF Results, StateFile
  <2>4. CASE PostTicket
    <3>1. result \in Results /\ Evaluated(result) /\ Post(result) /\ pc = "post"
      BY <2>4 DEF PostTicket, IInv, Typed, Current
    <3>2. result.sub = s => result.loaded.rebalance >= last_post[s][1]
      BY <3>1 DEF IInv, Known, Current
    <3> QED BY <2>2, <2>3, <3>1, <3>2
  <2>5. CASE PostSub
    <3>1. /\ 1 \in DOMAIN sub_results /\ Head(sub_results) = sub_results[1]
          /\ Head(sub_results) \in Results
      BY <2>5, TailFacts DEF PostSub, IInv, Typed, TypeOK
    <3>2. Post(Head(sub_results))
      BY <2>5 DEF PostSub
    <3>3. /\ Evaluated(sub_results[1])
          /\ sub_results[1].sub = s => sub_results[1].loaded.rebalance >= last_post[s][1]
      BY <3>1 DEF IInv, Current, Known
    <3> QED BY <2>2, <2>3, <3>1, <3>2, <3>3
  <2>6. last_post' = last_post \/ PostTicket \/ PostSub
    BY DEF Next, vars, history, process, files, market, StartSingle, SetAllocations,
           StartCoordinator, Evaluate, EvaluationRaises, StateSaved, LedgerRaises, SaveState,
           SaveCoordinator, EndDryRun, Crash, NextDay
  <2> QED BY <2>4, <2>5, <2>6
<1> QED BY <1>1, IInvAlways, PTL DEF Spec, CooldownHolds

-----------------------------------------------------------------------------
(* The desk                                                                *)

(* The invariants                                                          *)

Posted(t) == shown[t] + lost[t]

(* A process has loaded the ticket and not yet written its line.           *)
Holds(p, t) ==
  t_pc[p] # "idle" /\ ny_date[p] = t[1] /\ t[2] \in pending[p] \cup buffer[p]

(* It has not yet posted it either.                                        *)
Owes(p, t) ==
  /\ t_pc[p] # "idle" /\ ny_date[p] = t[1] /\ t[2] \in pending[p]
  /\ ~(t_pc[p] = "record" /\ t[2] \in Desk!NextPost(p))

Owing(t) == {p \in Posters : Owes(p, t)}

(* A process between a post and its record still has the tickets posted.   *)
AtWork ==
  \A p \in Posters :
    /\ t_pc[p] = "record" => pending[p] # {}
    /\ t_pc[p] # "idle" => ny_date[p] \in TicketDates
    /\ pending[p] \cap buffer[p] = {}

(* The posts made and the posts still to come are excused but for one; and *)
(* if no line of a ticket is written or in hand, all of them are.          *)
Counted ==
  \A t \in Desk!Tickets :
    /\ Posted(t) + Cardinality(Owing(t)) <= 1 + t_excused[t]
    /\ t \in ticket_lines \/ (\E p \in Posters : Holds(p, t)) \/ Posted(t) <= t_excused[t]

PostInv == AtWork /\ Counted

Written(r) == reply[r] # Desk!NoReply

(* The line of a readable reply to known tickets of its own date.          *)
Due(r) ==
  /\ Written(r) /\ reply[r].parses /\ reply[r].known
  /\ \A t \in reply[r].ids : t[1] = reply[r].day

(* Lines are in the file of the reply's date, one at most, and none while  *)
(* the receiver is about to write it.                                      *)
Filed ==
  /\ \A r \in Desk!Replies, d \in 1..DeskDays :
       reply_lines[<<d, r>>] > 0 => Written(r) /\ d = reply[r].day /\ reply_lines[<<d, r>>] = 1
  /\ rcv.step # "idle" => Written(rcv.id)
  /\ rcv.step \in {"match", "append"} => reply_lines[Desk!Line(rcv.id)] = 0

Judged ==
  /\ \A r \in Desk!Replies : Written(r) /\ reply[r].known =>
       reply[r].ids # {} /\ reply[r].ids \subseteq ticket_lines
  /\ \A r \in Desk!Replies : Due(r) /\ reply_lines[Desk!Line(r)] > 0 => verdict[r] = "matched"
  /\ rcv.step = "append" /\ Due(rcv.id) => rcv.verdict = "matched"

ReplyInv == Filed /\ Judged

-----------------------------------------------------------------------------
(* What the next post is about                                             *)

(* A nonempty set of naturals has a least element, and Min chooses it.     *)
LEMMA MinIsLeast ==
  ASSUME NEW S \in SUBSET Nat, S # {}
  PROVE  Desk!Min(S) \in S
<1>1. PICK x \in S : \A y \in S : ~(<<y, x>> \in OpToRel(<, Nat))
  BY NatLessThanWellFounded, WFMin, Zenon
<1>2. \A y \in S : ~(y < x)
  <2> SUFFICES ASSUME NEW y \in S, y < x PROVE FALSE
    OBVIOUS
  <2>1. x \in Nat /\ y \in Nat
    OBVIOUS
  <2>2. <<y, x>> \in OpToRel(<, Nat)
    BY <2>1, Zenon DEF OpToRel
  <2> QED BY <1>1, <2>2
<1>3. \A y \in S : x <= y
  BY <1>2
<1> QED BY <1>3 DEF Desk!Min

(* A post is about tickets the process has pending.                        *)
LEMMA NextIsPending ==
  ASSUME Desk!TypeOK, NEW p \in Posters, pending[p] # {}
  PROVE  Desk!NextPost(p) \subseteq pending[p]
<1>1. pending[p] \in SUBSET Nat
  BY DeskConstants DEF Desk!TypeOK, Desk!TicketConstants
<1> QED BY <1>1, MinIsLeast DEF Desk!NextPost

-----------------------------------------------------------------------------
(* Types                                                                   *)

(* The desk starts well typed.                                             *)
LEMMA DeskTypedInit == Desk!Init => Desk!TypeOK
BY DeskConstants DEF Desk!Init, Desk!TypeOK, Desk!TicketConstants, Desk!Idle, Desk!Verdicts

(* Steps of a poster keep the types.                                       *)
LEMMA DeskTypedPoster ==
  ASSUME Desk!TypeOK, AtWork, NEW p \in Posters,
         \/ \E d \in TicketDates, batch \in SUBSET Intents : Desk!LoadSent(p, d, batch)
         \/ Desk!Post(p) \/ Desk!Record(p) \/ Desk!EndRun(p) \/ Desk!Interrupt(p)
         \/ Desk!Abort(p)
  PROVE  Desk!TypeOK'
<1> USE DEF Desk!TypeOK, Desk!files, Desk!posters, Desk!slack, Desk!receiver, Desk!history
<1>1. ASSUME NEW d \in TicketDates, NEW batch \in SUBSET Intents, Desk!LoadSent(p, d, batch)
      PROVE  Desk!TypeOK'
  <2>1. d \in 0..DeskDays
    BY DeskConstants DEF Desk!TicketConstants
  <2>2. t_excused' \in [Desk!Tickets -> Nat]
    BY <1>1 DEF Desk!LoadSent
  <2>3. /\ t_pc' \in [Posters -> {"idle", "post", "record"}] /\ ny_date' \in [Posters -> 0..DeskDays]
        /\ pending' \in [Posters -> SUBSET Intents]
        /\ \A q \in Posters : t_pc'[q] = "idle" => pending'[q] \cup buffer[q] = {}
    BY <1>1, <2>1 DEF Desk!LoadSent
  <2> QED BY <1>1, <2>2, <2>3 DEF Desk!LoadSent
<1>2. CASE Desk!Post(p)
  <2>1. /\ shown' \in [Desk!Tickets -> Nat] /\ lost' \in [Desk!Tickets -> Nat]
        /\ t_faults' \in 0..DeskFaults
    BY <1>2, DeskConstants DEF Desk!Post, Desk!Deliver, Desk!Fault, Desk!TicketConstants
  <2>2. /\ t_pc' \in [Posters -> {"idle", "post", "record"}]
        /\ \A q \in Posters : t_pc'[q] = "idle" => pending[q] \cup buffer[q] = {}
    BY <1>2 DEF Desk!Post
  <2> QED BY <1>2, <2>1, <2>2 DEF Desk!Post
<1>3. CASE Desk!Record(p)
  <2>1. Desk!NextPost(p) \subseteq Intents /\ ny_date[p] \in TicketDates
    BY <1>3, NextIsPending DEF AtWork, Desk!Record
  <2>2. ticket_lines' \subseteq Desk!Tickets
    BY <1>3, <2>1 DEF Desk!Record, Desk!Of, Desk!Tickets
  <2>3. /\ t_pc' \in [Posters -> {"idle", "post", "record"}]
        /\ pending' \in [Posters -> SUBSET Intents] /\ buffer' \in [Posters -> SUBSET Intents]
        /\ \A q \in Posters : t_pc'[q] = "idle" => pending'[q] \cup buffer'[q] = {}
    BY <1>3, <2>1 DEF Desk!Record
  <2> QED BY <1>3, <2>2, <2>3 DEF Desk!Record
<1>4. CASE Desk!EndRun(p) \/ Desk!Interrupt(p)
  <2>1. Desk!Close(p) /\ t_faults' \in 0..DeskFaults
    BY <1>4, DeskConstants DEF Desk!EndRun, Desk!Interrupt, Desk!Fault, Desk!TicketConstants
  <2>2. ticket_lines' \subseteq Desk!Tickets
    BY <2>1 DEF Desk!Close, Desk!Of, Desk!Tickets, AtWork
  <2>3. 0 \in 0..DeskDays
    BY DeskConstants DEF Desk!TicketConstants
  <2>4. /\ t_pc' \in [Posters -> {"idle", "post", "record"}] /\ ny_date' \in [Posters -> 0..DeskDays]
        /\ pending' \in [Posters -> SUBSET Intents] /\ buffer' \in [Posters -> SUBSET Intents]
        /\ \A q \in Posters : t_pc'[q] = "idle" => pending'[q] \cup buffer'[q] = {}
    BY <2>1, <2>3 DEF Desk!Close
  <2> QED BY <2>1, <2>2, <2>4 DEF Desk!Close
<1>5. CASE Desk!Abort(p)
  <2>1. t_faults' \in 0..DeskFaults /\ 0 \in 0..DeskDays
    BY <1>5, DeskConstants DEF Desk!Abort, Desk!Fault, Desk!TicketConstants
  <2>2. t_excused' \in [Desk!Tickets -> Nat]
    BY <1>5 DEF Desk!Abort
  <2>3. /\ t_pc' \in [Posters -> {"idle", "post", "record"}] /\ ny_date' \in [Posters -> 0..DeskDays]
        /\ pending' \in [Posters -> SUBSET Intents] /\ buffer' \in [Posters -> SUBSET Intents]
        /\ \A q \in Posters : t_pc'[q] = "idle" => pending'[q] \cup buffer'[q] = {}
    BY <1>5, <2>1 DEF Desk!Abort
  <2> QED BY <1>5, <2>1, <2>2, <2>3 DEF Desk!Abort
<1> QED BY <1>1, <1>2, <1>3, <1>4, <1>5

(* Counting one more keeps a function's type.                              *)
LEMMA OneMore ==
  ASSUME NEW D, NEW f \in [D -> Nat], NEW x
  PROVE  [f EXCEPT ![x] = @ + 1] \in [D -> Nat]
<1>1. CASE x \in D
  BY <1>1
<1>2. CASE x \notin D
  <2>1. [f EXCEPT ![x] = @ + 1] = f
    BY <1>2, Zenon
  <2> QED BY <2>1
<1> QED BY <1>1, <1>2

(* What the receiver has in hand while it is not idle.                     *)
Working == [step : {"dedup", "match", "append", "respond"},
            id : Desk!Replies, verdict : Desk!Verdicts]

(* The next step of a reply in hand.                                       *)
LEMMA StepOn ==
  ASSUME NEW r \in Working, NEW v \in Desk!Verdicts,
         NEW s \in {"dedup", "match", "append", "respond"}
  PROVE  LET plain  == [r EXCEPT !.step = s]
             judged == [r EXCEPT !.step = s, !.verdict = v]
         IN /\ plain \in Working /\ judged \in Working
            /\ plain.id = r.id /\ plain.step = s /\ plain.verdict = r.verdict
            /\ judged.id = r.id /\ judged.step = s /\ judged.verdict = v
BY DEF Working

(* A receiver that is not idle has a reply in hand.                        *)
LEMMA InHandNow ==
  ASSUME Desk!TypeOK, rcv.step # "idle"
  PROVE  rcv \in Working
BY DEF Desk!TypeOK, Working, Desk!Idle

(* What the receiver's steps make of it.                                   *)
LEMMA Received ==
  ASSUME Desk!TypeOK, Desk!Deduplicate \/ Desk!Match \/ Desk!Append
  PROVE  /\ rcv \in Working /\ rcv' \in Working /\ rcv'.id = rcv.id
         /\ Desk!Deduplicate =>
              \/ Desk!Seen(rcv.id) /\ rcv'.step = "respond"
              \/ ~Desk!Seen(rcv.id) /\ reply[rcv.id].parses /\ rcv'.step = "match"
              \/ /\ ~Desk!Seen(rcv.id) /\ ~reply[rcv.id].parses
                 /\ rcv'.step = "append" /\ rcv'.verdict = "rejected"
         /\ Desk!Match =>
              /\ rcv'.step = "append"
              /\ rcv'.verdict = IF Desk!Matches(rcv.id) THEN "matched" ELSE "unmatched"
         /\ Desk!Append => rcv'.step = "respond"
<1>1. rcv \in Working
  BY InHandNow DEF Desk!Deduplicate, Desk!Match, Desk!Append
<1>2. {"matched", "unmatched", "rejected", "none"} \subseteq Desk!Verdicts
  BY DEF Desk!Verdicts
<1>3. CASE Desk!Deduplicate
  <2>1. \/ Desk!Seen(rcv.id) /\ rcv' = [rcv EXCEPT !.step = "respond"]
        \/ ~Desk!Seen(rcv.id) /\ reply[rcv.id].parses /\ rcv' = [rcv EXCEPT !.step = "match"]
        \/ /\ ~Desk!Seen(rcv.id) /\ ~reply[rcv.id].parses
           /\ rcv' = [rcv EXCEPT !.step = "append", !.verdict = "rejected"]
    <3>1. CASE Desk!Seen(rcv.id)
      BY <1>3, <3>1 DEF Desk!Deduplicate
    <3>2. CASE ~Desk!Seen(rcv.id) /\ reply[rcv.id].parses
      BY <1>3, <3>2 DEF Desk!Deduplicate
    <3>3. CASE ~Desk!Seen(rcv.id) /\ ~reply[rcv.id].parses
      BY <1>3, <3>3 DEF Desk!Deduplicate
    <3> QED BY <3>1, <3>2, <3>3
  <2>2. ~Desk!Match /\ ~Desk!Append
    BY <1>3 DEF Desk!Deduplicate, Desk!Match, Desk!Append
  <2>3. /\ [rcv EXCEPT !.step = "respond"].step = "respond"
        /\ [rcv EXCEPT !.step = "respond"].id = rcv.id
        /\ [rcv EXCEPT !.step = "respond"] \in Working
    BY <1>1, <1>2, StepOn
  <2>4. /\ [rcv EXCEPT !.step = "match"].step = "match"
        /\ [rcv EXCEPT !.step = "match"].id = rcv.id
        /\ [rcv EXCEPT !.step = "match"] \in Working
    BY <1>1, <1>2, StepOn
  <2>5. /\ [rcv EXCEPT !.step = "append", !.verdict = "rejected"].step = "append"
        /\ [rcv EXCEPT !.step = "append", !.verdict = "rejected"].id = rcv.id
        /\ [rcv EXCEPT !.step = "append", !.verdict = "rejected"].verdict = "rejected"
        /\ [rcv EXCEPT !.step = "append", !.verdict = "rejected"] \in Working
    BY <1>1, <1>2 DEF Working
  <2> QED BY <1>1, <2>1, <2>2, <2>3, <2>4, <2>5
<1>4. CASE Desk!Match
  <2>1. ~Desk!Deduplicate /\ ~Desk!Append
    BY <1>4 DEF Desk!Deduplicate, Desk!Match, Desk!Append
  <2>2. rcv' = [rcv EXCEPT !.step = "append",
                           !.verdict = IF Desk!Matches(rcv.id) THEN "matched" ELSE "unmatched"]
    BY <1>4 DEF Desk!Match
  <2>3. PICK v \in Desk!Verdicts :
          /\ v = IF Desk!Matches(rcv.id) THEN "matched" ELSE "unmatched"
          /\ rcv' = [rcv EXCEPT !.step = "append", !.verdict = v]
    BY <1>2, <2>2
  <2>4. rcv' \in Working /\ rcv'.id = rcv.id /\ rcv'.step = "append" /\ rcv'.verdict = v
    BY <1>1, <2>3 DEF Working
  <2> QED BY <1>1, <2>1, <2>3, <2>4
<1>5. CASE Desk!Append
  <2>1. ~Desk!Deduplicate /\ ~Desk!Match
    BY <1>5 DEF Desk!Deduplicate, Desk!Match, Desk!Append
  <2>2. rcv' = [rcv EXCEPT !.step = "respond"]
    BY <1>5 DEF Desk!Append
  <2> QED BY <1>1, <1>2, <2>1, <2>2, StepOn
<1> QED BY <1>3, <1>4, <1>5

(* Steps of Slack, of the human, of the receiver and of the calendar keep  *)
(* the types.                                                              *)
LEMMA DeskTypedNext ==
  Desk!TypeOK /\ AtWork /\ [Desk!Next]_t_vars => Desk!TypeOK'
<1> SUFFICES ASSUME Desk!TypeOK, AtWork, [Desk!Next]_t_vars PROVE Desk!TypeOK'
  OBVIOUS
<1> USE DEF Desk!TypeOK, Desk!files, Desk!posters, Desk!slack, Desk!receiver, Desk!history
<1>1. ASSUME NEW text \in Desk!Texts, Desk!WriteReply(text) PROVE Desk!TypeOK'
  <2> DEFINE new == [ids |-> IF Desk!Parses(text) THEN text.ids ELSE {}, day |-> t_day,
                       parses |-> Desk!Parses(text),
                       known |-> Desk!Parses(text) /\ text.ids \subseteq ticket_lines]
  <2>2. text.ids \subseteq Desk!Tickets
    BY DEF Desk!Texts
  <2>3. Desk!Parses(text) \in BOOLEAN
    BY DEF Desk!Parses
  <2>4. (Desk!Parses(text) /\ text.ids \subseteq ticket_lines) \in BOOLEAN
    OBVIOUS
  <2>5. new \in Desk!Reply
    BY <2>2, <2>3, <2>4 DEF Desk!Reply
  <2>6. PICK r \in Desk!Replies : reply' = [reply EXCEPT ![r] = new]
    BY <1>1 DEF Desk!WriteReply
  <2> HIDE DEF new
  <2>7. reply' \in [Desk!Replies -> Desk!Reply \cup {Desk!NoReply}]
    BY <2>5, <2>6
  <2> QED BY <1>1, <2>7 DEF Desk!WriteReply
<1>2. ASSUME NEW r \in Desk!Replies, Desk!DeliverEvent(r) PROVE Desk!TypeOK'
  <2>1. attempts' \in [Desk!Replies -> 0..MaxAttempts]
    BY <1>2, DeskConstants DEF Desk!DeliverEvent, Desk!TicketConstants
  <2>2. rcv' \in [step : {"dedup", "match", "append", "respond"},
                  id : Desk!Replies, verdict : Desk!Verdicts]
    BY <1>2 DEF Desk!DeliverEvent, Desk!Verdicts
  <2> QED BY <1>2, <2>1, <2>2 DEF Desk!DeliverEvent
<1>3. CASE Desk!Deduplicate
  BY <1>3, Received DEF Desk!Deduplicate, Working
<1>4. CASE Desk!Match
  BY <1>4, Received DEF Desk!Match, Working
<1>5. CASE Desk!Append
  <2>1. rcv \in Working /\ rcv' \in Working
    BY <1>5, Received
  <2>2. reply_lines' \in [(1..DeskDays) \X Desk!Replies -> Nat]
    BY <1>5, OneMore DEF Desk!Append
  <2>3. verdict' \in [Desk!Replies -> Desk!Verdicts]
    BY <1>5, <2>1 DEF Desk!Append, Working
  <2> QED BY <1>5, <2>1, <2>2, <2>3 DEF Desk!Append, Working
<1>6. CASE Desk!Respond
  <2>1. acked' \in [Desk!Replies -> BOOLEAN]
    BY <1>6 DEF Desk!Respond
  <2> QED BY <1>6, <2>1 DEF Desk!Respond
<1>7. CASE Desk!RequestFails
  <2>1. t_faults' \in 0..DeskFaults
    BY <1>7, DeskConstants DEF Desk!RequestFails, Desk!Fault, Desk!TicketConstants
  <2> QED BY <1>7, <2>1 DEF Desk!RequestFails
<1>8. CASE Desk!NextDay
  <2>1. t_day' \in 1..DeskDays
    BY <1>8, DeskConstants DEF Desk!NextDay, Desk!TicketConstants
  <2> QED BY <1>8, <2>1 DEF Desk!NextDay
<1>9. CASE UNCHANGED t_vars
  BY <1>9 DEF t_vars
<1> QED BY <1>1, <1>2, <1>3, <1>4, <1>5, <1>6, <1>7, <1>8, <1>9, DeskTypedPoster DEF Desk!Next

-----------------------------------------------------------------------------
(* Posting                                                                 *)

(* There are finitely many posters.                                        *)
LEMMA FinitePosters == IsFiniteSet(Posters)
BY DeskConstants DEF Desk!TicketConstants, Desk!IsFiniteSet, IsFiniteSet

(* Two sets of posters that differ in one poster at most.                  *)
LEMMA OneApart ==
  ASSUME NEW A \in SUBSET Posters, NEW B \in SUBSET Posters, NEW p, A \ {p} = B \ {p}
  PROVE  /\ Cardinality(A) \in Nat /\ Cardinality(B) \in Nat
         /\ (p \in A /\ p \notin B) => Cardinality(B) = Cardinality(A) - 1
         /\ (p \notin A /\ p \in B) => Cardinality(B) = Cardinality(A) + 1
         /\ (p \in A <=> p \in B) => Cardinality(B) = Cardinality(A)
<1>1. IsFiniteSet(A) /\ IsFiniteSet(B)
  BY FinitePosters, FS_Subset
<1>2. Cardinality(A) \in Nat /\ Cardinality(B) \in Nat
  BY <1>1, FS_CardinalityType
<1>3. ASSUME p \in A, p \notin B PROVE Cardinality(B) = Cardinality(A) - 1
  <2>1. B = A \ {p}
    BY <1>3
  <2> QED BY <1>1, <1>3, <2>1, FS_RemoveElement
<1>4. ASSUME p \notin A, p \in B PROVE Cardinality(B) = Cardinality(A) + 1
  <2>1. B = A \cup {p}
    BY <1>4
  <2> QED BY <1>1, <1>4, <2>1, FS_AddElement
<1>5. ASSUME p \in A <=> p \in B PROVE Cardinality(B) = Cardinality(A)
  <2>1. A = B
    BY <1>5
  <2> QED BY <2>1
<1> QED BY <1>2, <1>3, <1>4, <1>5

(* What a step leaves of a poster keeps its tickets.                       *)
SamePoster(q) ==
  /\ t_pc'[q] = t_pc[q] /\ ny_date'[q] = ny_date[q]
  /\ pending'[q] = pending[q] /\ buffer'[q] = buffer[q]

(* When the other posters stay as they are, only p counts.                 *)
LEMMA OnlyOne ==
  ASSUME NEW p \in Posters, NEW t, \A q \in Posters \ {p} : SamePoster(q)
  PROVE  /\ Cardinality(Owing(t)) \in Nat /\ Cardinality(Owing(t)') \in Nat
         /\ (Owes(p, t) /\ ~Owes(p, t)') => Cardinality(Owing(t)') = Cardinality(Owing(t)) - 1
         /\ (~Owes(p, t) /\ Owes(p, t)') => Cardinality(Owing(t)') = Cardinality(Owing(t)) + 1
         /\ (Owes(p, t) <=> Owes(p, t)') => Cardinality(Owing(t)') = Cardinality(Owing(t))
         /\ \A q \in Posters \ {p} : Holds(q, t)' <=> Holds(q, t)
<1>1. ASSUME NEW q \in Posters \ {p}
      PROVE  (Owes(q, t)' <=> Owes(q, t)) /\ (Holds(q, t)' <=> Holds(q, t))
  BY <1>1 DEF Owes, Holds, SamePoster, Desk!NextPost
<1>2. Owing(t) \in SUBSET Posters /\ Owing(t)' \in SUBSET Posters
      /\ Owing(t) \ {p} = Owing(t)' \ {p}
      /\ (p \in Owing(t) <=> Owes(p, t)) /\ (p \in Owing(t)' <=> Owes(p, t)')
  BY <1>1 DEF Owing
<1>3. \A q \in Posters \ {p} : Holds(q, t)' <=> Holds(q, t)
  BY <1>1
<1> HIDE DEF Owing
<1> QED BY <1>2, <1>3, OneApart

(* The figures of a ticket are numbers.                                    *)
LEMMA Figures ==
  ASSUME Desk!TypeOK, NEW t \in Desk!Tickets
  PROVE  /\ shown[t] \in Nat /\ lost[t] \in Nat /\ Posted(t) \in Nat /\ t_excused[t] \in Nat
         /\ Cardinality(Owing(t)) \in Nat
         /\ t = <<t[1], t[2]>> /\ t[1] \in TicketDates /\ t[2] \in Intents
<1>1. Owing(t) \in SUBSET Posters
  BY DEF Owing
<1> HIDE DEF Owing
<1>2. Cardinality(Owing(t)) \in Nat
  BY <1>1, OneApart
<1>3. t = <<t[1], t[2]>> /\ t[1] \in TicketDates /\ t[2] \in Intents
  BY DEF Desk!Tickets
<1> QED BY <1>2, <1>3 DEF Desk!TypeOK, Posted

(* A process that has loaded a ticket either owes its post, or has it done *)
(* and the line in hand.                                                   *)
LEMMA OwesOrDone ==
  ASSUME NEW p \in Posters, NEW t
  PROVE  /\ Owes(p, t) => Holds(p, t)
         /\ Holds(p, t) => Owes(p, t) \/ (ny_date[p] = t[1] /\ t[2] \in Desk!Unwritten(p))
BY DEF Owes, Holds, Desk!Unwritten

(* The part of Counted about one ticket.                                   *)
CountedOf(t) ==
  /\ Posted(t) + Cardinality(Owing(t)) <= 1 + t_excused[t]
  /\ t \in ticket_lines \/ (\E p \in Posters : Holds(p, t)) \/ Posted(t) <= t_excused[t]

(* A process loads tickets without a line.  If another has one in hand,    *)
(* the new post is excused; if none has, every earlier post is.            *)
LEMMA CountedLoad ==
  ASSUME Desk!TypeOK, NEW p \in Posters, NEW d \in TicketDates,
         NEW batch \in SUBSET Intents, Desk!LoadSent(p, d, batch),
         NEW t \in Desk!Tickets, CountedOf(t)
  PROVE  CountedOf(t)'
<1>1. \A q \in Posters \ {p} : SamePoster(q)
  BY DEF Desk!LoadSent, SamePoster, Desk!TypeOK
<1>2. /\ t_pc[p] = "idle" /\ t_pc'[p] = "post" /\ ny_date'[p] = d
      /\ pending'[p] = batch \ Desk!Sent(d) /\ buffer'[p] = {}
      /\ UNCHANGED <<ticket_lines, shown, lost>>
      /\ t_excused'[t] = IF t[1] = d /\ t[2] \in batch \ Desk!Sent(d) /\ Desk!Rival(p, t)
                         THEN t_excused[t] + 1 ELSE t_excused[t]
  BY DEF Desk!LoadSent, Desk!TypeOK, Desk!files, Desk!slack
<1>3. Posted(t)' = Posted(t) /\ ~Owes(p, t) /\ ~Holds(p, t)
  BY <1>2 DEF Posted, Owes, Holds
<1>4. Desk!Rival(p, t) <=> \E q \in Posters \ {p} : Holds(q, t)
  BY DEF Desk!Rival, Holds
<1>5. CASE t[1] = d /\ t[2] \in batch \ Desk!Sent(d)
  <2>1. Owes(p, t)' /\ Holds(p, t)'
    BY <1>2, <1>5 DEF Owes, Holds
  <2>2. t \notin ticket_lines
    BY <1>5, Figures DEF Desk!Sent, Desk!Of
  <2>3. Cardinality(Owing(t)') = Cardinality(Owing(t)) + 1
    BY <1>1, <1>3, <2>1, OnlyOne
  <2>4. CASE Desk!Rival(p, t)
    <3>1. t_excused'[t] = t_excused[t] + 1
      BY <1>2, <1>5, <2>4
    <3> QED BY <1>3, <2>1, <2>3, <3>1, Figures DEF CountedOf
  <2>5. CASE ~Desk!Rival(p, t)
    <3>1. \A q \in Posters : ~Holds(q, t)
      BY <1>3, <1>4, <2>5
    <3>2. Owing(t) = {}
      BY <3>1, OwesOrDone DEF Owing
    <3>3. Cardinality(Owing(t)) = 0
      BY <3>2, FS_EmptySet
    <3>4. Posted(t) <= t_excused[t]
      BY <2>2, <3>1 DEF CountedOf
    <3>5. t_excused'[t] = t_excused[t]
      BY <1>2, <2>5
    <3> QED BY <1>3, <2>1, <2>3, <3>3, <3>4, <3>5, Figures DEF CountedOf
  <2> QED BY <2>4, <2>5
<1>6. CASE ~(t[1] = d /\ t[2] \in batch \ Desk!Sent(d))
  <2>1. ~Owes(p, t)' /\ t_excused'[t] = t_excused[t]
    BY <1>2, <1>6 DEF Owes
  <2>2. Cardinality(Owing(t)') = Cardinality(Owing(t))
    BY <1>1, <1>3, <2>1, OnlyOne
  <2>3. (\E q \in Posters : Holds(q, t)) => \E q \in Posters : Holds(q, t)'
    BY <1>1, <1>3, OnlyOne
  <2> QED BY <1>2, <1>3, <2>1, <2>2, <2>3 DEF CountedOf
<1> QED BY <1>5, <1>6

(* A post, made or failed, is one the process owed.                        *)
LEMMA CountedPost ==
  ASSUME Desk!TypeOK, AtWork, NEW p \in Posters, Desk!Post(p),
         NEW t \in Desk!Tickets, CountedOf(t)
  PROVE  CountedOf(t)'
<1> DEFINE ts == {Desk!Of(ny_date[p], n) : n \in Desk!NextPost(p)}
<1>1. \A q \in Posters \ {p} : SamePoster(q)
  BY DEF Desk!Post, SamePoster, Desk!TypeOK
<1>2. /\ t_pc[p] = "post" /\ t_pc'[p] = "record" /\ ny_date'[p] = ny_date[p]
      /\ pending'[p] = pending[p] /\ buffer'[p] = buffer[p]
      /\ UNCHANGED <<ticket_lines, t_excused>> /\ Desk!NextPost(p)' = Desk!NextPost(p)
  BY DEF Desk!Post, Desk!TypeOK, Desk!files, Desk!NextPost
<1>3. t \in ts <=> ny_date[p] = t[1] /\ t[2] \in Desk!NextPost(p)
  BY Figures DEF Desk!Of
<1>4. Posted(t)' = IF t \in ts THEN Posted(t) + 1 ELSE Posted(t)
  <2>1. Desk!Deliver(ts)
    BY DEF Desk!Post
  <2> HIDE DEF ts
  <2>2. \/ shown'[t] = (IF t \in ts THEN shown[t] + 1 ELSE shown[t]) /\ lost'[t] = lost[t]
        \/ lost'[t] = (IF t \in ts THEN lost[t] + 1 ELSE lost[t]) /\ shown'[t] = shown[t]
    BY <2>1 DEF Desk!Deliver
  <2> QED BY <2>2, Figures DEF Posted
<1>5. Desk!NextPost(p) \subseteq pending[p]
  BY NextIsPending DEF Desk!Post
<1>6. (Holds(p, t)' <=> Holds(p, t)) /\ (Owes(p, t)' <=> Owes(p, t) /\ t \notin ts)
      /\ (t \in ts => Owes(p, t) /\ Holds(p, t))
  <2> HIDE DEF ts
  <2> QED BY <1>2, <1>3, <1>5 DEF Holds, Owes
<1>7. (\E q \in Posters : Holds(q, t)) => \E q \in Posters : Holds(q, t)'
  BY <1>1, <1>6, OnlyOne
<1> HIDE DEF ts
<1>8. CASE t \in ts
  <2>1. Cardinality(Owing(t)') = Cardinality(Owing(t)) - 1
    BY <1>1, <1>6, <1>8, OnlyOne
  <2>2. \E q \in Posters : Holds(q, t)'
    BY <1>2, <1>6, <1>8
  <2> QED BY <1>2, <1>4, <1>8, <2>1, <2>2, Figures DEF CountedOf
<1>9. CASE t \notin ts
  <2>1. Cardinality(Owing(t)') = Cardinality(Owing(t)) /\ Posted(t)' = Posted(t)
    BY <1>1, <1>4, <1>6, <1>9, OnlyOne
  <2> QED BY <1>2, <1>7, <2>1 DEF CountedOf
<1> QED BY <1>8, <1>9

(* Recording moves tickets from hand to the buffer, or the file.           *)
LEMMA CountedRecord ==
  ASSUME Desk!TypeOK, AtWork, NEW p \in Posters, Desk!Record(p),
         NEW t \in Desk!Tickets, CountedOf(t)
  PROVE  CountedOf(t)'
<1> DEFINE in_hand == buffer[p] \cup Desk!NextPost(p)
<1>1. \A q \in Posters \ {p} : SamePoster(q)
  BY DEF Desk!Record, SamePoster, Desk!TypeOK
<1>2. /\ t_pc[p] = "record" /\ t_pc'[p] = "post" /\ ny_date'[p] = ny_date[p]
      /\ pending'[p] = pending[p] \ Desk!NextPost(p)
      /\ UNCHANGED <<shown, lost, t_excused>>
      /\ \/ /\ ticket_lines' = ticket_lines \cup {Desk!Of(ny_date[p], n) : n \in in_hand}
            /\ buffer'[p] = {}
         \/ ticket_lines' = ticket_lines /\ buffer'[p] = in_hand
  BY DEF Desk!Record, Desk!TypeOK, Desk!slack, Desk!history
<1>3. Posted(t)' = Posted(t) /\ ticket_lines \subseteq ticket_lines'
  BY <1>2 DEF Posted
<1>4. Owes(p, t)' <=> Owes(p, t)
  BY <1>2 DEF Owes
<1>5. Holds(p, t) => Holds(p, t)' \/ t \in ticket_lines'
  BY <1>2, Figures DEF Holds, Desk!Of
<1>6. Cardinality(Owing(t)') = Cardinality(Owing(t))
  BY <1>1, <1>4, OnlyOne
<1>7. (\E q \in Posters : Holds(q, t)) => t \in ticket_lines' \/ \E q \in Posters : Holds(q, t)'
  BY <1>1, <1>5, OnlyOne
<1> QED BY <1>2, <1>3, <1>6, <1>7 DEF CountedOf

(* Leaving the run: what was posted gets its line, what was not is no      *)
(* longer owed.                                                            *)
LEMMA CountedClose ==
  ASSUME Desk!TypeOK, AtWork, NEW p \in Posters, Desk!Close(p),
         NEW t \in Desk!Tickets, CountedOf(t)
  PROVE  CountedOf(t)'
<1>1. \A q \in Posters \ {p} : SamePoster(q)
  BY DEF Desk!Close, SamePoster, Desk!TypeOK
<1>2. /\ t_pc[p] = "post" /\ t_pc'[p] = "idle"
      /\ UNCHANGED <<shown, lost, t_excused>>
      /\ ticket_lines' = ticket_lines \cup {Desk!Of(ny_date[p], n) : n \in buffer[p]}
  BY DEF Desk!Close, Desk!TypeOK, Desk!slack, Desk!history
<1>3. Posted(t)' = Posted(t) /\ ticket_lines \subseteq ticket_lines'
      /\ ~Owes(p, t)' /\ ~Holds(p, t)'
  BY <1>2 DEF Posted, Owes, Holds
<1>4. Holds(p, t) => Owes(p, t) \/ t \in ticket_lines'
  BY <1>2, Figures DEF Holds, Owes, Desk!Of
<1>5. CASE Owes(p, t)
  <2>1. Cardinality(Owing(t)') = Cardinality(Owing(t)) - 1
    BY <1>1, <1>3, <1>5, OnlyOne
  <2>2. Posted(t) <= t_excused[t] /\ Cardinality(Owing(t)') \in Nat
    BY <1>1, <2>1, OnlyOne, Figures DEF CountedOf
  <2> QED BY <1>2, <1>3, <2>1, <2>2, Figures DEF CountedOf
<1>6. CASE ~Owes(p, t)
  <2>1. Cardinality(Owing(t)') = Cardinality(Owing(t))
    BY <1>1, <1>3, <1>6, OnlyOne
  <2>2. (\E q \in Posters : Holds(q, t)) => t \in ticket_lines' \/ \E q \in Posters : Holds(q, t)'
    BY <1>1, <1>4, <1>6, OnlyOne
  <2> QED BY <1>2, <1>3, <2>1, <2>2 DEF CountedOf
<1> QED BY <1>5, <1>6

(* A process that dies: lines in hand are lost, which excuses; posts still *)
(* to come are no longer owed.                                             *)
LEMMA CountedAbort ==
  ASSUME Desk!TypeOK, AtWork, NEW p \in Posters, Desk!Abort(p),
         NEW t \in Desk!Tickets, CountedOf(t)
  PROVE  CountedOf(t)'
<1>1. \A q \in Posters \ {p} : SamePoster(q)
  BY DEF Desk!Abort, SamePoster, Desk!TypeOK
<1>2. /\ t_pc'[p] = "idle" /\ UNCHANGED <<shown, lost, ticket_lines>>
      /\ t_excused'[t] = IF t[1] = ny_date[p] /\ t[2] \in Desk!Unwritten(p)
                         THEN t_excused[t] + 1 ELSE t_excused[t]
  BY DEF Desk!Abort, Desk!TypeOK, Desk!slack, Desk!files
<1>3. Posted(t)' = Posted(t) /\ ~Owes(p, t)' /\ ~Holds(p, t)'
      /\ t_excused'[t] \in Nat /\ t_excused[t] <= t_excused'[t]
  BY <1>2, Figures DEF Posted, Owes, Holds
<1>4. CASE Owes(p, t)
  <2>1. Cardinality(Owing(t)') = Cardinality(Owing(t)) - 1
    BY <1>1, <1>3, <1>4, OnlyOne
  <2>2. Posted(t) <= t_excused[t] /\ Cardinality(Owing(t)') \in Nat
    BY <1>1, <2>1, OnlyOne, Figures DEF CountedOf
  <2>3. Posted(t)' + Cardinality(Owing(t)') <= 1 + t_excused'[t]
    BY <1>3, <2>1, Figures DEF CountedOf
  <2>4. Posted(t)' <= t_excused'[t]
    BY <1>3, <2>2, Figures
  <2> QED BY <2>3, <2>4 DEF CountedOf
<1>5. CASE ~Owes(p, t)
  <2>1. Cardinality(Owing(t)') = Cardinality(Owing(t))
    BY <1>1, <1>3, <1>5, OnlyOne
  <2>2. Posted(t)' + Cardinality(Owing(t)') <= 1 + t_excused'[t]
    BY <1>3, <2>1, Figures DEF CountedOf
  <2>3. CASE Holds(p, t)
    <3>1. t_excused'[t] = t_excused[t] + 1
      BY <1>2, <1>5, <2>3, OwesOrDone
    <3>2. Posted(t)' <= t_excused'[t]
      BY <1>3, <3>1, Figures DEF CountedOf
    <3> QED BY <2>2, <3>2 DEF CountedOf
  <2>4. CASE ~Holds(p, t)
    <3>1. (\E q \in Posters : Holds(q, t)) => \E q \in Posters : Holds(q, t)'
      BY <1>1, <2>4, OnlyOne
    <3>2. Posted(t) <= t_excused[t] => Posted(t)' <= t_excused'[t]
      BY <1>3, Figures
    <3> QED BY <1>2, <2>2, <3>1, <3>2 DEF CountedOf
  <2> QED BY <2>3, <2>4
<1> QED BY <1>4, <1>5

(* Steps of the posters keep them at work.                                 *)
LEMMA AtWorkNext == Desk!TypeOK /\ AtWork /\ [Desk!Next]_t_vars => AtWork'
<1> SUFFICES ASSUME Desk!TypeOK, AtWork, [Desk!Next]_t_vars PROVE AtWork'
  OBVIOUS
<1>1. CASE UNCHANGED Desk!posters
  BY <1>1 DEF AtWork, Desk!posters
<1>2. ASSUME NEW p \in Posters, \A q \in Posters \ {p} : SamePoster(q),
             /\ t_pc'[p] = "record" => pending'[p] # {}
             /\ t_pc'[p] # "idle" => ny_date'[p] \in TicketDates
             /\ pending'[p] \cap buffer'[p] = {}
      PROVE  AtWork'
  BY <1>2 DEF AtWork, SamePoster
<1>3. ASSUME NEW p \in Posters, NEW d \in TicketDates, NEW batch \in SUBSET Intents,
             Desk!LoadSent(p, d, batch)
      PROVE  AtWork'
  BY <1>2, <1>3 DEF Desk!LoadSent, SamePoster, Desk!TypeOK
<1>4. ASSUME NEW p \in Posters, Desk!Post(p) PROVE AtWork'
  BY <1>2, <1>4 DEF Desk!Post, SamePoster, Desk!TypeOK, AtWork
<1>5. ASSUME NEW p \in Posters, Desk!Record(p) PROVE AtWork'
  BY <1>2, <1>5 DEF Desk!Record, SamePoster, Desk!TypeOK, AtWork
<1>6. ASSUME NEW p \in Posters, Desk!Close(p) PROVE AtWork'
  BY <1>2, <1>6 DEF Desk!Close, SamePoster, Desk!TypeOK
<1>7. ASSUME NEW p \in Posters, Desk!Abort(p) PROVE AtWork'
  BY <1>2, <1>7 DEF Desk!Abort, SamePoster, Desk!TypeOK
<1>8. CASE \/ \E text \in Desk!Texts : Desk!WriteReply(text)
           \/ \E r \in Desk!Replies : Desk!DeliverEvent(r)
           \/ Desk!Deduplicate \/ Desk!Match \/ Desk!Append \/ Desk!Respond
           \/ Desk!RequestFails \/ Desk!NextDay \/ UNCHANGED t_vars
  <2>1. UNCHANGED Desk!posters
    BY <1>8 DEF Desk!WriteReply, Desk!DeliverEvent, Desk!Deduplicate, Desk!Match, Desk!Append,
                Desk!Respond, Desk!RequestFails, Desk!NextDay, t_vars, Desk!posters
  <2> QED BY <1>1, <2>1
<1> QED BY <1>3, <1>4, <1>5, <1>6, <1>7, <1>8 DEF Desk!Next, Desk!EndRun, Desk!Interrupt

(* Every step keeps the posts counted.                                     *)
LEMMA CountedNext == Desk!TypeOK /\ PostInv /\ [Desk!Next]_t_vars => PostInv'
<1> SUFFICES ASSUME Desk!TypeOK, PostInv, [Desk!Next]_t_vars PROVE PostInv'
  OBVIOUS
<1>1. AtWork /\ AtWork'
  BY AtWorkNext DEF PostInv
<1>2. ASSUME NEW t \in Desk!Tickets PROVE CountedOf(t)'
  <2>1. CountedOf(t)
    BY DEF PostInv, Counted, CountedOf
  <2>2. CASE \/ \E text \in Desk!Texts : Desk!WriteReply(text)
             \/ \E r \in Desk!Replies : Desk!DeliverEvent(r)
             \/ Desk!Deduplicate \/ Desk!Match \/ Desk!Append \/ Desk!Respond
             \/ Desk!RequestFails \/ Desk!NextDay \/ UNCHANGED t_vars
    <3>1. /\ UNCHANGED <<t_pc, ny_date, pending, buffer>>
          /\ UNCHANGED <<shown, lost, t_excused, ticket_lines>>
      BY <2>2 DEF Desk!WriteReply, Desk!DeliverEvent, Desk!Deduplicate, Desk!Match,
                  Desk!Append, Desk!Respond, Desk!RequestFails, Desk!NextDay, t_vars,
                  Desk!posters, Desk!files, Desk!slack, Desk!history
    <3> QED BY <2>1, <3>1 DEF CountedOf, Posted, Owing, Owes, Holds, Desk!NextPost
  <2> QED BY <1>1, <2>1, <2>2, CountedLoad, CountedPost, CountedRecord, CountedClose,
             CountedAbort DEF Desk!Next, Desk!EndRun, Desk!Interrupt
<1>3. Desk!Tickets' = Desk!Tickets
  BY DEF Desk!Tickets
<1>4. Counted'
  BY <1>2, <1>3 DEF Counted, CountedOf
<1> QED BY <1>1, <1>4 DEF PostInv

-----------------------------------------------------------------------------
(* Replies                                                                 *)

(* The line of a reply that is there is in a file of the bound.            *)
LEMMA LineInFile ==
  ASSUME Desk!TypeOK, NEW r \in Desk!Replies, Written(r)
  PROVE  /\ reply[r] \in Desk!Reply /\ reply[r].day \in 1..DeskDays
         /\ Desk!Line(r) = <<reply[r].day, r>>
         /\ Desk!Line(r) \in (1..DeskDays) \X Desk!Replies
         /\ reply_lines[Desk!Line(r)] \in Nat
<1>1. reply[r] \in Desk!Reply
  BY DEF Desk!TypeOK, Written
<1>2. reply[r].day \in 1..DeskDays /\ Desk!Line(r) = <<reply[r].day, r>>
  BY <1>1 DEF Desk!Reply, Desk!Line, Desk!LedgerDate
<1> QED BY <1>1, <1>2 DEF Desk!TypeOK

(* Posting leaves what concerns replies alone; lines of tickets stay.      *)
LEMMA ReplyQuiet ==
  ASSUME ReplyInv, ticket_lines \subseteq ticket_lines',
         UNCHANGED <<reply_lines, reply, rcv, verdict>>
  PROVE  ReplyInv'
BY DEF ReplyInv, Filed, Judged, Written, Due, Desk!Line, Desk!LedgerDate

(* A reply is new when it is written, so no line is about it.              *)
LEMMA ReplyWritten ==
  ASSUME Desk!TypeOK, ReplyInv, NEW text \in Desk!Texts, Desk!WriteReply(text)
  PROVE  ReplyInv'
<1> DEFINE new == [ids |-> IF Desk!Parses(text) THEN text.ids ELSE {}, day |-> t_day,
                   parses |-> Desk!Parses(text),
                   known |-> Desk!Parses(text) /\ text.ids \subseteq ticket_lines]
<1>1. PICK r \in Desk!Replies : ~Written(r) /\ reply' = [reply EXCEPT ![r] = new]
  BY DEF Desk!WriteReply, Written
<1>2. UNCHANGED <<reply_lines, rcv, verdict, ticket_lines>>
  BY DEF Desk!WriteReply, Desk!files, Desk!receiver
<1>3. new # Desk!NoReply
  <2>1. new.day \in 1..DeskDays /\ Desk!NoReply.day = 0
    BY DEF Desk!TypeOK, Desk!NoReply
  <2> HIDE DEF new
  <2> QED BY <2>1, DeskConstants DEF Desk!TicketConstants
<1>4. new.known => new.ids # {} /\ new.ids \subseteq ticket_lines
  <2>1. Desk!Parses(text) => text.ids # {}
    <3>1. Desk!Cardinality({}) = Cardinality({})
      BY DEF Desk!Cardinality, Cardinality, Desk!IsFiniteSet, IsFiniteSet
    <3>2. Desk!Cardinality({}) = 0
      BY <3>1, FS_EmptySet
    <3> QED BY <3>2 DEF Desk!Parses
  <2> QED BY <2>1
<1>5. reply'[r] = new /\ \A q \in Desk!Replies : q # r => reply'[q] = reply[q]
  BY <1>1 DEF Desk!TypeOK
<1> HIDE DEF new
<1>6. ASSUME NEW q \in Desk!Replies, Written(q)
      PROVE  q # r /\ Written(q)' /\ reply'[q] = reply[q] /\ Desk!Line(q)' = Desk!Line(q)
             /\ (Due(q)' <=> Due(q))
  BY <1>1, <1>5, <1>6 DEF Written, Due, Desk!Line, Desk!LedgerDate
<1>7. \A d \in 1..DeskDays : ~(reply_lines[<<d, r>>] > 0)
  BY <1>1 DEF ReplyInv, Filed
<1>8. rcv.step # "idle" => rcv.id \in Desk!Replies /\ Written(rcv.id)
  BY InHandNow DEF ReplyInv, Filed, Working
<1>9. Filed'
  <2>1. ASSUME NEW q \in Desk!Replies, NEW d \in 1..DeskDays, reply_lines[<<d, q>>] > 0
        PROVE  Written(q)' /\ d = reply'[q].day /\ reply_lines[<<d, q>>] = 1
    BY <1>6, <2>1 DEF ReplyInv, Filed
  <2>2. rcv.step # "idle" => Written(rcv.id)'
    BY <1>2, <1>6, <1>8
  <2>3. rcv.step \in {"match", "append"} => reply_lines[Desk!Line(rcv.id)'] = 0
    BY <1>2, <1>6, <1>8 DEF ReplyInv, Filed
  <2>4. Desk!Replies' = Desk!Replies
    BY DEF Desk!Replies
  <2> QED BY <1>2, <2>1, <2>2, <2>3, <2>4 DEF Filed, Desk!Line, Desk!LedgerDate, Written
<1>10. Judged'
  <2>1. ASSUME NEW q \in Desk!Replies, Written(q)', reply'[q].known
        PROVE  reply'[q].ids # {} /\ reply'[q].ids \subseteq ticket_lines
    <3>1. CASE q = r
      BY <1>4, <1>5, <2>1, <3>1
    <3>2. CASE q # r
      BY <1>5, <2>1, <3>2 DEF ReplyInv, Judged, Written, Desk!NoReply
    <3> QED BY <3>1, <3>2
  <2>2. ASSUME NEW q \in Desk!Replies, Due(q)', reply_lines[Desk!Line(q)'] > 0
        PROVE  verdict[q] = "matched"
    <3>1. CASE q = r
      <4>1. Desk!Line(q)' = <<t_day, r>>
        BY <1>5, <3>1 DEF Desk!Line, Desk!LedgerDate, new
      <4> QED BY <1>7, <2>2, <3>1, <4>1 DEF Desk!TypeOK
    <3>2. CASE q # r
      <4>1. Written(q)
        BY <1>5, <2>2, <3>2 DEF Due, Written, Desk!NoReply
      <4> QED BY <1>6, <2>2, <4>1 DEF ReplyInv, Judged
    <3> QED BY <3>1, <3>2
  <2>3. rcv.step = "append" /\ Due(rcv.id)' => rcv.verdict = "matched"
    BY <1>2, <1>6, <1>8 DEF ReplyInv, Judged
  <2>4. Desk!Replies' = Desk!Replies
    BY DEF Desk!Replies
  <2> QED BY <1>2, <2>1, <2>2, <2>3, <2>4 DEF Judged, Due, Written, Desk!Line, Desk!LedgerDate
<1> QED BY <1>9, <1>10 DEF ReplyInv

(* The receiver reads the file of the reply's own date, and one request    *)
(* after another.                                                          *)
LEMMA ReplyReceived ==
  ASSUME Desk!TypeOK, ReplyInv, Desk!Deduplicate \/ Desk!Match \/ Desk!Append
  PROVE  ReplyInv'
<1>1. rcv \in Working /\ rcv.id \in Desk!Replies /\ rcv'.id = rcv.id /\ Written(rcv.id)
  BY Received DEF Working, ReplyInv, Filed
<1>2. UNCHANGED <<reply, ticket_lines>>
  BY DEF Desk!Deduplicate, Desk!Match, Desk!Append, Desk!files, Desk!slack
<1>3. \A r : /\ Written(r)' = Written(r) /\ Due(r)' = Due(r)
            /\ Desk!Line(r)' = Desk!Line(r)
  BY <1>2 DEF Written, Due, Desk!Line, Desk!LedgerDate
<1>4. CASE Desk!Deduplicate
  <2>1. UNCHANGED <<reply_lines, verdict>>
    BY <1>4 DEF Desk!Deduplicate, Desk!files
  <2>2. rcv'.step \in {"match", "append"} => reply_lines[Desk!Line(rcv.id)] = 0
    BY <1>1, <1>4, Received, LineInFile DEF Desk!Seen
  <2>3. rcv'.step = "append" => ~Due(rcv.id)
    BY <1>4, Received DEF Due
  <2> QED BY <1>1, <1>2, <1>3, <2>1, <2>2, <2>3 DEF ReplyInv, Filed, Judged
<1>5. CASE Desk!Match
  <2>1. UNCHANGED <<reply_lines, verdict>> /\ rcv.step = "match"
    BY <1>5 DEF Desk!Match, Desk!files
  <2>2. Due(rcv.id) => Desk!Matches(rcv.id)
    BY <1>1 DEF Due, Desk!Matches, Desk!LedgerDate, ReplyInv, Judged
  <2>3. Due(rcv.id) => rcv'.verdict = "matched"
    BY <1>5, <2>2, Received
  <2> QED BY <1>1, <1>2, <1>3, <2>1, <2>3 DEF ReplyInv, Filed, Judged
<1>6. CASE Desk!Append
  <2>1. /\ rcv.step = "append" /\ rcv'.step = "respond"
        /\ reply_lines' = [reply_lines EXCEPT ![Desk!Line(rcv.id)] = @ + 1]
        /\ verdict' = [verdict EXCEPT ![rcv.id] = rcv.verdict]
    BY <1>6, Received DEF Desk!Append
  <2>2. reply_lines[Desk!Line(rcv.id)] = 0
    BY <2>1 DEF ReplyInv, Filed
  <2>3. /\ reply_lines'[Desk!Line(rcv.id)] = 1
        /\ \A x \in (1..DeskDays) \X Desk!Replies :
             x # Desk!Line(rcv.id) => reply_lines'[x] = reply_lines[x]
    BY <1>1, <2>1, <2>2, LineInFile DEF Desk!TypeOK
  <2>4. Desk!Line(rcv.id) = <<reply[rcv.id].day, rcv.id>>
    BY <1>1, LineInFile
  <2>5. ASSUME NEW r \in Desk!Replies, NEW d \in 1..DeskDays, reply_lines'[<<d, r>>] > 0
        PROVE  Written(r) /\ d = reply[r].day /\ reply_lines'[<<d, r>>] = 1
    <3>1. CASE <<d, r>> = Desk!Line(rcv.id)
      <4>1. d = reply[rcv.id].day /\ r = rcv.id
        BY <2>4, <3>1
      <4>2. reply_lines'[<<d, r>>] = 1
        BY <2>3, <3>1
      <4> QED BY <1>1, <4>1, <4>2
    <3>2. CASE <<d, r>> # Desk!Line(rcv.id)
      BY <2>3, <2>5, <3>2 DEF ReplyInv, Filed
    <3> QED BY <3>1, <3>2
  <2>6. ASSUME NEW r \in Desk!Replies, Due(r), reply_lines'[Desk!Line(r)] > 0
        PROVE  verdict'[r] = "matched"
    <3>1. CASE r = rcv.id
      BY <2>1, <2>6, <3>1 DEF ReplyInv, Judged, Desk!TypeOK
    <3>2. CASE r # rcv.id
      <4>1. Desk!Line(r) # Desk!Line(rcv.id) /\ Desk!Line(r) \in (1..DeskDays) \X Desk!Replies
        BY <2>4, <2>6, <3>2, LineInFile DEF Due
      <4>2. verdict'[r] = verdict[r]
        BY <2>1, <3>2 DEF Desk!TypeOK
      <4> QED BY <2>3, <2>6, <4>1, <4>2 DEF ReplyInv, Judged
    <3> QED BY <3>1, <3>2
  <2>7. Desk!Replies' = Desk!Replies
    BY DEF Desk!Replies
  <2>8. Filed'
    BY <1>1, <1>2, <1>3, <2>1, <2>5, <2>7 DEF Filed
  <2>9. Judged'
    BY <1>2, <1>3, <2>1, <2>6, <2>7 DEF Judged, ReplyInv
  <2> QED BY <2>8, <2>9 DEF ReplyInv
<1> QED BY <1>4, <1>5, <1>6

(* Every step keeps replies filed and judged.                              *)
LEMMA ReplyNext == Desk!TypeOK /\ ReplyInv /\ [Desk!Next]_t_vars => ReplyInv'
<1> SUFFICES ASSUME Desk!TypeOK, ReplyInv, [Desk!Next]_t_vars PROVE ReplyInv'
  OBVIOUS
<1>1. ASSUME NEW p \in Posters,
             \/ \E d \in TicketDates, batch \in SUBSET Intents : Desk!LoadSent(p, d, batch)
             \/ Desk!Post(p) \/ Desk!Record(p) \/ Desk!EndRun(p) \/ Desk!Interrupt(p)
             \/ Desk!Abort(p)
      PROVE  ReplyInv'
  <2>1. ticket_lines \subseteq ticket_lines' /\ UNCHANGED <<reply_lines, reply, rcv, verdict>>
    BY <1>1 DEF Desk!LoadSent, Desk!Post, Desk!Record, Desk!EndRun, Desk!Interrupt, Desk!Close,
                Desk!Abort, Desk!files, Desk!slack, Desk!receiver
  <2> QED BY <2>1, ReplyQuiet
<1>2. ASSUME NEW r \in Desk!Replies, Desk!DeliverEvent(r) PROVE ReplyInv'
  <2>1. /\ Written(r) /\ rcv'.step = "dedup" /\ rcv'.id = r
        /\ UNCHANGED <<reply_lines, reply, verdict, ticket_lines>>
    BY <1>2 DEF Desk!DeliverEvent, Written, Desk!files
  <2> QED BY <2>1 DEF ReplyInv, Filed, Judged, Written, Due, Desk!Line, Desk!LedgerDate
<1>3. CASE Desk!Respond \/ Desk!RequestFails
  <2>1. rcv'.step = "idle" /\ UNCHANGED <<reply_lines, reply, verdict, ticket_lines>>
    BY <1>3 DEF Desk!Respond, Desk!RequestFails, Desk!Idle, Desk!files, Desk!slack
  <2> QED BY <2>1 DEF ReplyInv, Filed, Judged, Written, Due, Desk!Line, Desk!LedgerDate
<1>4. CASE Desk!NextDay \/ UNCHANGED t_vars
  <2>1. ticket_lines' = ticket_lines /\ UNCHANGED <<reply_lines, reply, rcv, verdict>>
    BY <1>4 DEF Desk!NextDay, t_vars, Desk!files, Desk!slack, Desk!receiver
  <2> QED BY <2>1, ReplyQuiet
<1> QED BY <1>1, <1>2, <1>3, <1>4, ReplyWritten, ReplyReceived DEF Desk!Next

-----------------------------------------------------------------------------
(* The theorems                                                            *)

DeskInv == Desk!TypeOK /\ PostInv /\ ReplyInv

(* The invariants hold of every behaviour, whichever part it is of.        *)
LEMMA DeskInvAlways == BookSpec => []DeskInv
<1>1. Desk!Init => DeskInv
  <2> SUFFICES ASSUME Desk!Init PROVE DeskInv
    OBVIOUS
  <2>1. Desk!TypeOK
    BY DeskTypedInit
  <2>2. AtWork
    BY DEF Desk!Init, AtWork
  <2>3. ASSUME NEW t \in Desk!Tickets PROVE CountedOf(t)
    <3>1. Owing(t) = {} /\ Posted(t) = 0 /\ t_excused[t] = 0
      BY DEF Desk!Init, Owing, Owes, Posted
    <3>2. Cardinality(Owing(t)) = 0
      BY <3>1, FS_EmptySet
    <3> QED BY <3>1, <3>2 DEF CountedOf
  <2>4. ReplyInv
    BY DEF Desk!Init, ReplyInv, Filed, Judged, Written, Due, Desk!Idle
  <2> QED BY <2>1, <2>2, <2>3, <2>4 DEF DeskInv, PostInv, Counted, CountedOf
<1>2. DeskInv /\ [Desk!Next]_t_vars => DeskInv'
  <2> SUFFICES ASSUME DeskInv, [Desk!Next]_t_vars PROVE DeskInv'
    OBVIOUS
  <2>1. Desk!TypeOK /\ AtWork /\ PostInv /\ ReplyInv
    BY DEF DeskInv, PostInv
  <2> QED BY <2>1, DeskTypedNext, CountedNext, ReplyNext DEF DeskInv
<1>3. BookInit => Desk!Init
  BY DEF BookInit
<1>4. [BookNext]_<<part, vars, t_vars>> => [Desk!Next]_t_vars
  BY DEF BookNext, RunsNext, DeskNext
<1> QED BY <1>1, <1>2, <1>3, <1>4, PTL DEF BookSpec

(* Every variable of the desk stays in its domain, and a poster at rest    *)
(* holds nothing.                                                          *)
THEOREM DeskTypeCorrect == BookSpec => []Desk!TypeOK
BY DeskInvAlways, PTL DEF DeskInv

(* With any number of posters, tickets and dates, a ticket is posted again *)
(* only if a process had it in hand when another loaded the ledger, or     *)
(* died before its line was in the file (send_manual_tickets).             *)
THEOREM PostsOnlyWithExcuse == BookSpec => []PostsExcused
<1>1. DeskInv => PostsExcused
  <2> SUFFICES ASSUME DeskInv, NEW t \in Desk!Tickets
               PROVE  shown[t] + lost[t] <= 1 + t_excused[t]
    BY DEF PostsExcused, Desk!PostsExcused
  <2>1. CountedOf(t) /\ Desk!TypeOK
    BY DEF DeskInv, PostInv, Counted, CountedOf
  <2> QED BY <2>1, Figures DEF CountedOf, Posted
<1> QED BY <1>1, DeskInvAlways, PTL

(* However often Slack delivers a reply, and across midnight, one line of  *)
(* one file is about it; and it says "matched" if the reply was readable,  *)
(* of the ticket's date and written after the ticket's line                *)
(* (handle_slack_event).                                                   *)
THEOREM RepliesRecorded == BookSpec => []RepliesRecordedRight
<1>1. DeskInv => RepliesRecordedRight
  <2> SUFFICES ASSUME DeskInv PROVE RepliesRecordedRight
    OBVIOUS
  <2>1. ASSUME NEW r \in Desk!Replies
        PROVE  /\ \A d \in 1..DeskDays : reply_lines[<<d, r>>] <= 1
               /\ Desk!Cardinality({d \in 1..DeskDays : reply_lines[<<d, r>>] > 0}) <= 1
    <3> DEFINE D == {d \in 1..DeskDays : reply_lines[<<d, r>>] > 0}
    <3>1. \A d \in 1..DeskDays : reply_lines[<<d, r>>] <= 1
      BY DEF DeskInv, ReplyInv, Filed, Desk!TypeOK
    <3>2. D \in SUBSET {reply[r].day}
      BY DEF DeskInv, ReplyInv, Filed
    <3> HIDE DEF D
    <3>3. Cardinality(D) <= 1
      <4>1. IsFiniteSet({reply[r].day}) /\ Cardinality({reply[r].day}) = 1
        BY FS_Singleton
      <4> DEFINE one == {reply[r].day}
      <4>2. IsFiniteSet(one) /\ Cardinality(one) = 1 /\ D \in SUBSET one
        BY <3>2, <4>1
      <4> HIDE DEF one
      <4>3. Cardinality(D) <= Cardinality(one)
        BY <4>2, FS_Subset
      <4> QED BY <4>2, <4>3
    <3>4. Desk!Cardinality(D) = Cardinality(D)
      BY DEF Desk!Cardinality, Cardinality, Desk!IsFiniteSet, IsFiniteSet
    <3> QED BY <3>1, <3>3, <3>4 DEF D
  <2>2. ASSUME NEW r \in Desk!Replies, Desk!Recorded(r), reply[r].parses, reply[r].known,
               \A t \in reply[r].ids : t[1] = reply[r].day
        PROVE  verdict[r] = "matched"
    <3>1. PICK d \in 1..DeskDays : reply_lines[<<d, r>>] > 0
      BY <2>2 DEF Desk!Recorded
    <3>2. Written(r) /\ d = reply[r].day
      BY <3>1 DEF DeskInv, ReplyInv, Filed
    <3>3. Due(r) /\ reply_lines[Desk!Line(r)] > 0
      BY <2>2, <3>1, <3>2 DEF Due, Desk!Line, Desk!LedgerDate
    <3> QED BY <3>3 DEF DeskInv, ReplyInv, Judged
  <2> QED BY <2>1, <2>2 DEF RepliesRecordedRight, Desk!RepliesRecordedRight,
                            Desk!RecordedOnce, Desk!KnownRepliesMatch
<1> QED BY <1>1, DeskInvAlways, PTL

=============================================================================
