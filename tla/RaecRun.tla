------------------------------ MODULE RaecRun ------------------------------
(***************************************************************************)
(* The evaluations of the 401(k) strategies.  A strategy keeps a state     *)
(* file: its regime smoother, the regime it last confirmed, and the dates  *)
(* of its last evaluation and rebalance.  It is run on its own             *)
(* (run_strategy: ticket first, state after) or by the coordinator, which  *)
(* lets each strategy save its state and posts the tickets afterwards.     *)
(* Either may be run without posting.  A run on its own still saves its    *)
(* state when posting is disabled, and in a dry run with                   *)
(* --allow-state-write; without that flag a dry run has no effect at all   *)
(* and is no action here.                                                  *)
(* Tickets go through the ledger of Schwab tickets, which skips ids it     *)
(* already has for the date; ManualTickets takes that step apart.          *)
(*                                                                         *)
(* The prices of a date decide the raw regime of the date and, with the    *)
(* allocations a strategy knows, how far it is from its targets.           *)
(***************************************************************************)
EXTENDS Naturals, Sequences, FiniteSets

CONSTANTS
  Order,      \* strategies, in the order the coordinator runs them
  Regimes,
  SmoothingDays, Cooldown,
  MaxDay,     \* bound: dates explored
  MaxRuns,    \* bound: runs of a date
  MaxFaults   \* bound: processes killed, and calls that raise

ASSUME RaecConstants ==
  /\ Order \in Seq({Order[i] : i \in DOMAIN Order})
  /\ \A i, j \in DOMAIN Order : Order[i] = Order[j] => i = j
  /\ "none" \notin Regimes
  /\ SmoothingDays \in Nat \ {0} /\ Cooldown \in Nat
  /\ MaxDay \in Nat \ {0} /\ MaxRuns \in Nat /\ MaxFaults \in Nat

VARIABLES
  day, raw, drift,      \* what the prices of the date say
  (* files *)
  state,                \* state file of each strategy
  sub_smoothed_regimes, \* in the coordinator's state file
  tickets,              \* ticket ids in the ledger of the date
  (* the run *)
  pc, mode, todo,
  result,               \* of the strategy at hand, with the state it loaded
  sub_results,          \* of the coordinator, in order, not yet posted
  evaluated,            \* regimes the coordinator run came to
  (* history and budgets *)
  owed,                 \* strategies whose saved regime change has no ticket
  excused,              \* those of them whose run was told not to post, or failed
  last_post,            \* date and reason of the last ticket of each strategy
  unsaved,              \* strategies of whose last ticket the file does not know
  behind,               \* strategies the coordinator has not seen since a save
  runs, faults

market  == <<day, raw, drift>>
files   == <<state, sub_smoothed_regimes, tickets>>
process == <<pc, mode, todo, result, sub_results, evaluated>>
history == <<owed, excused, last_post, unsaved, behind>>
vars    == <<market, files, process, history, runs, faults>>

-----------------------------------------------------------------------------
Subs == {Order[i] : i \in DOMAIN Order}
None == "none"

(* Largest distance of an allocation from its target: nothing to trade,    *)
(* within the threshold, beyond it, beyond twice the threshold.            *)
Drifts == {"aligned", "low", "over", "extreme"}
Unknown == "unknown"
Whys   == {"notice", "first", "change", "extreme", "drift", "none"}

(* On its own; on its own, saving without posting; the coordinator; the    *)
(* coordinator with posting disabled; the coordinator's dry run.           *)
Modes == {"single", "silent", "coordinator", "muted", "dry"}
Fresh  == [eval |-> 0, confirmed |-> None, rebalance |-> 0, allocs |-> FALSE,
           seen |-> <<>>]
NoResult == [sub |-> None]

Alone == mode \in {"single", "silent"}

Fault == faults < MaxFaults /\ faults' = faults + 1

(* What RegimeTransitionDetector.to_dict keeps of the history. *)
Kept(s) == IF Len(s) <= SmoothingDays THEN s
           ELSE SubSeq(s, Len(s) - SmoothingDays + 1, Len(s))

Seen(st) == Kept(Append(st.seen, <<raw, day>>))

(* update: the first regime at once, another one when the last days agree. *)
Agree(s) == Len(s) >= SmoothingDays /\ \A i \in DOMAIN s : s[i][1] = raw
Smoothed(st) ==
  IF st.confirmed = None \/ Agree(Seen(st)) THEN raw ELSE st.confirmed

(* Mutant: a cooldown one day short. *)
CoolingDown_OffByOne(st) == st.rebalance # 0 /\ day - st.rebalance < Cooldown - 1

CoolingDown(st) == st.rebalance # 0 /\ day - st.rebalance < Cooldown

(* Mutant: the cooldown is asked first. *)
Why_CoolsChanges(st, d) ==
  CASE ~st.allocs -> "notice"
    [] st.allocs /\ st.eval = 0 -> "first"
    [] st.allocs /\ st.eval # 0 /\ CoolingDown(st) -> "none"
    [] OTHER -> IF st.confirmed # Smoothed(st) THEN "change"
                ELSE IF d \in {"extreme", "over"} THEN "drift" ELSE "none"

(* _should_rebalance, as the reason to; without allocations in the state   *)
(* file or the drop folder a notice is sent.                               *)
Why(st, d) ==
  CASE ~st.allocs -> "notice"
    [] st.allocs /\ st.eval = 0 -> "first"
    [] st.allocs /\ st.eval # 0 /\ st.confirmed # Smoothed(st) -> "change"
    [] OTHER -> CASE d = "extreme" -> "extreme"
                  [] d = "over" /\ ~CoolingDown(st) -> "drift"
                  [] OTHER -> "none"

(* What run_strategy works out before it has any effect. *)
Result(s, d) ==
  LET st == state[s]
  IN [sub |-> s, loaded |-> st, regime |-> Smoothed(st), why |-> Why(st, d),
      trades |-> st.allocs /\ d # "aligned"]

Rebalance(res) == res.why # "none"

(* A change of regime of which there is something to trade. *)
Change(res) == /\ res.trades
               /\ res.loaded.confirmed \notin {None, res.regime}

(* The id of an intent hashes the date, the strategy, the symbol, the side *)
(* and the target; the ids of one evaluation stand together.  A ticket     *)
(* without trades has the id of a notice, in the coordinator one for all.  *)
Ticket(res) ==
  IF res.trades THEN <<res.sub, res.regime>>
  ELSE <<IF mode = "single" THEN res.sub ELSE "coord", "notice">>

(* The state as loaded, with what the evaluation adds. *)
Saved(res) ==
  [res.loaded EXCEPT !.eval = day, !.confirmed = res.regime,
                     !.rebalance = IF Rebalance(res) THEN day ELSE @,
                     !.seen = Seen(res.loaded)]

Init ==
  /\ day = 1 /\ raw \in Regimes /\ drift = [s \in Subs |-> Unknown]
  /\ state = [s \in Subs |-> Fresh]
  /\ sub_smoothed_regimes = [s \in Subs |-> None] /\ tickets = {}
  /\ pc = "idle" /\ mode = "single" /\ todo = <<>> /\ result = NoResult
  /\ sub_results = <<>> /\ evaluated = [s \in Subs |-> None]
  /\ owed = {} /\ excused = {} /\ last_post = [s \in Subs |-> <<0, "none">>]
  /\ unsaved = {} /\ behind = {}
  /\ runs = 0 /\ faults = 0

Rest ==
  /\ pc' = "idle" /\ mode' = "single" /\ todo' = <<>> /\ result' = NoResult
  /\ sub_results' = <<>> /\ evaluated' = [s \in Subs |-> None]

-----------------------------------------------------------------------------
(* Starting and evaluating                                                 *)

StartSingle(s, silent) ==
  /\ pc = "idle" /\ runs < MaxRuns
  /\ pc' = "evaluate" /\ mode' = (IF silent THEN "silent" ELSE "single")
  /\ todo' = <<s>> /\ runs' = runs + 1
  /\ UNCHANGED <<market, files, result, sub_results, evaluated, history, faults>>

StartCoordinator(kind) ==
  /\ pc = "idle" /\ runs < MaxRuns
  /\ pc' = "evaluate" /\ mode' = kind
  /\ todo' = Order /\ runs' = runs + 1
  /\ UNCHANGED <<market, files, result, sub_results, evaluated, history, faults>>

(* The distance is the same for every evaluation of the date. *)
Evaluate ==
  /\ pc = "evaluate" /\ todo # <<>>
  /\ \E d \in Drifts :
       /\ drift[Head(todo)] \in {Unknown, d}
       /\ drift' = [drift EXCEPT ![Head(todo)] = d]
       /\ result' = Result(Head(todo), d)
  /\ todo' = Tail(todo)
  /\ pc' = IF mode = "single" /\ Rebalance(result') THEN "post" ELSE "save"
  /\ UNCHANGED <<day, raw, files, mode, sub_results, evaluated, history, runs, faults>>

(* No prices: the coordinator goes on with the next strategy. *)
EvaluationRaises ==
  /\ pc = "evaluate" /\ todo # <<>> /\ Fault
  /\ IF Alone THEN Rest
     ELSE /\ todo' = Tail(todo)
          /\ UNCHANGED <<pc, mode, result, sub_results, evaluated>>
  /\ UNCHANGED <<market, files, history, runs>>

-----------------------------------------------------------------------------
(* Posting and saving                                                      *)

(* send_summary_ticket, which skips ids the ledger of the date has. *)
Post(res) ==
  /\ tickets' = tickets \cup {Ticket(res)}
  /\ last_post' = IF Ticket(res) \in tickets THEN last_post
                  ELSE [last_post EXCEPT ![res.sub] = <<day, res.why>>]

PostTicket ==
  /\ pc = "post" /\ mode = "single"
  /\ Post(result)
  /\ pc' = "save"
  /\ UNCHANGED <<market, state, sub_smoothed_regimes, mode, todo, result, sub_results,
                 evaluated, owed, excused, unsaved, behind, runs, faults>>

(* _save_state, then the strategy's own ledger; if that raises, the        *)
(* coordinator takes the strategy for failed.                              *)
SaveState(reported) ==
  LET s == result.sub
  IN /\ pc = "save"
     /\ state' = [state EXCEPT ![s] = Saved(result)]
     /\ behind' = behind \cup {s}
     /\ owed' = IF mode = "single" /\ Rebalance(result) THEN owed \ {s}
                ELSE IF Change(result) THEN owed \cup {s} ELSE owed
     /\ excused' = IF mode = "single" /\ Rebalance(result) THEN excused \ {s}
                   ELSE IF Change(result) /\ (mode = "silent" \/ (~Alone /\ ~reported))
                     THEN excused \cup {s} ELSE excused
     /\ unsaved' = IF Alone /\ Rebalance(result) THEN unsaved \ {s} ELSE unsaved
     /\ IF Alone THEN Rest
        ELSE /\ pc' = "evaluate" /\ result' = NoResult
             /\ sub_results' = IF reported THEN Append(sub_results, result)
                                           ELSE sub_results
             /\ evaluated' = IF reported
                  THEN [evaluated EXCEPT ![s] = result.regime] ELSE evaluated
             /\ UNCHANGED <<mode, todo>>
     /\ UNCHANGED <<market, sub_smoothed_regimes, tickets, last_post, runs>>

StateSaved   == SaveState(TRUE) /\ UNCHANGED faults
LedgerRaises == Fault /\ SaveState(FALSE)

(* The coordinator, when every strategy has been run; a dry run posts and  *)
(* saves nothing of its own, though the strategies saved their state.      *)
Waiting == {sub_results[i].sub : i \in DOMAIN sub_results}

PostSub ==
  LET res == Head(sub_results)
  IN /\ pc = "evaluate" /\ mode \in {"coordinator", "muted"}
     /\ todo = <<>> /\ sub_results # <<>>
     /\ sub_results' = Tail(sub_results)
     /\ \/ /\ Rebalance(res) /\ mode = "coordinator" /\ Post(res)
           /\ owed' = owed \ {res.sub} /\ excused' = excused \ {res.sub}
           /\ unsaved' = unsaved \ {res.sub}
        \/ /\ Rebalance(res) /\ mode = "muted"
           /\ excused' = excused \cup ({res.sub} \cap owed)
           /\ UNCHANGED <<tickets, last_post, owed, unsaved>>
        \/ ~Rebalance(res) /\ UNCHANGED <<tickets, last_post, owed, excused, unsaved>>
     /\ UNCHANGED <<market, state, sub_smoothed_regimes, pc, mode, todo, result,
                    evaluated, behind, runs, faults>>

(* Mutant: strategies that failed are written too. *)
SaveCoordinator_Wipes ==
  /\ pc = "evaluate" /\ mode \in {"coordinator", "muted"}
  /\ todo = <<>> /\ sub_results = <<>>
  /\ sub_smoothed_regimes' = evaluated
  /\ behind' = {s \in behind : evaluated[s] = None}
  /\ Rest
  /\ UNCHANGED <<market, state, tickets, owed, excused, last_post, unsaved, runs,
                 faults>>

SaveCoordinator ==
  /\ pc = "evaluate" /\ mode \in {"coordinator", "muted"}
  /\ todo = <<>> /\ sub_results = <<>>
  /\ sub_smoothed_regimes' = [s \in Subs |->
       IF evaluated[s] # None THEN evaluated[s] ELSE sub_smoothed_regimes[s]]
  /\ behind' = {s \in behind : evaluated[s] = None}
  /\ Rest
  /\ UNCHANGED <<market, state, tickets, owed, excused, last_post, unsaved, runs,
                 faults>>

EndDryRun ==
  /\ pc = "evaluate" /\ mode = "dry" /\ todo = <<>>
  /\ excused' = excused \cup (Waiting \cap owed)
  /\ Rest
  /\ UNCHANGED <<market, files, owed, last_post, unsaved, behind, runs, faults>>

-----------------------------------------------------------------------------
(* The environment                                                         *)

(* The process dies, or a post or a save raises: the run is over. *)
Crash ==
  /\ pc # "idle" /\ Fault
  /\ excused' = excused \cup (Waiting \cap owed)
  /\ unsaved' = IF mode = "single" /\ pc = "save" /\ Rebalance(result)
                THEN unsaved \cup {result.sub} ELSE unsaved
  /\ Rest
  /\ UNCHANGED <<market, files, owed, last_post, behind, runs>>

(* raec_401k_allocs, or a positions file in the drop folder. *)
SetAllocations(s) ==
  /\ ~state[s].allocs
  /\ state' = [state EXCEPT ![s].allocs = TRUE]
  /\ UNCHANGED <<market, sub_smoothed_regimes, tickets, process, owed, excused, last_post,
                 unsaved, behind, runs, faults>>

NextDay ==
  /\ pc = "idle" /\ day < MaxDay
  /\ day' = day + 1 /\ raw' \in Regimes /\ drift' = [s \in Subs |-> Unknown]
  /\ tickets' = {} /\ runs' = 0
  /\ UNCHANGED <<state, sub_smoothed_regimes, process, history, faults>>

Next ==
  \/ \E s \in Subs, silent \in BOOLEAN : StartSingle(s, silent)
  \/ \E s \in Subs : SetAllocations(s)
  \/ \E kind \in {"coordinator", "muted", "dry"} : StartCoordinator(kind)
  \/ Evaluate \/ EvaluationRaises \/ PostTicket \/ StateSaved \/ LedgerRaises
  \/ PostSub \/ SaveCoordinator \/ EndDryRun \/ Crash \/ NextDay

Spec == Init /\ [][Next]_vars

-----------------------------------------------------------------------------
StateFile == [eval : 0..MaxDay, confirmed : Regimes \cup {None}, rebalance : 0..MaxDay,
              allocs : BOOLEAN, seen : Seq(Regimes \X (1..MaxDay))]
Results == [sub : Subs, loaded : StateFile, regime : Regimes, why : Whys,
            trades : BOOLEAN]

(* The variables stay in their domains, and no more than SmoothingDays     *)
(* observations are kept.                                                   *)
TypeOK ==
  /\ day \in 1..MaxDay /\ raw \in Regimes /\ drift \in [Subs -> Drifts \cup {Unknown}]
  /\ state \in [Subs -> StateFile] /\ \A s \in Subs : Len(state[s].seen) <= SmoothingDays
  /\ sub_smoothed_regimes \in [Subs -> Regimes \cup {None}]
  /\ pc \in {"idle", "evaluate", "post", "save"} /\ mode \in Modes
  /\ todo \in Seq(Subs) /\ result \in Results \cup {NoResult}
  /\ sub_results \in Seq(Results) /\ evaluated \in [Subs -> Regimes \cup {None}]
  /\ owed \subseteq Subs /\ excused \subseteq Subs /\ unsaved \subseteq Subs
  /\ last_post \in [Subs -> (0..MaxDay) \X Whys] /\ behind \subseteq Subs
  /\ runs \in 0..MaxRuns /\ faults \in 0..MaxFaults

(* A change of regime that is in the state file, and therefore will not be *)
(* a change again, has had its ticket.  What is without one was saved by a *)
(* run told not to post (on its own or by the coordinator) or by a         *)
(* coordinator that failed between the save and the post, and a ticket of  *)
(* the strategy ends the excuse; a run on its own that may post loses none,*)
(* wherever it dies.                                                       *)
RegimeChangeTicketed == pc = "idle" => owed \subseteq excused

(* Mere drift makes no ticket within the cooldown of the one before, also  *)
(* if that was a notice or a coordinator's, unless a crash kept that one    *)
(* out of the state file.                                                   *)
CooldownHolds == [][\A s \in Subs \ unsaved :
  last_post'[s] # last_post[s] /\ last_post[s][1] > 0 /\ last_post'[s][2] = "drift"
    => day - last_post[s][1] >= Cooldown]_vars

(* When the last SmoothingDays observations of the state file agree, their *)
(* regime is the confirmed one: a lasting change is not missed, whichever  *)
(* runs failed.                                                             *)
SteadyRegimeConfirmed == \A s \in Subs : \A r \in Regimes :
  LET seen == state[s].seen
  IN Len(seen) = SmoothingDays /\ (\A i \in DOMAIN seen : seen[i][1] = r)
       => state[s].confirmed = r

(* At rest the coordinator's file agrees with that of each strategy, but   *)
(* for those saved since outside a complete run; failures of others do not *)
(* disturb what it knew.                                                    *)
CoordinatorAgrees == pc = "idle" => \A s \in Subs \ behind :
  sub_smoothed_regimes[s] = state[s].confirmed

(* What the runs know of the regime: what they saw, and in one file what   *)
(* is in the other.                                                        *)
RegimesKept == SteadyRegimeConfirmed /\ CoordinatorAgrees

=============================================================================
