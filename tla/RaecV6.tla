------------------------------ MODULE RaecV6 ------------------------------
(***************************************************************************)
(* The daily live run of the RAEC v6 coordinator                           *)
(* (strategies/raec_v6/coordinator.py) behind the Schwab read-only sync of *)
(* ops/post_scan_pipeline.py.  The account is traded by hand: a run reads  *)
(* the newest snapshot of it, sets a target exposure, passes it through    *)
(* the drawdown and shock breakers, saves its state, writes its ledger     *)
(* record and posts a ticket the owner may execute, fully, partly or not   *)
(* at all.  Schwab's API may report the account as it was before trades.   *)
(*                                                                         *)
(* Money is counted in units, the risky holdings are one position, and the *)
(* allocator's answer is a target of 0..FullParts parts of the equity.          *)
(***************************************************************************)
EXTENDS Integers, Sequences, SequencesExt, FiniteSetsExt

CONSTANTS FullParts,         \* parts of the equity a target counts in
          Cash0, Pos0,  \* the account on the first day
          Window,       \* equities the drawdown looks back on (252 in code)
          MaxStale,     \* business days a snapshot may be old (1 in code)
          DriftPct,     \* drift, in percent, that triggers a rebalance
          History,      \* recorded returns the shock breaker needs (60)
          MaxMoves,     \* bound on market moves
          MaxTargets,   \* bound on new targets
          MaxFaults     \* bound on failed syncs, lost posts and crashes

ASSUME RaecV6Assumption ==
  /\ {FullParts, Window} \subseteq Nat \ {0}
  /\ {Cash0, Pos0, MaxStale, DriftPct, History, MaxMoves, MaxTargets,
      MaxFaults} \subseteq Nat

VARIABLES account,   \* cash and position the owner really has
          reported,  \* cash and position Schwab's API shows
          snap,      \* newest snapshot in the Schwab ledger, and its age
          st,        \* state/strategies/SCHWAB_401K_MANUAL/v6_coordinator.json
          stage,        \* where the pipeline is
          issued,       \* the intent of the run in memory
          ticket,    \* the trade of the last ticket the owner saw
          target,    \* what strategies, allocator and vol scaling ask for
          moves, targets, faults,
          equities, calm \* history: equities read, runs since the last shock

run_vars == <<account, reported, snap, st, stage, issued, ticket, target,
          moves, targets, faults, equities, calm>>
outside == <<account, reported, target, moves, targets>>

FreshBook == [curve |-> <<>>, cash |-> 0, pos |-> 0, ret |-> 0]
Old == MaxStale + 1 \* every age no reader accepts
Worth(a) == a.cash + a.pos
DropOld(s) == IF Len(s) > Window THEN Tail(s) ELSE s
Shock == 2 \* DEFAULT_SHOCK_FREEZE_DAYS

(* read_latest_snapshot walks back to the newest file with a snapshot and  *)
(* refuses one that is too old.                                            *)
Fresh == snap.age <= MaxStale
Written(a) == [age |-> 0, cash |-> a.cash, pos |-> a.pos]

(* Mutant: the breaker heals only above the old peak.                      *)
Breaker_NeverHeals(active, curve) ==
  /\ curve # <<>>
  /\ LET peak == Max(Range(curve))
     IN 100 * Last(curve) <= (IF active THEN 100 ELSE 85) * peak

(* The breaker of apply_overlay: it trips 15% below the peak of the last   *)
(* Window equities and stays until the book is within 7% of that peak.     *)
Breaker(active, curve) ==
  /\ curve # <<>>
  /\ LET peak == Max(Range(curve))
     IN IF active THEN 100 * Last(curve) < 93 * peak
                  ELSE 100 * Last(curve) <= 85 * peak

(* Target of the position in an account of equity eq; an active breaker    *)
(* halves the exposure (DEFAULT_DD_BREAKER_SCALE).                         *)
Final(eq, halved) ==
  IF halved THEN (target * eq) \div (2 * FullParts) ELSE (target * eq) \div FullParts

(* _l1_drift_pct against REBALANCE_DRIFT_THRESHOLD_PCT.                    *)
Drifted(delta, eq) ==
  100 * delta >= DriftPct * eq \/ -100 * delta >= DriftPct * eq

(* Mutant: intents against the shadow book, which believes every ticket.   *)
CurrentPos_Shadow == st.book.pos

(* The weights the intents are computed from: those of the snapshot, which *)
(* are what the owner holds, not those of the shadow book.                 *)
CurrentPos == snap.pos

(* Mutant: positions are synced, the cash of the last run is kept.         *)
SyncBook_KeepsCash(book) ==
  [book EXCEPT !.pos = snap.pos,
               !.cash = IF book.curve = <<>> THEN snap.cash ELSE @]

(* The seeding and resync of a live run: cash and positions of the book    *)
(* are the snapshot's.  The first run starts the book with the cash alone. *)
SyncBook(book) == [book EXCEPT !.cash = snap.cash, !.pos = snap.pos]

(* ShadowBook.step after that resync: the marks do not move, the trade to  *)
(* goal is booked as done, the equity joins the curve.  Slippage is below  *)
(* the unit of the model.                                                  *)
StepBook(book, goal) ==
  LET eq    == Worth(book)
      prior == IF book.curve = <<>> THEN book.cash ELSE Last(book.curve)
  IN [curve |-> DropOld(Append(book.curve, eq)), pos |-> goal,
      cash |-> eq - goal, ret |-> IF prior > 0 THEN eq - prior ELSE 0]

(* Mutant: the run that found the shock already counts as a frozen day.    *)
FreezeAfter_Counts(freeze, shock) ==
  IF shock THEN Shock - 1 ELSE IF freeze > 0 THEN freeze - 1 ELSE 0

(* What is left of a freeze after a run: a shock found in this run starts  *)
(* a new one.                                                              *)
FreezeAfter(freeze, shock) ==
  IF shock THEN Shock ELSE IF freeze > 0 THEN freeze - 1 ELSE 0

RunsInit ==
  /\ account = [cash |-> Cash0, pos |-> Pos0] /\ reported = account
  /\ snap = [age |-> Old, cash |-> 0, pos |-> 0]
  /\ st = [book |-> FreshBook, dd |-> FALSE, freeze |-> 0, n |-> 0]
  /\ stage = "night" /\ issued = 0 /\ ticket = 0
  /\ target \in 0..FullParts /\ moves = 0 /\ targets = 0 /\ faults = 0
  /\ equities = <<>> /\ calm = Shock

(* ---- the outside: market, Schwab and the owner ------------------------ *)

(* A price moves; the API values the position it knows of.                 *)
Move(d) ==
  /\ moves < MaxMoves /\ account.pos > 0 /\ account.pos + d >= 0
  /\ account' = [account EXCEPT !.pos = @ + d]
  /\ reported' = IF reported.pos + d >= 0 /\ reported.pos > 0
                 THEN [reported EXCEPT !.pos = @ + d] ELSE reported
  /\ moves' = moves + 1
  /\ UNCHANGED <<snap, st, stage, issued, ticket, target, targets, faults,
                 equities, calm>>

(* The strategies ask for another exposure.                                *)
NewTarget ==
  /\ targets < MaxTargets /\ targets' = targets + 1
  /\ target' \in 0..FullParts \ {target}
  /\ UNCHANGED <<account, reported, snap, st, stage, issued, ticket, moves,
                 faults, equities, calm>>

(* The owner executes the ticket or a part of it, within cash and holdings.*)
Execute(d) ==
  /\ IF ticket > 0 THEN d \in 1..ticket ELSE -d \in 1..-ticket
  /\ account.cash >= d /\ account.pos + d >= 0
  /\ account' = [cash |-> account.cash - d, pos |-> account.pos + d]
  /\ ticket' = 0
  /\ UNCHANGED <<reported, snap, st, stage, issued, target, moves, targets,
                 faults, equities, calm>>

(* The API catches up with the account.                                    *)
CatchUp ==
  /\ reported # account /\ reported' = account
  /\ UNCHANGED <<account, snap, st, stage, issued, ticket, target, moves,
                 targets, faults, equities, calm>>

(* manual_position_override writes what the owner holds into today's file. *)
Override ==
  /\ stage = "night" /\ snap # Written(account) /\ snap' = Written(account)
  /\ UNCHANGED <<account, reported, st, stage, issued, ticket, target, moves,
                 targets, faults, equities, calm>>

(* ---- the pipeline ------------------------------------------------------ *)

(* A new day: the newest file is a day older, the pipeline starts.         *)
NextDay ==
  /\ stage = "night" /\ stage' = "sync"
  /\ snap' = IF snap.age < MaxStale THEN [snap EXCEPT !.age = @ + 1]
             ELSE [age |-> Old, cash |-> 0, pos |-> 0]
  /\ UNCHANGED <<outside, st, issued, ticket, faults, equities, calm>>

(* The pipeline is started again on the same day.                          *)
Again ==
  /\ stage = "night" /\ faults < MaxFaults /\ faults' = faults + 1
  /\ stage' = "sync"
  /\ UNCHANGED <<outside, snap, st, issued, ticket, equities, calm>>

(* schwab_readonly_sync appends what the API shows; the step is optional.  *)
Sync ==
  /\ stage = "sync" /\ stage' = "run"
  /\ snap' = Written(reported)
  /\ UNCHANGED <<outside, st, issued, ticket, faults, equities, calm>>

SyncFails ==
  /\ stage = "sync" /\ stage' = "run"
  /\ faults < MaxFaults /\ faults' = faults + 1
  /\ UNCHANGED <<outside, snap, st, issued, ticket, equities, calm>>

(* No fresh snapshot: read_latest_snapshot raises before anything is done. *)
RunRefused ==
  /\ stage = "run" /\ ~ Fresh /\ stage' = "night"
  /\ UNCHANGED <<outside, snap, st, issued, ticket, faults, equities, calm>>

(* run_coordinator up to _save_state.  The breakers judge the book as the  *)
(* previous run left it; whether a falling book fell by a shock is open.   *)
Run(shock) ==
  /\ stage = "run" /\ Fresh /\ stage' = "ledger"
  /\ shock => st.n >= History /\ st.book.ret < 0
  /\ LET book  == SyncBook(st.book)
         eq    == Worth(snap)
         dd    == Breaker(st.dd, st.book.curve)
         cur   == CurrentPos
         delta == Final(eq, dd) - cur
         goes  == st.freeze = 0 /\ Drifted(delta, eq)
     IN /\ st' = [book   |-> StepBook(book, IF goes THEN cur + delta ELSE cur),
                  dd     |-> dd,
                  freeze |-> FreezeAfter(st.freeze, shock),
                  n      |-> Min({st.n + 1, History})]
        /\ issued' = IF goes THEN delta ELSE 0
        /\ equities' = DropOld(Append(equities, eq))
  /\ calm' = IF shock THEN 0 ELSE Min({calm + 1, Shock + 1})
  /\ UNCHANGED <<outside, snap, ticket, faults>>

(* The record of the run is appended; no step of the pipeline reads it.    *)
AppendLedger ==
  /\ stage = "ledger" /\ stage' = "post"
  /\ UNCHANGED <<outside, snap, st, issued, ticket, faults, equities, calm>>

(* The ticket of this run replaces the last one; "No trades" voids it.     *)
Post ==
  /\ stage = "post" /\ stage' = "night" /\ ticket' = issued /\ issued' = 0
  /\ UNCHANGED <<outside, snap, st, faults, equities, calm>>

(* Slack does not answer: the alert is swallowed, the run is done.         *)
PostLost ==
  /\ stage = "post" /\ stage' = "night" /\ issued' = 0
  /\ faults < MaxFaults /\ faults' = faults + 1
  /\ UNCHANGED <<outside, snap, st, ticket, equities, calm>>

RunDies ==
  /\ stage \in {"run", "ledger", "post"} /\ stage' = "night" /\ issued' = 0
  /\ faults < MaxFaults /\ faults' = faults + 1
  /\ UNCHANGED <<outside, snap, st, ticket, equities, calm>>

RunsNext ==
  \/ \E d \in {-1, 1} : Move(d)
  \/ NewTarget
  \/ \E d \in -Worth(account)..Worth(account) : Execute(d)
  \/ CatchUp \/ Override \/ NextDay \/ Again
  \/ Sync \/ SyncFails \/ RunRefused
  \/ \E shock \in BOOLEAN : Run(shock)
  \/ AppendLedger \/ Post \/ PostLost \/ RunDies

RunsSpec == RunsInit /\ [][RunsNext]_run_vars

(* The scheduler starts the pipeline every day and it runs to its end; the *)
(* API eventually shows what was traded.  Nobody has to execute a ticket.  *)
LiveSpec ==
  /\ RunsSpec
  /\ WF_run_vars(NextDay) /\ WF_run_vars(Sync) /\ WF_run_vars(RunRefused)
  /\ WF_run_vars(Run(FALSE)) /\ WF_run_vars(AppendLedger) /\ WF_run_vars(Post)
  /\ WF_run_vars(CatchUp)

(* ---- properties -------------------------------------------------------- *)

(* The drawdown breaker trips on losses of the account only: when a run    *)
(* turns it on, the equities Schwab showed in the window did fall by 15%,  *)
(* whatever was bought, half executed or left undone in between.           *)
BreakerIsReal ==
  [][st'.dd /\ ~ st.dd =>
       100 * Last(equities) <= 85 * Max(Range(equities))]_run_vars

(* A shock freezes the next two runs: no intent is issued in them, also    *)
(* when a run crashed, was repeated or found another shock.                *)
FreezeHolds == stage \in {"ledger", "post"} /\ calm \in 1..Shock => issued = 0

(* A breaker does not stay on for ever: once the market is quiet the old   *)
(* peak leaves the window and the exposure is restored.                    *)
BreakerRearms == []<>~ st.dd

(* A ticket that was lost, voided or executed in part comes back: while    *)
(* the account is off its target, the owner sees a ticket again.           *)
Gap == Final(Worth(account), st.dd) - account.pos
OffTarget == Gap # 0 /\ Drifted(Gap, Worth(account))
TicketsReturn == OffTarget ~> (ticket # 0 \/ ~ OffTarget)

=============================================================================
