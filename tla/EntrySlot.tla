----------------------------- MODULE EntrySlot -----------------------------
(***************************************************************************)
(* What the entry side promises of the entries it has booked: every symbol *)
(* is one slot, and a slot is used at most once a day.  EntryPipeline, with *)
(* its stores, guards, crashes and failing calls, implements this.         *)
(***************************************************************************)
EXTENDS Naturals

CONSTANTS Symbols, MaxDay

VARIABLES
  day,      \* the trading date
  entered,  \* <<date, symbol>> of every booked entry
  slot      \* what a booked entry of the symbol is now: free, working, held

svars == <<day, entered, slot>>

Init ==
  /\ day = 1
  /\ entered = {}
  /\ slot = [s \in Symbols |-> "free"]

(* A booked entry takes a free slot, once a day.  It was at the broker     *)
(* before it was booked, so it may be filled or gone by now.               *)
Enter(s) ==
  /\ <<day, s>> \notin entered
  /\ slot[s] = "free"
  /\ entered' = entered \union {<<day, s>>}
  /\ \E now \in {"free", "working", "held"} : slot' = [slot EXCEPT ![s] = now]
  /\ UNCHANGED day

Fill(s) ==
  /\ slot[s] = "working"
  /\ slot' = [slot EXCEPT ![s] = "held"]
  /\ UNCHANGED <<day, entered>>

(* The entry is cancelled, or the position is closed. *)
Leave(s) ==
  /\ slot[s] \in {"working", "held"}
  /\ slot' = [slot EXCEPT ![s] = "free"]
  /\ UNCHANGED <<day, entered>>

(* Entries are DAY orders: the ones still working expire overnight. *)
NextDay ==
  /\ day < MaxDay
  /\ day' = day + 1
  /\ slot' = [s \in Symbols |-> IF slot[s] = "working" THEN "free" ELSE slot[s]]
  /\ UNCHANGED entered

Next ==
  \/ \E s \in Symbols : Enter(s) \/ Fill(s) \/ Leave(s)
  \/ NextDay

Spec == Init /\ [][Next]_svars

=============================================================================
