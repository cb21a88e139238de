-------------------------- MODULE EntryRefinement --------------------------
(* The refinement mapping from EntryPipeline to EntrySlot. *)
EXTENDS EntryPipeline

(* A booked entry is one that reached consumed_entries; the slot of a      *)
(* symbol is the broker's status of its booked entry.                      *)
BookedIn(s, where) == \E o \in Booked : o.sym = s /\ status[o.id] = where

EnteredMap == {<<o.day, o.sym>> : o \in Booked}

SlotMap ==
  [s \in Symbols |-> IF BookedIn(s, "open") THEN "working"
                     ELSE IF BookedIn(s, "filled") THEN "held" ELSE "free"]

Slot == INSTANCE EntrySlot WITH entered <- EnteredMap, slot <- SlotMap

(* The pipeline implements the slots: through crashes, lost answers and    *)
(* requeued intents, a booked entry takes a free slot once a day and       *)
(* leaves it by cancellation, close or overnight expiry only.              *)
ImplementsSlots == Slot!Spec

=============================================================================
