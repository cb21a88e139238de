--------------------------- MODULE MCStopManager ---------------------------
(* StopManager on small instances. *)
EXTENDS StopManager

=============================================================================
