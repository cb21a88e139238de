-------------------------- MODULE MCEntryPipeline --------------------------
(* EntryPipeline on small instances. *)
EXTENDS EntryRefinement, TLC

(* No operator treats one symbol unlike another. *)
Symmetry == Permutations(Symbols)

=============================================================================
