----------------------------- MODULE MCRaecV6 -----------------------------
(* RaecV6 on a small account: one unit of six is a move of a sixth. *)
EXTENDS RaecV6
=============================================================================
