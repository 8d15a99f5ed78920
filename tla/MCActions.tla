----------------------------- MODULE MCActions -----------------------------
(***************************************************************************)
(* The stores of ActionServer for TLC: items and handler threads are       *)
(* interchangeable.                                                        *)
(***************************************************************************)
EXTENDS ActionServer, TLC

Symmetry == Permutations(Item) \cup Permutations(Handler)
=============================================================================
