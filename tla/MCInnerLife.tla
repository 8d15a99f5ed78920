---- MODULE MCInnerLife ----
(* The inner-life pipeline for TLC. *)
EXTENDS InnerLife, TLC

\* Threads and spellings are interchangeable: nothing orders or distinguishes them.
Symmetry == Permutations(Thread) \cup Permutations(Spelling)
====
