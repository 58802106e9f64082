---------------------------- MODULE MCDirectory ----------------------------
(* Directory on small instances. *)
EXTENDS Directory, TLC

\* Organizations, numbers and goroutines are interchangeable.
Symmetry == Permutations(Orgs) \cup Permutations(Phones) \cup Permutations(Procs)
=============================================================================
