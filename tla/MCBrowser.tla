----------------------------- MODULE MCBrowser -----------------------------
(* Browser on small instances. *)
EXTENDS Browser, TLC

\* Calls are interchangeable.
Symmetry == Permutations(Calls)
=============================================================================
