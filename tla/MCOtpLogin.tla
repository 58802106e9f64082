----------------------------- MODULE MCOtpLogin -----------------------------
(* OtpLogin on small instances. *)
EXTENDS OtpLogin, TLC

\* Goroutines, codes and users are interchangeable.
Symmetry == Permutations(Procs) \cup Permutations(Codes) \cup Permutations(Users)
=============================================================================
