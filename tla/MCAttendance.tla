---------------------------- MODULE MCAttendance ----------------------------
(* Attendance on small instances. *)
EXTENDS Attendance, TLC

\* Goroutines are interchangeable.
Symmetry == Permutations(Procs)
=============================================================================
