----------------------------- MODULE MCReports -----------------------------
(* Reports on small instances. *)
EXTENDS Reports, TLC

Zone(change, before, after) == [change |-> change, before |-> before, after |-> after]

\* Clocks that are set back and forward in the middle of a day, east and west
\* of Greenwich; forward shortly before midnight; and forward at midnight.
London == Zone(6, 0, 1)

FewZones == {London, Zone(6, 2, 1), Zone(7, -1, -2), Zone(5, -2, -1), Zone(6, -2, -1)}

\* Any day, a day, two days.
FewPeriods == {<<NULL, NULL>>, <<1, 1>>, <<1, 2>>}

Symmetry == Permutations(Workers)
=============================================================================
