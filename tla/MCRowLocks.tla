----------------------------- MODULE MCRowLocks -----------------------------
(* RowLocks on a small instance. *)
EXTENDS RowLocks, TLC

CONSTANTS w1, w2, w3, n1, n2, c1, c2, v1, v2, j1, l1

VisitWorkerDef == (v1 :> w1) @@ (v2 :> w2)
VisitJobDef == [v \in Visits |-> j1]
JobSiteDef == [j \in Jobs |-> l1]

\* Two workers are there and one is to come.
FirstNumberDef == (w1 :> n1) @@ (w2 :> n2) @@ (w3 :> None)
FirstCodeDef == (w1 :> c1) @@ (w2 :> c2) @@ (w3 :> None)

\* Both visits are checked out, a job is created at their location; two numbers
\* are exchanged, and two codes, and one of each is wanted for a new worker.
RequestsDef ==
  {[op |-> "checkOut", visit |-> v1], [op |-> "checkOut", visit |-> v2],
   [op |-> "correct", visit |-> v1],
   [op |-> "createJob", site |-> l1, team |-> <<w2, w1>>],
   [op |-> "createWorker", worker |-> w3, number |-> n1, code |-> c1],
   [op |-> "updateWorker", worker |-> w1, number |-> n1, code |-> c1],
   [op |-> "updateWorker", worker |-> w1, number |-> n2, code |-> None],
   [op |-> "updateWorker", worker |-> w2, number |-> n1, code |-> c2],
   [op |-> "updateWorker", worker |-> w1, number |-> n1, code |-> c2],
   [op |-> "updateWorker", worker |-> w2, number |-> n2, code |-> c1],
   [op |-> "signIn", worker |-> w1], [op |-> "refresh", worker |-> w1],
   [op |-> "updateLocation", site |-> l1]}
=============================================================================
