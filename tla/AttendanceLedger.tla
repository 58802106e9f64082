-------------------------- MODULE AttendanceLedger --------------------------
(***************************************************************************)
(* What the attendance records promise the people who are paid by them: a   *)
(* record is opened once, closed by check-outs while it is not completed,   *)
(* and otherwise changes only by a correction, whose log entry holds the    *)
(* very record it replaced and the record it left.                          *)
(***************************************************************************)
EXTENDS Integers, Sequences

VARIABLES
  record,   \* the attendance records
  log       \* what was corrected: [row, before, after]

Same(r, s) == r.worked = s.worked /\ r.amount = s.amount /\ r.rate = s.rate /\ r.status = s.status

Init == record = << >> /\ log = << >>

Open ==
  /\ Len(record') = Len(record) + 1
  /\ SubSeq(record', 1, Len(record)) = record
  /\ record'[Len(record')].status = "OPEN"
  /\ UNCHANGED log

\* Only record i changes, and neither its rate nor, but for a correction, its
\* check-in.
Change(i) ==
  /\ Len(record') = Len(record)
  /\ \A j \in 1..Len(record) \ {i} : record'[j] = record[j]
  /\ record'[i].rate = record[i].rate

Close(i) ==
  /\ record[i].status # "COMPLETED"
  /\ Change(i)
  /\ record'[i].checkin = record[i].checkin
  /\ record'[i].status # "OPEN"
  /\ UNCHANGED log

\* The logged result is the record but for the precision of its timestamps.
Correct(i) ==
  /\ Change(i)
  /\ Len(log') = Len(log) + 1
  /\ SubSeq(log', 1, Len(log)) = log
  /\ log'[Len(log')].row = i
  /\ log'[Len(log')].before = record[i]
  /\ Same(log'[Len(log')].after, record'[i])

Next == Open \/ \E i \in 1..Len(record) : Close(i) \/ Correct(i)

Spec == Init /\ [][Next]_<<record, log>>
=============================================================================
