------------------------------ MODULE Reports ------------------------------
(***************************************************************************)
(* Timesheet reports: reportsTimesheets and exportTimesheets of             *)
(* services/api/internal/server/reports.go.  A report is four queries, each *)
(* with a snapshot of its own, over attendance_sessions, which check-outs   *)
(* and corrections go on changing.  The days of its filter are days of the  *)
(* organization's time zone; time.Date and Time.AddDate turn them into      *)
(* instants.                                                                *)
(*                                                                         *)
(* The joins with jobs, customers and locations neither add nor remove a    *)
(* row; the filters on customer and location select rows as the one on the  *)
(* worker does, and are left out.                                           *)
(***************************************************************************)
EXTENDS Pay, Sequences, FiniteSets, FiniteSetsExt

CONSTANTS
  Workers,     \* rows of workers
  Rates,       \* hourly rates, in cents
  Worked,      \* working times of sessions, in seconds
  MaxWorked,   \* bound on the working times that pay is compared for
  Checkins,    \* instants of check-ins
  Day,         \* ticks in a day
  Zones,       \* time zones
  Home,        \* organizations.timezone
  Periods,     \* days <<from, to>> an administrator may ask for
  MaxRows,     \* bound on the rows of attendance_sessions
  MaxCommits   \* bound on the transactions that commit during a report

NULL == -1
All == "all"

\* A zone changes its offset once, and is never a day or more from UTC.
ASSUME ReportsAssumption ==
  /\ Rates \subseteq Nat /\ Worked \subseteq Nat /\ Checkins \subseteq Int
  /\ Day \in Nat \ {0}
  /\ Zones \subseteq [change: Int, before: 1 - Day..Day - 1, after: 1 - Day..Day - 1]
  /\ Home \in Zones
  /\ Periods \subseteq (Nat \cup {NULL}) \X (Nat \cup {NULL})
  /\ MaxWorked \in Nat /\ MaxRows \in Nat /\ MaxCommits \in Nat

VARIABLES
  att,       \* attendance_sessions
  report,    \* the report under way or made last
  commits    \* transactions that have committed since its last query

vars == <<att, report, commits>>

Queries == {"records", "totals", "workers", "rates"}

Statuses == {"OPEN", "COMPLETED", "REVIEW_REQUIRED"}

Row ==
  [worker: Workers, checkin: Checkins, rate: Rates, worked: Worked \cup {NULL},
   amount: Nat \cup {NULL}, status: Statuses]

Rows == 1..Len(att)

Init ==
  /\ att = << >>
  /\ report = [pc |-> "none"]
  /\ commits = 0

-----------------------------------------------------------------------------
(* Days and instants.                                                      *)

\* Location.lookup: the offset at an instant.
Offset(z, t) == IF t < z.change THEN z.before ELSE z.after

LocalDay(z, t) == (t + Offset(z, t)) \div Day

LocalClock(z, t) == (t + Offset(z, t)) % Day

\* Slip: the offset is the one in force when UTC has that date and time.
Date_OneLookup(z, day, clock) ==
  LET local == day * Day + clock IN local - Offset(z, local)

\* time.Date: the offset is looked up for the local time read as UTC, and again
\* for the instant this gives.
Date(z, day, clock) ==
  LET local == day * Day + clock
      guess == local - Offset(z, local)
  IN  local - Offset(z, guess)

\* reportDay.
ReportDay(z, day) == Date(z, day, 0)

\* Slip: a day is always as long.
NextDay_Fixed(z, t) == t + Day

\* Time.AddDate(0, 0, 1): the same local time of the next day.
NextDay(z, t) == Date(z, LocalDay(z, t) + 1, LocalClock(z, t))

-----------------------------------------------------------------------------
(* The report.                                                             *)

\* parseTimesheetFilters: a period that ends before it begins is refused, and
\* is no step.
Ask(period, worker, status) ==
  LET from == period[1]
      to   == period[2]
  IN  /\ report.pc = "none"
      /\ from # NULL /\ to # NULL => ReportDay(Home, from) <= ReportDay(Home, to)
      /\ report' = [pc |-> "records", from |-> from, to |-> to, worker |-> worker,
                    status |-> status, gap |-> [q \in Queries |-> 0]]
      /\ commits' = 0
      /\ UNCHANGED att

InPeriod(z, t) ==
  /\ report.from # NULL => t >= ReportDay(z, report.from)
  /\ report.to # NULL => t < NextDay(z, ReportDay(z, report.to))

\* timesheetFilterSQL.
Matches(r) ==
  /\ InPeriod(Home, r.checkin)
  /\ report.worker # All => r.worker = report.worker
  /\ report.status # All => r.status = report.status

Selected == {i \in Rows : Matches(att[i])}

\* A sum passes over NULL.
Total(f) == SumFunction([x \in DOMAIN f |-> IF f[x] = NULL THEN 0 ELSE f[x]])

\* count(*) and the two sums.
Figures(S) ==
  [sessions |-> Cardinality(S), worked |-> Total([i \in S |-> att[i].worked]),
   pay |-> Total([i \in S |-> att[i].amount])]

Read(q, part, next) ==
  LET past == [report EXCEPT !.pc = next, !.gap[q] = commits]
  IN  /\ report.pc = q
      /\ report' = [x \in DOMAIN report \cup {q} |-> IF x = q THEN part ELSE past[x]]
      /\ commits' = 0
      /\ UNCHANGED att

\* loadTimesheets; of each record only what the figures tell.  An export ends
\* with it.
LoadRecords ==
  \E next \in {"totals", "done"} : Read("records", Figures(Selected), next)

\* Slip: the filter on the status is left out.
LoadTotals_AnyStatus ==
  LET rows == {i \in Rows : /\ InPeriod(Home, att[i].checkin)
                            /\ report.worker # All => att[i].worker = report.worker}
  IN  Read("totals", Figures(rows), "workers")

\* loadTimesheetTotals.
LoadTotals == Read("totals", Figures(Selected), "workers")

\* loadWorkerTimesheetSummaries, first query: grouped by worker.
Summaries ==
  [w \in {att[i].worker : i \in Selected} |-> Figures({i \in Selected : att[i].worker = w})]

LoadWorkers == Read("workers", Summaries, "rates")

\* Second query: grouped by worker and rate.  A worker who was in no row of the
\* first is left out.
RatesOf(w) ==
  LET own == {i \in Selected : att[i].worker = w}
  IN  [r \in {att[i].rate : i \in own} |-> Figures({i \in own : att[i].rate = r})]

\* Slip: workers of the second query alone are added.
LoadRates_AnyWorker ==
  Read("rates", [w \in {att[i].worker : i \in Selected} |-> RatesOf(w)], "done")

LoadRates == Read("rates", [w \in DOMAIN report.workers |-> RatesOf(w)], "done")

\* The report is answered, or a query fails: 500, and nothing of it is shown.
End ==
  /\ report.pc # "none"
  /\ report' = [pc |-> "none"]
  /\ commits' = 0
  /\ UNCHANGED att

-----------------------------------------------------------------------------
(* What the other requests do to the table (AttendanceLedger).             *)

Underway == report.pc # "none"

\* A transaction changes the table, perhaps between two queries.
Commits(rows) ==
  /\ Underway => Total(report.gap) + commits < MaxCommits
  /\ att' = rows
  /\ commits' = IF Underway THEN commits + 1 ELSE 0
  /\ UNCHANGED report

\* A row written with SQL: no check-in is recorded (Attendance).
SeedSession(w, t, r) ==
  /\ Len(att) < MaxRows
  /\ Commits(Append(att, [worker |-> w, checkin |-> t, rate |-> r, worked |-> NULL,
                          amount |-> NULL, status |-> "OPEN"]))

Settled(r, s, status) ==
  [r EXCEPT !.worked = s, !.amount = Amount(s, r.rate), !.status = status]

CheckOut(i, s, status) ==
  /\ SimpleProtocol
  /\ att[i].status # "COMPLETED"
  /\ Commits([att EXCEPT ![i] = Settled(@, s, status)])

\* A correction of the check-in, the check-out or both.
Correct(i, t, s) ==
  LET moved == [att[i] EXCEPT !.checkin = t]
  IN  /\ SimpleProtocol
      /\ \/ Commits([att EXCEPT ![i] = Settled(moved, s, "COMPLETED")])
         \/ att[i].worked = NULL /\ Commits([att EXCEPT ![i] = moved])

Next ==
  \/ \E p \in Periods, w \in Workers \cup {All}, s \in Statuses \cup {All} : Ask(p, w, s)
  \/ LoadRecords \/ LoadTotals \/ LoadWorkers \/ LoadRates \/ End
  \/ \E w \in Workers, t \in Checkins, r \in Rates : SeedSession(w, t, r)
  \/ \E i \in Rows, s \in Worked :
       \/ \E status \in Statuses \ {"OPEN"} : CheckOut(i, s, status)
       \/ \E t \in Checkins : Correct(i, t, s)

Spec == Init /\ [][Next]_vars

-----------------------------------------------------------------------------
(* Properties.                                                             *)

Figure == [sessions: Nat, worked: Nat, pay: Nat]

\* Types, and which parts a report has.
TypeOK ==
  /\ att \in Seq(Row)
  /\ commits \in 0..MaxCommits
  /\ report.pc \in Queries \cup {"none", "done"}
  /\ report.pc \in {"workers", "rates"} => report.totals \in Figure
  /\ report.pc = "done" /\ "rates" \in DOMAIN report =>
       DOMAIN report.rates = DOMAIN report.workers

SumOf(f) == [sessions |-> Total([x \in DOMAIN f |-> f[x].sessions]),
             worked |-> Total([x \in DOMAIN f |-> f[x].worked]),
             pay |-> Total([x \in DOMAIN f |-> f[x].pay])]

\* Two parts of a report, n transactions apart: each transaction adds, moves or
\* takes away one session at most, and without one the figures are the same.
Apart(f, g, n) ==
  /\ f.sessions - g.sessions \in -n..n
  /\ n = 0 => f = g

\* The parts of a report agree with each other but for the transactions that
\* committed between their queries.
PartsAgree ==
  LET has(q) == q \in DOMAIN report
  IN  /\ has("totals") => Apart(report.records, report.totals, report.gap.totals)
      /\ has("workers") => Apart(report.totals, SumOf(report.workers), report.gap.workers)
      /\ has("rates") =>
           \A w \in DOMAIN report.workers :
             Apart(report.workers[w], SumOf(report.rates[w]), report.gap.rates)

\* Local midnight of the day comes exactly once.
OneMidnight(z, day) ==
  Cardinality({t \in (day - 1) * Day..(day + 1) * Day : t + Offset(z, t) = day * Day}) = 1

\* Where the clocks are not changed at midnight, a session is in the report of
\* the days it was begun on and in no other, also of days that are longer or
\* shorter.
DayFilterIsTheDays ==
  report.pc = "records" /\ report.from # NULL /\ report.to # NULL =>
    \A z \in Zones :
      (\A d \in {report.from, report.to, report.to + 1} : OneMidnight(z, d)) =>
        \A t \in (report.from - 2) * Day..(report.to + 3) * Day :
          InPeriod(z, t) <=> LocalDay(z, t) \in report.from..report.to

ExactPay(s, r) == RoundDiv(s * r, HourSeconds)

\* The exact pay is a whole number of cents and a half.
Tie(s, r) == (2 * s * r) % (2 * HourSeconds) = HourSeconds

PaidExactly ==
  {r \in Rates : \A s \in 0..MaxWorked :
     \/ Amount(s, r) = ExactPay(s, r)
     \/ Tie(s, r) /\ Amount(s, r) = ExactPay(s, r) - 1}

\* Any working time of a session is paid exactly, rounded half up to the cent;
\* only at an exact half cent may the quotient, rounded first, lose the cent.
\* (docs/PROGRESS.md, M5: money is decimal and never floating point.)
AmountIsExactPay == \A i \in Rows : att[i].rate \in PaidExactly

PaidByTheSecond ==
  {r \in Rates : \A s \in 1..MaxWorked : Amount(s - 1, r) <= Amount(s, r)}

\* A second more of work never pays less.
LongerNeverPaysLess == \A i \in Rows : att[i].rate \in PaidByTheSecond
=============================================================================
