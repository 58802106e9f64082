----------------------------- MODULE Attendance -----------------------------
(***************************************************************************)
(* Attendance: checkIn and checkOut of services/api/internal/server/        *)
(* attendance.go and adminCorrectAttendance of audit.go, over the tables    *)
(* attendance_sessions, attendance_events and audit_logs.                   *)
(*                                                                         *)
(* A check-out and a correction each read the clock, then wait for the      *)
(* session row (SELECT ... FOR UPDATE), and change it in the transaction    *)
(* that holds it: the time they work with may be older than the row.        *)
(* The FOR UPDATE of checkOut locks the joined rows too (worker, job,       *)
(* location, organization), which only removes interleavings: the lock that *)
(* matters here is the one on the session.                                  *)
(* Requests refused before they reach a row (bad input, another worker's    *)
(* session, another organization's) change nothing and are no steps.        *)
(*                                                                         *)
(* Time is in ticks finer than what the database keeps: the API reads       *)
(* nanoseconds, a TIMESTAMPTZ holds microseconds (TicksPerMicro).           *)
(***************************************************************************)
EXTENDS Pay, Sequences, FiniteSets

CONSTANTS
  Procs,           \* request goroutines that may be running at one time
  Rates,           \* hourly rates, in cents
  Instants,        \* instants an administrator may type
  TicksPerMicro,   \* ticks between two values of TIMESTAMPTZ
  MaxAmount,       \* largest NUMERIC(12,2), in cents
  MaxTime,         \* bound on the clock
  MaxSessions,     \* bound on the rows of attendance_sessions
  MaxEvents,       \* bound on the rows of attendance_events
  MaxLogs          \* bound on the rows of audit_logs

ASSUME AttendanceAssumption ==
  /\ Rates \subseteq Nat /\ Instants \subseteq Nat
  /\ TicksPerMicro \in Nat \ {0}
  /\ TicksPerSecond % TicksPerMicro = 0
  /\ MaxAmount \in Nat
  /\ MaxTime \in Nat /\ MaxSessions \in Nat /\ MaxEvents \in Nat /\ MaxLogs \in Nat

VARIABLES
  now,        \* time.Now().UTC()
  att,        \* attendance_sessions
  events,     \* attendance_events, in the order they were committed
  audit,      \* audit_logs, in the order they were committed
  published,  \* the events that were handed to the hub
  req         \* per request: the next statement, and the handler's locals

vars == <<now, att, events, audit, published, req>>

NULL == -1

\* The CHECK constraints on attendance_sessions.status and on
\* attendance_events.verification_status, as far as the API writes them.
SessionStatuses == {"OPEN", "COMPLETED", "REVIEW_REQUIRED"}
Verifications   == {"VERIFIED", "LOW_ACCURACY", "OUTSIDE_GEOFENCE"}

Row ==
  [checkin: Nat, checkout: Nat \cup {NULL}, worked: Nat \cup {NULL},
   amount: Nat \cup {NULL}, rate: Rates, status: SessionStatuses]

Event == [row: Nat, at: Nat, verification: Verifications]
Log   == [row: Nat, before: Row, after: Row]

\* at is the clock the handler read on entry.
Request ==
  [pc: {"idle"}]
    \cup [pc: {"ciInsert"}, at: Nat]
    \cup [pc: {"coLock"}, row: Nat, at: Nat]
    \cup [pc: {"coCommit"}, row: Nat, at: Nat, checkin: Nat]
    \cup [pc: {"coPublish"}, event: Nat]
    \cup [pc: {"acLock"}, row: Nat, checkin: Nat \cup {NULL}, checkout: Nat \cup {NULL}]
    \cup [pc: {"acCommit"}, row: Nat, checkin: Nat \cup {NULL}, checkout: Nat \cup {NULL},
          before: Row]

Rows == 1..Len(att)

Become(p, r) == req' = [req EXCEPT ![p] = r]
Idle(p) == Become(p, [pc |-> "idle"])

Init ==
  /\ now = 0
  /\ att = << >> /\ events = << >> /\ audit = << >>
  /\ published = {}
  /\ req = [p \in Procs |-> [pc |-> "idle"]]

\* What a TIMESTAMPTZ keeps of an instant.
Stored(t) == t - (t % TicksPerMicro)

-----------------------------------------------------------------------------
(* Sessions begin.                                                         *)

OpenRow(t, r) ==
  [checkin |-> Stored(t), checkout |-> NULL, worked |-> NULL, amount |-> NULL,
   rate |-> r, status |-> "OPEN"]

\* A row written with SQL, as the README bootstraps data: no handler.
SeedSession(r) ==
  /\ Len(att) < MaxSessions
  /\ att' = Append(att, OpenRow(now, r))
  /\ UNCHANGED <<now, events, audit, published, req>>

\* checkIn up to its INSERT.  The location, the assignment and the accuracy
\* decide what is inserted and are chosen there.
BeginCheckIn(p) ==
  /\ req[p].pc = "idle"
  /\ Become(p, [pc |-> "ciInsert", at |-> now])
  /\ UNCHANGED <<now, att, events, audit, published>>

\* The session is inserted with the verification for its status.  A status
\* the CHECK constraint does not list fails the INSERT: 500, rolled back.
InsertCheckIn(p) ==
  /\ req[p].pc = "ciInsert"
  /\ \E v \in Verifications, r \in Rates :
       IF v \in SessionStatuses
       THEN /\ Len(att) < MaxSessions /\ Len(events) < MaxEvents
            /\ att' = Append(att, [OpenRow(req[p].at, r) EXCEPT !.status = v])
            /\ events' = Append(events, [row |-> Len(att) + 1, at |-> Stored(req[p].at),
                                         verification |-> v])
            /\ Become(p, [pc |-> "coPublish", event |-> Len(events) + 1])
       ELSE /\ UNCHANGED <<att, events>>
            /\ Idle(p)
  /\ UNCHANGED <<now, audit, published>>

-----------------------------------------------------------------------------
(* checkOut.                                                               *)

BeginCheckOut(p, i) ==
  /\ req[p].pc = "idle"
  /\ Len(events) + Cardinality({q \in Procs : req[q].pc \in {"coLock", "coCommit"}})
       < MaxEvents
  /\ Become(p, [pc |-> "coLock", row |-> i, at |-> now])
  /\ UNCHANGED <<now, att, events, audit, published>>

\* Slip: the row read without FOR UPDATE.
Unlocked_NoForUpdate(p, i) == TRUE

\* No other transaction holds the session row.
Unlocked(p, i) ==
  ~ \E q \in Procs \ {p} : req[q].pc \in {"coCommit", "acCommit"} /\ req[q].row = i

\* Slip: the WHERE clause without its condition on status.
CanCheckOut_AnyStatus(i) == TRUE

CanCheckOut(i) == att[i].status \in {"OPEN", "REVIEW_REQUIRED"}

\* The row is locked and its version at that time qualifies or not.  (A row
\* that did not qualify when the statement began never will: CompletedStays.)
LockForCheckOut(p) ==
  LET i == req[p].row
  IN  /\ req[p].pc = "coLock"
      /\ Unlocked(p, i)
      /\ IF CanCheckOut(i)
         THEN Become(p, [pc |-> "coCommit", row |-> i, at |-> req[p].at,
                         checkin |-> att[i].checkin])
         ELSE Idle(p)
      /\ UNCHANGED <<now, att, events, audit, published>>

\* Slip: the event handed to the hub before the commit, under the number it
\* will have.
CheckOut_PublishFirst(p) ==
  /\ req[p].pc = "coCommit"
  /\ published' = published \cup {Len(events) + 1}
  /\ Idle(p)
  /\ UNCHANGED <<now, att, events, audit>>

\* Slip: the check of the sign forgotten.
Unpayable_Negative(worked, amount) == amount > MaxAmount

Unpayable(worked, amount) == worked < 0 \/ amount > MaxAmount

\* worked < 0, an amount that NUMERIC(12,2) does not hold and a statement that
\* PostgreSQL refuses are errors: 500, rolled back.
CheckOut(p) ==
  LET i      == req[p].row
      worked == Seconds(req[p].at - req[p].checkin)
      amount == Amount(worked, att[i].rate)
  IN  /\ req[p].pc = "coCommit"
      /\ IF ~SimpleProtocol \/ Unpayable(worked, amount)
         THEN /\ UNCHANGED <<att, events>>
              /\ Idle(p)
         ELSE \E v \in Verifications :
                /\ att' = [att EXCEPT ![i] =
                             [@ EXCEPT !.checkout = Stored(req[p].at),
                                       !.worked = worked, !.amount = amount,
                                       !.status = IF v = "VERIFIED" THEN "COMPLETED"
                                                  ELSE "REVIEW_REQUIRED"]]
                /\ events' = Append(events, [row |-> i, at |-> Stored(req[p].at),
                                             verification |-> v])
                /\ Become(p, [pc |-> "coPublish", event |-> Len(events) + 1])
      /\ UNCHANGED <<now, audit, published>>

\* hub.Publish, after the commit and outside any transaction.
Publish(p) ==
  /\ req[p].pc = "coPublish"
  /\ published' = published \cup {req[p].event}
  /\ Idle(p)
  /\ UNCHANGED <<now, att, events, audit>>

-----------------------------------------------------------------------------
(* adminCorrectAttendance.                                                 *)

\* At least one of the two timestamps is given, and none is in the future.
BeginCorrection(p, i, checkin, checkout) ==
  /\ req[p].pc = "idle"
  /\ checkin # NULL \/ checkout # NULL
  /\ checkin <= now /\ checkout <= now
  /\ Len(audit) + Cardinality({q \in Procs : req[q].pc \in {"acLock", "acCommit"}}) < MaxLogs
  /\ Become(p, [pc |-> "acLock", row |-> i, checkin |-> checkin, checkout |-> checkout])
  /\ UNCHANGED <<now, att, events, audit, published>>

\* attendanceSnapshotForUpdate.
LockForCorrection(p) ==
  LET i == req[p].row
  IN  /\ req[p].pc = "acLock"
      /\ Unlocked(p, i)
      /\ Become(p, [pc |-> "acCommit", row |-> i, checkin |-> req[p].checkin,
                    checkout |-> req[p].checkout, before |-> att[i]])
      /\ UNCHANGED <<now, att, events, audit, published>>

\* The record with the timestamps that were given, as Go computes them.
Corrected(before, checkin, checkout) ==
  [before EXCEPT !.checkin  = IF checkin = NULL THEN @ ELSE checkin,
                 !.checkout = IF checkout = NULL THEN @ ELSE checkout]

\* Slip: what was worked is computed only when a check-out is given.
Recomputed_Partly(before, after) ==
  IF after.checkout = before.checkout THEN after
  ELSE LET worked == Seconds(after.checkout - after.checkin)
       IN  [after EXCEPT !.worked = worked, !.amount = Amount(worked, after.rate),
                         !.status = "COMPLETED"]

\* Hours, amount and status that follow from the timestamps.
Recomputed(before, after) ==
  IF after.checkout = NULL THEN [after EXCEPT !.worked = NULL, !.amount = NULL]
  ELSE LET worked == Seconds(after.checkout - after.checkin)
       IN  [after EXCEPT !.worked = worked, !.amount = Amount(worked, after.rate),
                         !.status = "COMPLETED"]

TimestampsChanged(before, after) ==
  before.checkin # after.checkin \/ before.checkout # after.checkout

\* What the UPDATE leaves in the table of the record Go computed.
AsStored(row) ==
  [row EXCEPT !.checkin = Stored(@), !.checkout = IF @ = NULL THEN NULL ELSE Stored(@)]

\* Timestamps that are unchanged or in the wrong order are refused (400), an
\* amount too large fails (500).
Acceptable(before, after) ==
  /\ TimestampsChanged(before, after)
  /\ after.checkout # NULL => /\ after.checkout > after.checkin
                              /\ Recomputed(before, after).amount <= MaxAmount

\* The UPDATE, which PostgreSQL may refuse (500), the audit log and the commit.
Correct(p) ==
  LET i      == req[p].row
      before == req[p].before
      after  == Corrected(before, req[p].checkin, req[p].checkout)
      final  == Recomputed(before, after)
  IN  /\ req[p].pc = "acCommit"
      /\ IF SimpleProtocol /\ Acceptable(before, after)
         THEN /\ att' = [att EXCEPT ![i] = AsStored(final)]
              /\ audit' = Append(audit, [row |-> i, before |-> before, after |-> final])
         ELSE UNCHANGED <<att, audit>>
      /\ Idle(p)
      /\ UNCHANGED <<now, events, published>>

-----------------------------------------------------------------------------
(* Around the handlers.                                                    *)

\* A statement fails, the client goes away or the process dies: a transaction
\* is rolled back, and an event that was not yet handed over is lost.
Abort(p) ==
  /\ req[p].pc # "idle"
  /\ Idle(p)
  /\ UNCHANGED <<now, att, events, audit, published>>

Tick ==
  /\ now < MaxTime
  /\ now' = now + 1
  /\ UNCHANGED <<att, events, audit, published, req>>

Step(p) ==
  \/ InsertCheckIn(p)
  \/ LockForCheckOut(p) \/ CheckOut(p) \/ Publish(p)
  \/ LockForCorrection(p) \/ Correct(p)

Next ==
  \/ \E p \in Procs :
       \/ Step(p) \/ Abort(p) \/ BeginCheckIn(p)
       \/ \E i \in Rows :
            \/ BeginCheckOut(p, i)
            \/ \E ci, co \in Instants \cup {NULL} : BeginCorrection(p, i, ci, co)
  \/ \E r \in Rates : SeedSession(r)
  \/ Tick

Spec == Init /\ [][Next]_vars

-----------------------------------------------------------------------------
(* Properties.                                                             *)

TypeOK ==
  /\ now \in Nat
  /\ att \in Seq(Row)
  /\ events \in Seq(Event)
  /\ audit \in Seq(Log)
  /\ published \subseteq 1..Len(events)
  /\ req \in [Procs -> Request]

\* Durations that instants stored as d apart can have had.
Durations(d) == (d - TicksPerMicro + 1)..(d + TicksPerMicro - 1)

\* The hours of a session are those between its two stored timestamps, up to
\* what storing them loses, and its amount is the pay for those hours at the
\* session's own rate - whichever mixture of check-outs and corrections led
\* there.  A session without a check-out has neither.
PayFollowsTimes ==
  \A i \in Rows :
    LET s == att[i]
    IN  IF s.checkout = NULL THEN s.worked = NULL /\ s.amount = NULL
        ELSE /\ \E d \in Durations(s.checkout - s.checkin) : s.worked = Seconds(d)
             /\ s.amount = Amount(s.worked, s.rate)

\* A session is complete or under review only with a check-out, and a check-out
\* is never before its check-in by a second or more.
CheckoutSettles ==
  \A i \in Rows :
    LET s == att[i]
    IN  /\ s.status = "OPEN" <=> s.checkout = NULL
        /\ s.checkout # NULL => s.checkout > s.checkin - TicksPerSecond - (TicksPerMicro - 1)

\* A completed session stays completed, and only a logged correction changes it.
CompletedStays ==
  [][\A i \in Rows : att[i].status = "COMPLETED" /\ att'[i] # att[i] =>
       /\ att'[i].status = "COMPLETED"
       /\ Len(audit') = Len(audit) + 1 /\ audit'[Len(audit')].row = i]_vars

\* attendance.go and audit.go implement the ledger: every change of a session
\* starts from the values the one before it left.
Ledger == INSTANCE AttendanceLedger WITH record <- att, log <- audit

ImplementsLedger == Ledger!Spec

-----------------------------------------------------------------------------
(* What the documentation says and the code does not do.                   *)

\* A valid check-in is recorded (docs/PROGRESS.md, M4).
CheckInRecorded ==
  [][\A p \in Procs : InsertCheckIn(p) => Len(att') = Len(att) + 1]_vars

\* A check-out whose pay can be computed is recorded (docs/PROGRESS.md, M4).
CheckOutRecorded ==
  [][\A p \in Procs :
       LET worked == Seconds(req[p].at - req[p].checkin)
       IN  CheckOut(p) /\ ~Unpayable(worked, Amount(worked, att[req[p].row].rate))
             => events' # events]_vars
=============================================================================
