-------------------------- MODULE AttendanceProofs --------------------------
(***************************************************************************)
(* Proofs about Attendance, for any goroutines, rates, precisions of the    *)
(* clock and bounds, and that it implements AttendanceLedger.               *)
(***************************************************************************)
EXTENDS Attendance, SequenceTheorems, TLAPS

-----------------------------------------------------------------------------
(* Time and pay.                                                           *)

\* What a column keeps of an instant is that instant or less than a
\* microsecond before it.
LEMMA StoredBounds ==
  ASSUME NEW t \in Nat
  PROVE  /\ Stored(t) \in Nat /\ Stored(t) <= t
         /\ t <= Stored(t) + TicksPerMicro - 1
BY AttendanceAssumption DEF Stored

\* Go cuts towards zero, so only a second or more of negative time shows.
LEMMA SecondsBounds ==
  ASSUME NEW d \in Int
  PROVE  /\ Seconds(d) \in Int
         /\ d >= 0 => Seconds(d) \in Nat
         /\ Seconds(d) >= 0 => d > -TicksPerSecond
<1>1. CASE d >= 0
  BY <1>1, PayAssumption DEF Seconds
<1>2. CASE d < 0
  <2>1. -d \in Nat /\ Seconds(d) = -((-d) \div TicksPerSecond)
    BY <1>2 DEF Seconds
  <2>2. (-d) \div TicksPerSecond \in Nat
    BY <2>1, PayAssumption
  <2>3. (-d) \div TicksPerSecond <= 0 => -d < TicksPerSecond
    BY <2>1, PayAssumption
  <2> QED
    BY <1>2, <2>1, <2>2, <2>3, PayAssumption
<1> QED
  BY <1>1, <1>2

\* The duration between two instants is among those that their stored values
\* can have had, whether one was stored before or both are now.
LEMMA DurationStored ==
  ASSUME NEW s \in Nat, NEW t \in Nat
  PROVE  /\ t - s \in Durations(Stored(t) - s)
         /\ t - s \in Durations(Stored(t) - Stored(s))
         /\ t - s \in Durations(t - Stored(s))
<1>1. /\ Stored(s) \in Nat /\ Stored(s) <= s /\ s <= Stored(s) + TicksPerMicro - 1
      /\ Stored(t) \in Nat /\ Stored(t) <= t /\ t <= Stored(t) + TicksPerMicro - 1
  BY StoredBounds
<1>2. TicksPerMicro \in Nat \ {0}
  BY AttendanceAssumption
<1> QED
  BY <1>1, <1>2 DEF Durations

\* A payable duration ends less than a second and a microsecond before it
\* begins, as stored.
LEMMA CheckoutStored ==
  ASSUME NEW s \in Nat, NEW t \in Nat, t - s > -TicksPerSecond
  PROVE  /\ Stored(t) > s - TicksPerSecond - (TicksPerMicro - 1)
         /\ Stored(t) > Stored(s) - TicksPerSecond - (TicksPerMicro - 1)
<1>1. /\ Stored(s) \in Nat /\ Stored(s) <= s
      /\ Stored(t) \in Nat /\ t <= Stored(t) + TicksPerMicro - 1
  BY StoredBounds
<1>2. TicksPerMicro \in Nat \ {0} /\ TicksPerSecond \in Nat \ {0}
  BY AttendanceAssumption, PayAssumption
<1> QED
  BY <1>1, <1>2

\* Pay for a working time is an amount.
LEMMA AmountNat ==
  ASSUME NEW s \in Nat, NEW r \in Rates
  PROVE  Amount(s, r) \in Nat
<1>1. ASSUME NEW m \in Nat, NEW n \in Nat \ {0} PROVE RoundDiv(m, n) \in Nat
  <2>1. 2 * m + n \in Nat /\ 2 * n \in Nat \ {0}
    OBVIOUS
  <2> QED
    BY <2>1 DEF RoundDiv
<1>2. s * DivScale \in Nat /\ DivScale \in Nat \ {0} /\ r \in Nat
  BY PayAssumption, AttendanceAssumption
<1>3. RoundDiv(s * DivScale, HourSeconds) \in Nat
  BY <1>1, <1>2 DEF HourSeconds
<1>4. RoundDiv(s * DivScale, HourSeconds) * r \in Nat
  BY <1>2, <1>3
<1> QED
  BY <1>1, <1>2, <1>4 DEF Amount

-----------------------------------------------------------------------------
(* Tables.                                                                 *)

AddedRow(s, t, e) ==
  /\ Len(t) = Len(s) + 1
  /\ \A i \in 1..Len(s) : t[i] = s[i]
  /\ t[Len(s) + 1] = e

ChangedRow(s, t, k, e) ==
  /\ Len(t) = Len(s)
  /\ \A i \in 1..Len(s) : i # k => t[i] = s[i]
  /\ t[k] = e

\* Rows have the type of their table.
LEMMA RowAt ==
  ASSUME NEW S, NEW s \in Seq(S)
  PROVE  Len(s) \in Nat /\ \A i \in 1..Len(s) : s[i] \in S
BY LenProperties, ElementOfSeq

\* An INSERT leaves the rows there were.
LEMMA InsertRow ==
  ASSUME NEW S, NEW s \in Seq(S), NEW e \in S, NEW t, t = Append(s, e)
  PROVE  /\ t \in Seq(S) /\ AddedRow(s, t, e)
         /\ SubSeq(t, 1, Len(s)) = s
<1>1. t \in Seq(S) /\ AddedRow(s, t, e) /\ Len(s) \in Nat
  BY AppendProperties, LenProperties DEF AddedRow
<1>2. \A i \in 1..Len(s) : t[i] \in S
  BY <1>1, ElementOfSeq DEF AddedRow
<1>3. /\ SubSeq(t, 1, Len(s)) \in Seq(S)
      /\ Len(SubSeq(t, 1, Len(s))) = Len(s)
      /\ \A i \in 1..Len(s) : SubSeq(t, 1, Len(s))[i] = t[i]
  BY <1>1, <1>2, SubSeqProperties
<1>4. SubSeq(t, 1, Len(s)) = s
  BY <1>1, <1>3, SeqEqual DEF AddedRow
<1> QED
  BY <1>1, <1>4

\* An UPDATE of one row.
LEMMA UpdateRow ==
  ASSUME NEW S, NEW s \in Seq(S), NEW k \in 1..Len(s), NEW e \in S,
         NEW t, t = [s EXCEPT ![k] = e]
  PROVE  t \in Seq(S) /\ ChangedRow(s, t, k, e)
<1>1. t \in Seq(S) /\ Len(t) = Len(s)
  BY ExceptSeq
<1>2. \A i \in 1..Len(s) : t[i] = IF i = k THEN e ELSE s[i]
  BY ExceptSeq
<1> QED
  BY <1>1, <1>2 DEF ChangedRow

-----------------------------------------------------------------------------
(* The invariant.                                                          *)

\* PayFollowsTimes and CheckoutSettles, of one session.
PaidFor(s) ==
  IF s.checkout = NULL THEN s.worked = NULL /\ s.amount = NULL
  ELSE /\ \E d \in Durations(s.checkout - s.checkin) : s.worked = Seconds(d)
       /\ s.amount = Amount(s.worked, s.rate)

Settled(s) ==
  /\ s.status = "OPEN" <=> s.checkout = NULL
  /\ s.checkout # NULL => s.checkout > s.checkin - TicksPerSecond - (TicksPerMicro - 1)

Holds(r) == r.pc \in {"coCommit", "acCommit"}

\* What a request was told by its earlier statements still holds; above all,
\* the record it read from the row it holds is the one that is there.
Knows(r, sessions, log) ==
  /\ r.pc \in {"coLock", "coCommit", "acLock", "acCommit"} => r.row \in 1..Len(sessions)
  /\ r.pc = "coPublish" => r.event \in 1..Len(log)
  /\ r.pc = "coCommit" => /\ sessions[r.row].checkin = r.checkin
                          /\ sessions[r.row].status # "COMPLETED"
  /\ r.pc = "acCommit" => sessions[r.row] = r.before

\* No two requests hold one row.
HoldersApart ==
  \A p, q \in Procs : p # q /\ Holds(req[p]) /\ Holds(req[q]) => req[p].row # req[q].row

AttendanceInv ==
  /\ TypeOK
  /\ \A i \in Rows : PaidFor(att[i]) /\ Settled(att[i])
  /\ \A p \in Procs : Knows(req[p], att, events)
  /\ HoldersApart

-----------------------------------------------------------------------------
(* Requests.                                                               *)

\* The fields of a request, by its statement.
LEMMA RequestFields ==
  ASSUME NEW r \in Request
  PROVE  /\ r.pc \in {"idle", "ciInsert", "coLock", "coCommit", "coPublish", "acLock", "acCommit"}
         /\ r.pc \in {"ciInsert", "coLock", "coCommit"} => r.at \in Nat
         /\ r.pc \in {"coLock", "coCommit", "acLock", "acCommit"} => r.row \in Nat
         /\ r.pc = "coCommit" => r.checkin \in Nat
         /\ r.pc = "coPublish" => r.event \in Nat
         /\ r.pc \in {"acLock", "acCommit"} =>
              r.checkin \in Nat \cup {NULL} /\ r.checkout \in Nat \cup {NULL}
         /\ r.pc = "acCommit" => r.before \in Row
BY DEF Request

LEMMA IdleRequest == [pc |-> "idle"] \in Request
BY DEF Request

LEMMA NothingKnown ==
  ASSUME NEW r, r.pc \in {"idle", "ciInsert"}, NEW a, NEW e
  PROVE  Knows(r, a, e) /\ ~Holds(r)
BY DEF Knows, Holds

\* One request goes on.
LEMMA RequestGoesOn ==
  ASSUME AttendanceInv, NEW p \in Procs, NEW r \in Request, Become(p, r),
         Knows(r, att', events'),
         \A q \in Procs \ {p} : Knows(req[q], att', events'),
         Holds(r) => \A q \in Procs \ {p} : Holds(req[q]) => req[q].row # r.row
  PROVE  /\ req' \in [Procs -> Request]
         /\ \A q \in Procs : Knows(req'[q], att', events')
         /\ HoldersApart'
<1>1. req' \in [Procs -> Request] /\ req'[p] = r /\ \A q \in Procs \ {p} : req'[q] = req[q]
  BY DEF AttendanceInv, TypeOK, Become
<1>2. \A q \in Procs : Knows(req'[q], att', events')
  BY <1>1
<1>3. HoldersApart'
  BY <1>1 DEF AttendanceInv, HoldersApart
<1> QED
  BY <1>1, <1>2, <1>3

\* While the tables stay, nobody's knowledge ages.
LEMMA QuietStep ==
  ASSUME AttendanceInv, UNCHANGED <<att, events, audit>>, now' \in Nat,
         published' \subseteq 1..Len(events),
         NEW p \in Procs, NEW r \in Request, Become(p, r), Knows(r, att, events),
         Holds(r) => \A q \in Procs \ {p} : Holds(req[q]) => req[q].row # r.row
  PROVE  AttendanceInv'
<1>1. Knows(r, att', events') /\ \A q \in Procs \ {p} : Knows(req[q], att', events')
  BY DEF AttendanceInv
<1>2. /\ req' \in [Procs -> Request] /\ HoldersApart'
      /\ \A q \in Procs : Knows(req'[q], att', events')
  BY <1>1, RequestGoesOn
<1>3. TypeOK'
  BY <1>2 DEF AttendanceInv, TypeOK
<1>4. \A i \in Rows' : PaidFor(att'[i]) /\ Settled(att'[i])
  BY DEF AttendanceInv, Rows
<1> QED
  BY <1>2, <1>3, <1>4 DEF AttendanceInv

\* A request that ends and changes nothing.
LEMMA IdleStep ==
  ASSUME AttendanceInv, UNCHANGED <<att, events, audit>>, now' \in Nat,
         published' \subseteq 1..Len(events), NEW p \in Procs, Idle(p)
  PROVE  AttendanceInv'
<1> DEFINE idle == [pc |-> "idle"]
<1>1. idle.pc = "idle" /\ idle \in Request /\ Become(p, idle)
  BY IdleRequest DEF Idle
<1> HIDE DEF idle
<1> QED
  BY <1>1, NothingKnown, QuietStep

-----------------------------------------------------------------------------
(* Steps that leave the tables alone.                                      *)

\* A check-in comes no further than its INSERT: no verification it would write
\* is a status of a session.
LEMMA CheckInKeeps ==
  ASSUME AttendanceInv, NEW p \in Procs, BeginCheckIn(p) \/ InsertCheckIn(p)
  PROVE  AttendanceInv'
<1>1. now \in Nat /\ published \subseteq 1..Len(events)
  BY DEF AttendanceInv, TypeOK
<1>2. CASE BeginCheckIn(p)
  <2> DEFINE r == [pc |-> "ciInsert", at |-> now]
  <2>1. r.pc = "ciInsert" /\ r \in Request /\ Become(p, r)
    BY <1>1, <1>2 DEF BeginCheckIn, Request
  <2> HIDE DEF r
  <2> QED
    BY <1>1, <1>2, <2>1, NothingKnown, QuietStep DEF BeginCheckIn
<1>3. CASE InsertCheckIn(p)
  <2>1. UNCHANGED <<att, events>> /\ Idle(p)
    BY <1>3 DEF InsertCheckIn, Verifications, SessionStatuses
  <2> QED
    BY <1>1, <1>3, <2>1, IdleStep DEF InsertCheckIn
<1> QED
  BY <1>2, <1>3

LEMMA BeginCheckOutKeeps ==
  ASSUME AttendanceInv, NEW p \in Procs, NEW i \in Rows, BeginCheckOut(p, i)
  PROVE  AttendanceInv'
<1> DEFINE r == [pc |-> "coLock", row |-> i, at |-> now]
<1>1. /\ now \in Nat /\ published \subseteq 1..Len(events) /\ i \in Nat
  BY DEF AttendanceInv, TypeOK, Rows
<1>2. r \in Request /\ Become(p, r) /\ Knows(r, att, events) /\ ~Holds(r)
  BY <1>1 DEF BeginCheckOut, Request, Knows, Holds, Rows
<1> HIDE DEF r
<1> QED
  BY <1>1, <1>2, QuietStep DEF BeginCheckOut

LEMMA BeginCorrectionKeeps ==
  ASSUME AttendanceInv, NEW p \in Procs, NEW i \in Rows,
         NEW ci \in Instants \cup {NULL}, NEW co \in Instants \cup {NULL},
         BeginCorrection(p, i, ci, co)
  PROVE  AttendanceInv'
<1> DEFINE r == [pc |-> "acLock", row |-> i, checkin |-> ci, checkout |-> co]
<1>1. now \in Nat /\ published \subseteq 1..Len(events) /\ i \in Nat
  BY DEF AttendanceInv, TypeOK, Rows
<1>2. ci \in Nat \cup {NULL} /\ co \in Nat \cup {NULL}
  BY AttendanceAssumption
<1>3. r \in Request /\ Become(p, r) /\ Knows(r, att, events) /\ ~Holds(r)
  BY <1>1, <1>2 DEF BeginCorrection, Request, Knows, Holds, Rows
<1> HIDE DEF r
<1> QED
  BY <1>1, <1>3, QuietStep DEF BeginCorrection

\* Whoever gets the row is alone with it, and has read it as it is.
LEMMA LockForCheckOutKeeps ==
  ASSUME AttendanceInv, NEW p \in Procs, LockForCheckOut(p)
  PROVE  AttendanceInv'
<1> DEFINE i == req[p].row
           r == [pc |-> "coCommit", row |-> i, at |-> req[p].at, checkin |-> att[i].checkin]
<1>1. /\ now \in Nat /\ published \subseteq 1..Len(events)
      /\ req[p] \in Request /\ req[p].pc = "coLock" /\ Unlocked(p, i)
      /\ UNCHANGED <<now, att, events, audit, published>>
  BY DEF LockForCheckOut, AttendanceInv, TypeOK
<1>2. CASE ~CanCheckOut(i)
  BY <1>1, <1>2, IdleStep DEF LockForCheckOut
<1>3. CASE CanCheckOut(i)
  <2>1. i \in 1..Len(att) /\ i \in Nat /\ req[p].at \in Nat
    BY <1>1, RequestFields DEF AttendanceInv, Knows
  <2>2. att[i] \in Row /\ att[i].checkin \in Nat
    <3>1. att[i] \in Row
      BY <2>1, RowAt DEF AttendanceInv, TypeOK
    <3> QED
      BY <3>1 DEF Row
  <2>3. r \in Request
    BY <2>1, <2>2 DEF Request
  <2>4. Knows(r, att, events)
    BY <1>3, <2>1 DEF Knows, CanCheckOut
  <2>5. \A q \in Procs \ {p} : Holds(req[q]) => req[q].row # r.row
    BY <1>1 DEF Unlocked, Holds
  <2>6. Become(p, r)
    BY <1>3 DEF LockForCheckOut
  <2> HIDE DEF r
  <2> QED
    BY <1>1, <2>3, <2>4, <2>5, <2>6, QuietStep
<1> QED
  BY <1>2, <1>3

LEMMA LockForCorrectionKeeps ==
  ASSUME AttendanceInv, NEW p \in Procs, LockForCorrection(p)
  PROVE  AttendanceInv'
<1> DEFINE i == req[p].row
           r == [pc |-> "acCommit", row |-> i, checkin |-> req[p].checkin,
                 checkout |-> req[p].checkout, before |-> att[i]]
<1>1. /\ now \in Nat /\ published \subseteq 1..Len(events)
      /\ req[p] \in Request /\ req[p].pc = "acLock" /\ Unlocked(p, i)
      /\ UNCHANGED <<now, att, events, audit, published>> /\ Become(p, r)
  BY DEF LockForCorrection, AttendanceInv, TypeOK
<1>2. /\ i \in 1..Len(att) /\ i \in Nat
      /\ req[p].checkin \in Nat \cup {NULL} /\ req[p].checkout \in Nat \cup {NULL}
  BY <1>1, RequestFields DEF AttendanceInv, Knows
<1>3. att[i] \in Row
  BY <1>2, RowAt DEF AttendanceInv, TypeOK
<1>4. r \in Request
  BY <1>2, <1>3 DEF Request
<1>5. Knows(r, att, events)
  BY <1>2 DEF Knows
<1>6. \A q \in Procs \ {p} : Holds(req[q]) => req[q].row # r.row
  BY <1>1 DEF Unlocked, Holds
<1> HIDE DEF r
<1> QED
  BY <1>1, <1>4, <1>5, <1>6, QuietStep

LEMMA PublishKeeps ==
  ASSUME AttendanceInv, NEW p \in Procs, Publish(p)
  PROVE  AttendanceInv'
<1>1. req[p].event \in 1..Len(events) /\ published \subseteq 1..Len(events) /\ now \in Nat
  BY DEF Publish, AttendanceInv, TypeOK, Knows
<1> QED
  BY <1>1, IdleStep DEF Publish

-----------------------------------------------------------------------------
(* Steps that change the tables.                                           *)

\* A session begins.
Opens == \E r \in Rates : att' = Append(att, OpenRow(now, r)) /\ UNCHANGED audit

\* A session that is not completed gets its check-out.
Closes(i, w) ==
  /\ ChangedRow(att, att', i, w)
  /\ att[i].status # "COMPLETED"
  /\ w.status # "OPEN" /\ w.checkin = att[i].checkin /\ w.rate = att[i].rate
  /\ UNCHANGED audit

\* A session is corrected from final, the record in the log, and back in the
\* table as w.
Corrects(i, w, final) ==
  /\ ChangedRow(att, att', i, w)
  /\ att[i].status = "COMPLETED" => w.status = "COMPLETED"
  /\ audit' = Append(audit, [row |-> i, before |-> att[i], after |-> final])
  /\ w.rate = att[i].rate
  /\ Ledger!Same(final, w)

\* The holder of a row changes it: others wait for it and know nothing of it.
LEMMA HolderChanges ==
  ASSUME AttendanceInv, NEW p \in Procs, Holds(req[p]), NEW w \in Row,
         att' \in Seq(Row), ChangedRow(att, att', req[p].row, w), PaidFor(w), Settled(w),
         events' \in Seq(Event), Len(events) <= Len(events'), audit' \in Seq(Log),
         UNCHANGED <<now, published>>,
         NEW r \in Request, Become(p, r), ~Holds(r), Knows(r, att', events')
  PROVE  AttendanceInv'
<1> DEFINE i == req[p].row
<1>1. /\ Len(att) \in Nat /\ Len(events) \in Nat /\ Len(events') \in Nat
      /\ i \in 1..Len(att)
  BY RowAt DEF AttendanceInv, TypeOK, Knows, Holds
<1>2. ASSUME NEW q \in Procs \ {p} PROVE Knows(req[q], att', events')
  <2>1. Knows(req[q], att, events) /\ (Holds(req[q]) => req[q].row # i)
    BY DEF AttendanceInv, HoldersApart
  <2> QED
    BY <1>1, <2>1 DEF Knows, ChangedRow, Holds
<1>3. /\ req' \in [Procs -> Request] /\ HoldersApart'
      /\ \A q \in Procs : Knows(req'[q], att', events')
  BY <1>2, RequestGoesOn
<1>4. published' \subseteq 1..Len(events')
  BY <1>1 DEF AttendanceInv, TypeOK
<1>5. TypeOK'
  BY <1>3, <1>4 DEF AttendanceInv, TypeOK
<1>6. \A j \in Rows' : PaidFor(att'[j]) /\ Settled(att'[j])
  BY <1>1 DEF AttendanceInv, Rows, ChangedRow
<1> QED
  BY <1>3, <1>5, <1>6 DEF AttendanceInv

\* checkOut: the hours are those from the check-in that is in the row to the
\* clock, of which the row keeps all but less than a microsecond.
LEMMA CheckOutCloses ==
  ASSUME AttendanceInv, NEW p \in Procs, CheckOut(p)
  PROVE  /\ AttendanceInv'
         /\ \/ UNCHANGED <<att, audit>>
            \/ \E i \in Rows, w \in Row : Closes(i, w)
<1> DEFINE i == req[p].row
           s == att[i]
           t == req[p].at
           worked == Seconds(t - req[p].checkin)
           amount == Amount(worked, s.rate)
<1>1. /\ now \in Nat /\ published \subseteq 1..Len(events)
      /\ req[p] \in Request /\ req[p].pc = "coCommit" /\ Knows(req[p], att, events)
      /\ UNCHANGED <<now, audit, published>>
  BY DEF CheckOut, AttendanceInv, TypeOK
<1>2. CASE ~SimpleProtocol \/ Unpayable(worked, amount)
  <2>1. UNCHANGED <<att, events>> /\ Idle(p)
    BY <1>2 DEF CheckOut
  <2> QED
    BY <1>1, <2>1, IdleStep
<1>3. CASE SimpleProtocol /\ ~Unpayable(worked, amount)
  <2>1. PICK v \in Verifications :
          /\ att' = [att EXCEPT ![i] =
                       [s EXCEPT !.checkout = Stored(t), !.worked = worked, !.amount = amount,
                                 !.status = IF v = "VERIFIED" THEN "COMPLETED"
                                            ELSE "REVIEW_REQUIRED"]]
          /\ events' = Append(events, [row |-> i, at |-> Stored(t), verification |-> v])
          /\ Become(p, [pc |-> "coPublish", event |-> Len(events) + 1])
    BY <1>3 DEF CheckOut
  <2> DEFINE w == [s EXCEPT !.checkout = Stored(t), !.worked = worked, !.amount = amount,
                            !.status = IF v = "VERIFIED" THEN "COMPLETED" ELSE "REVIEW_REQUIRED"]
             e == [row |-> i, at |-> Stored(t), verification |-> v]
             r == [pc |-> "coPublish", event |-> Len(events) + 1]
  <2>2. /\ i \in 1..Len(att) /\ i \in Nat /\ t \in Nat /\ req[p].checkin \in Nat
        /\ s.checkin = req[p].checkin /\ s.status # "COMPLETED"
    BY <1>1, RequestFields DEF Knows
  <2>3. s \in Row /\ att \in Seq(Row) /\ events \in Seq(Event) /\ Len(events) \in Nat
    BY <2>2, RowAt DEF AttendanceInv, TypeOK
  <2>4. s.rate \in Rates /\ s.checkin \in Nat
    BY <2>3 DEF Row
  <2>5. worked \in Int /\ worked >= 0
    <3>1. t - req[p].checkin \in Int
      BY <2>2
    <3>2. worked \in Int
      BY <3>1, SecondsBounds
    <3>3. ~(worked < 0)
      BY <1>3 DEF Unpayable
    <3> QED
      BY <3>2, <3>3
  <2>6. worked \in Nat /\ amount \in Nat
    BY <2>4, <2>5, AmountNat
  <2>7. Stored(t) \in Nat /\ Stored(t) <= t /\ t <= Stored(t) + TicksPerMicro - 1
    BY <2>2, StoredBounds
  <2>8. w \in Row
    BY <2>3, <2>6, <2>7 DEF Row, SessionStatuses
  <2>9. /\ w.checkin = s.checkin /\ w.rate = s.rate /\ w.checkout = Stored(t)
        /\ w.worked = worked /\ w.amount = amount /\ w.status \in {"COMPLETED", "REVIEW_REQUIRED"}
    BY <2>3 DEF Row
  <2>10. t - s.checkin \in Int /\ t - s.checkin > -TicksPerSecond /\ worked = Seconds(t - s.checkin)
    <3>1. t - s.checkin \in Int /\ worked = Seconds(t - s.checkin)
      BY <2>2
    <3> QED
      BY <2>5, <3>1, SecondsBounds
  <2>11. e \in Event /\ r \in Request
    BY <2>2, <2>3, <2>7 DEF Event, Request
  <2> HIDE DEF w, worked, amount, e, r
  <2>12. PaidFor(w)
    <3>1. t - s.checkin \in Durations(w.checkout - w.checkin)
      BY <2>2, <2>4, <2>9, DurationStored
    <3>2. w.checkout # NULL
      BY <2>7, <2>9 DEF NULL
    <3> QED
      BY <2>9, <2>10, <3>1, <3>2 DEF PaidFor, amount
  <2>13. Settled(w)
    <3>1. w.checkout > w.checkin - TicksPerSecond - (TicksPerMicro - 1)
      BY <2>2, <2>4, <2>9, <2>10, CheckoutStored
    <3> QED
      BY <2>7, <2>9, <3>1 DEF Settled, NULL
  <2>14. att' = [att EXCEPT ![i] = w] /\ events' = Append(events, e) /\ Become(p, r)
    BY <2>1 DEF w, e, r
  <2>15. att' \in Seq(Row) /\ ChangedRow(att, att', i, w)
    BY <2>2, <2>3, <2>8, <2>14, UpdateRow
  <2>16. events' \in Seq(Event) /\ Len(events') = Len(events) + 1
    BY <2>3, <2>11, <2>14, InsertRow DEF AddedRow
  <2>17. ~Holds(r) /\ Knows(r, att', events')
    BY <2>3, <2>16 DEF r, Holds, Knows
  <2>18. audit' \in Seq(Log) /\ Holds(req[p]) /\ Len(events) <= Len(events')
    BY <1>1, <2>3, <2>16 DEF AttendanceInv, TypeOK, Holds
  <2>19. AttendanceInv'
    BY <1>1, <2>8, <2>11, <2>12, <2>13, <2>14, <2>15, <2>16, <2>17, <2>18, HolderChanges
  <2>20. i \in Rows /\ Closes(i, w)
    BY <1>1, <2>2, <2>9, <2>15 DEF Closes, Rows
  <2> QED
    BY <2>8, <2>19, <2>20
<1> QED
  BY <1>2, <1>3

\* What a correction leaves in the table is paid for its own timestamps, stays
\* completed, and differs from what is logged only in their precision.
LEMMA CorrectedRow ==
  ASSUME NEW before \in Row, Settled(before),
         NEW ci \in Nat \cup {NULL}, NEW co \in Nat \cup {NULL},
         NEW after, after = Corrected(before, ci, co), Acceptable(before, after),
         NEW final, final = Recomputed(before, after),
         NEW w, w = AsStored(final)
  PROVE  /\ final \in Row /\ w \in Row /\ PaidFor(w) /\ Settled(w)
         /\ before.status = "COMPLETED" => w.status = "COMPLETED"
         /\ w.rate = before.rate /\ Ledger!Same(final, w)
<1>1. after = [before EXCEPT !.checkin  = IF ci = NULL THEN before.checkin ELSE ci,
                             !.checkout = IF co = NULL THEN before.checkout ELSE co]
  BY DEF Corrected
<1>2. /\ after \in Row /\ after.rate = before.rate /\ after.status = before.status
      /\ after.checkout = NULL => before.checkout = NULL
  BY <1>1 DEF Row, NULL
<1>3. /\ after.checkin \in Nat /\ after.checkout \in Nat \cup {NULL} /\ after.rate \in Rates
      /\ after.status \in SessionStatuses
  BY <1>2 DEF Row
<1>4. w = [final EXCEPT !.checkin = Stored(final.checkin),
                        !.checkout = IF final.checkout = NULL THEN NULL ELSE Stored(final.checkout)]
  BY DEF AsStored
<1>5. NULL \notin Nat /\ Stored(after.checkin) \in Nat
  BY <1>3, StoredBounds DEF NULL
<1>6. CASE after.checkout = NULL
  <2>1. final = [after EXCEPT !.worked = NULL, !.amount = NULL]
    BY <1>6 DEF Recomputed
  <2>2. /\ final \in Row /\ final.checkin = after.checkin /\ final.checkout = NULL
        /\ final.worked = NULL /\ final.amount = NULL /\ final.status = before.status
        /\ final.rate = before.rate
    BY <1>2, <1>6, <2>1 DEF Row
  <2>3. before.status = "OPEN"
    BY <1>2, <1>6 DEF Settled
  <2>4. w = [final EXCEPT !.checkin = Stored(after.checkin), !.checkout = NULL]
    BY <1>4, <2>2
  <2>5. w \in Row
    BY <1>5, <2>2, <2>4 DEF Row
  <2>6. /\ w.checkout = NULL /\ w.worked = NULL /\ w.amount = NULL
        /\ w.status = "OPEN" /\ w.rate = before.rate
    BY <2>2, <2>3, <2>4 DEF Row
  <2> QED
    BY <2>2, <2>3, <2>5, <2>6 DEF PaidFor, Settled, Ledger!Same
<1>7. CASE after.checkout # NULL
  <2> DEFINE d == after.checkout - after.checkin
             worked == Seconds(d)
             amount == Amount(worked, after.rate)
  <2>1. final = [after EXCEPT !.worked = worked, !.amount = amount, !.status = "COMPLETED"]
    BY <1>7 DEF Recomputed
  <2>2. after.checkout \in Nat /\ after.checkout > after.checkin
    BY <1>3, <1>7 DEF Acceptable
  <2>3. d \in Int /\ d >= 0 /\ d > -TicksPerSecond
    BY <1>3, <2>2, PayAssumption
  <2> HIDE DEF d
  <2>4. worked \in Nat
    BY <2>3, SecondsBounds
  <2>5. amount \in Nat
    BY <1>3, <2>4, AmountNat
  <2> HIDE DEF worked, amount
  <2>6. Stored(after.checkout) \in Nat
    BY <2>2, StoredBounds
  <2>7. /\ final \in Row /\ final.checkin = after.checkin /\ final.checkout = after.checkout
        /\ final.worked = worked /\ final.amount = amount /\ final.status = "COMPLETED"
        /\ final.rate = before.rate
    BY <1>2, <2>1, <2>4, <2>5 DEF Row, SessionStatuses
  <2>20. w = [final EXCEPT !.checkin = Stored(after.checkin), !.checkout = Stored(after.checkout)]
    BY <1>4, <1>7, <2>7
  <2>21. w \in Row
    BY <1>5, <2>6, <2>7, <2>20 DEF Row
  <2>8. /\ w.checkin = Stored(after.checkin) /\ w.checkout = Stored(after.checkout)
        /\ w.worked = worked /\ w.amount = amount /\ w.status = "COMPLETED"
        /\ w.rate = before.rate
    BY <2>7, <2>20 DEF Row
  <2>9. d \in Durations(w.checkout - w.checkin)
    BY <1>3, <2>2, <2>8, DurationStored DEF d
  <2>10. w.checkout > w.checkin - TicksPerSecond - (TicksPerMicro - 1)
    BY <1>3, <2>2, <2>3, <2>8, CheckoutStored DEF d
  <2>11. w.checkout # NULL
    BY <1>5, <2>6, <2>8
  <2>12. PaidFor(w)
    BY <1>2, <2>8, <2>9, <2>11 DEF PaidFor, worked, amount
  <2>13. Settled(w)
    BY <2>8, <2>10, <2>11 DEF Settled
  <2> QED
    BY <2>7, <2>8, <2>21, <2>12, <2>13 DEF Ledger!Same
<1> QED
  BY <1>6, <1>7

\* adminCorrectAttendance: the record before, in the log, is the row's, because
\* nobody else could change it.
LEMMA CorrectCorrects ==
  ASSUME AttendanceInv, NEW p \in Procs, Correct(p)
  PROVE  /\ AttendanceInv'
         /\ \/ UNCHANGED <<att, audit>>
            \/ \E i \in Rows, w \in Row, final \in Row : Corrects(i, w, final)
<1> DEFINE i == req[p].row
           before == req[p].before
           after == Corrected(before, req[p].checkin, req[p].checkout)
           final == Recomputed(before, after)
           w == AsStored(final)
           l == [row |-> i, before |-> before, after |-> final]
           idle == [pc |-> "idle"]
<1>1. /\ now \in Nat /\ published \subseteq 1..Len(events)
      /\ req[p] \in Request /\ req[p].pc = "acCommit" /\ Knows(req[p], att, events)
      /\ UNCHANGED <<now, events, published>> /\ Idle(p)
  BY DEF Correct, AttendanceInv, TypeOK
<1>2. CASE ~(SimpleProtocol /\ Acceptable(before, after))
  <2>1. UNCHANGED <<att, audit>>
    BY <1>2 DEF Correct
  <2> QED
    BY <1>1, <2>1, IdleStep
<1>3. CASE SimpleProtocol /\ Acceptable(before, after)
  <2>1. /\ i \in 1..Len(att) /\ i \in Nat /\ before = att[i]
        /\ req[p].checkin \in Nat \cup {NULL} /\ req[p].checkout \in Nat \cup {NULL}
        /\ before \in Row
    BY <1>1, RequestFields DEF Knows
  <2>2. Settled(before) /\ att \in Seq(Row) /\ audit \in Seq(Log) /\ events \in Seq(Event)
        /\ Len(events) \in Nat
    BY <2>1, RowAt DEF AttendanceInv, Rows, TypeOK
  <2>3. /\ final \in Row /\ w \in Row /\ PaidFor(w) /\ Settled(w)
        /\ before.status = "COMPLETED" => w.status = "COMPLETED"
        /\ w.rate = before.rate /\ Ledger!Same(final, w)
    BY <1>3, <2>1, <2>2, CorrectedRow
  <2>4. att' = [att EXCEPT ![i] = w] /\ audit' = Append(audit, l)
    BY <1>3 DEF Correct
  <2>5. l \in Log
    BY <2>1, <2>3 DEF Log
  <2>6. idle.pc = "idle" /\ idle \in Request /\ Become(p, idle)
    BY <1>1, IdleRequest DEF Idle
  <2> HIDE DEF w, final, after, idle
  <2>7. att' \in Seq(Row) /\ ChangedRow(att, att', i, w)
    BY <2>1, <2>2, <2>3, <2>4, UpdateRow
  <2>8. audit' \in Seq(Log)
    BY <2>2, <2>4, <2>5, InsertRow
  <2>9. ~Holds(idle) /\ Knows(idle, att', events') /\ Holds(req[p])
    BY <1>1, <2>6, NothingKnown DEF Holds
  <2>10. AttendanceInv'
    BY <1>1, <2>2, <2>3, <2>6, <2>7, <2>8, <2>9, HolderChanges
  <2>11. i \in Rows /\ Corrects(i, w, final)
    BY <2>1, <2>3, <2>4, <2>7 DEF Corrects, Rows
  <2> QED
    BY <2>3, <2>10, <2>11
<1> QED
  BY <1>2, <1>3

\* A new session has a check-in and nothing else.
LEMMA SeedOpens ==
  ASSUME AttendanceInv, NEW r \in Rates, SeedSession(r)
  PROVE  AttendanceInv' /\ Opens
<1> DEFINE w == OpenRow(now, r)
<1>1. /\ att \in Seq(Row) /\ Len(att) \in Nat /\ now \in Nat
      /\ att' = Append(att, w) /\ UNCHANGED <<now, events, audit, published, req>>
  BY RowAt DEF SeedSession, AttendanceInv, TypeOK
<1>2. /\ w \in Row /\ w.checkout = NULL /\ w.worked = NULL /\ w.amount = NULL
      /\ w.status = "OPEN"
  BY <1>1, StoredBounds DEF OpenRow, Row, SessionStatuses
<1>3. Opens
  BY <1>1 DEF Opens
<1> HIDE DEF w
<1>4. att' \in Seq(Row) /\ AddedRow(att, att', w)
  BY <1>1, <1>2, InsertRow
<1>5. TypeOK'
  BY <1>1, <1>4 DEF AttendanceInv, TypeOK
<1>6. PaidFor(w) /\ Settled(w)
  BY <1>2 DEF PaidFor, Settled
<1>7. \A i \in Rows' : PaidFor(att'[i]) /\ Settled(att'[i])
  BY <1>1, <1>4, <1>6 DEF AttendanceInv, Rows, AddedRow
<1>8. \A q \in Procs : Knows(req'[q], att', events')
  BY <1>1, <1>4 DEF AttendanceInv, Knows, AddedRow
<1>9. HoldersApart'
  BY <1>1 DEF AttendanceInv, HoldersApart
<1> QED
  BY <1>3, <1>5, <1>7, <1>8, <1>9 DEF AttendanceInv

-----------------------------------------------------------------------------
(* All steps.                                                              *)

LEMMA InitInv == Init => AttendanceInv
<1> SUFFICES ASSUME Init PROVE AttendanceInv
  OBVIOUS
<1>1. Len(att) = 0 /\ Rows = {}
  BY EmptySeq DEF Init, Rows
<1>2. TypeOK
  BY EmptySeq, IdleRequest DEF Init, TypeOK
<1>3. \A p \in Procs : req[p].pc = "idle"
  BY DEF Init
<1>4. (\A p \in Procs : Knows(req[p], att, events)) /\ HoldersApart
  BY <1>3, NothingKnown DEF HoldersApart
<1> QED
  BY <1>1, <1>2, <1>4 DEF AttendanceInv

\* Every step keeps the invariant, and changes sessions in one of three ways.
LEMMA StepInv ==
  ASSUME AttendanceInv, [Next]_vars
  PROVE  /\ AttendanceInv'
         /\ \/ UNCHANGED <<att, audit>>
            \/ Opens
            \/ \E i \in Rows, w \in Row : Closes(i, w)
            \/ \E i \in Rows, w \in Row, final \in Row : Corrects(i, w, final)
<1>1. now \in Nat /\ published \subseteq 1..Len(events)
  BY DEF AttendanceInv, TypeOK
<1>2. ASSUME NEW p \in Procs, Step(p)
      PROVE  /\ AttendanceInv'
             /\ \/ UNCHANGED <<att, audit>>
                \/ \E i \in Rows, w \in Row : Closes(i, w)
                \/ \E i \in Rows, w \in Row, final \in Row : Corrects(i, w, final)
  <2>1. CASE InsertCheckIn(p)
    BY <2>1, CheckInKeeps DEF InsertCheckIn, Verifications, SessionStatuses
  <2>2. CASE LockForCheckOut(p) \/ LockForCorrection(p) \/ Publish(p)
    BY <2>2, LockForCheckOutKeeps, LockForCorrectionKeeps, PublishKeeps
      DEF LockForCheckOut, LockForCorrection, Publish
  <2>3. CASE CheckOut(p)
    BY <2>3, CheckOutCloses
  <2>4. CASE Correct(p)
    BY <2>4, CorrectCorrects
  <2> QED
    BY <1>2, <2>1, <2>2, <2>3, <2>4 DEF Step
<1>3. ASSUME NEW p \in Procs,
             \/ Abort(p) \/ BeginCheckIn(p)
             \/ \E i \in Rows :
                  \/ BeginCheckOut(p, i)
                  \/ \E ci, co \in Instants \cup {NULL} : BeginCorrection(p, i, ci, co)
      PROVE  AttendanceInv' /\ UNCHANGED <<att, audit>>
  <2>1. CASE Abort(p)
    BY <1>1, <2>1, IdleStep DEF Abort
  <2>2. CASE BeginCheckIn(p)
    BY <2>2, CheckInKeeps DEF BeginCheckIn
  <2>3. ASSUME NEW i \in Rows, BeginCheckOut(p, i) PROVE AttendanceInv' /\ UNCHANGED <<att, audit>>
    BY <2>3, BeginCheckOutKeeps DEF BeginCheckOut
  <2>4. ASSUME NEW i \in Rows, NEW ci \in Instants \cup {NULL}, NEW co \in Instants \cup {NULL},
               BeginCorrection(p, i, ci, co)
        PROVE  AttendanceInv' /\ UNCHANGED <<att, audit>>
    BY <2>4, BeginCorrectionKeeps DEF BeginCorrection
  <2> QED
    BY <1>3, <2>1, <2>2, <2>3, <2>4
<1>4. ASSUME NEW r \in Rates, SeedSession(r) PROVE AttendanceInv' /\ Opens
  BY <1>4, SeedOpens
<1>5. CASE Tick \/ UNCHANGED vars
  <2>1. now' \in Nat /\ UNCHANGED <<att, events, audit, published, req>>
    BY <1>1, <1>5 DEF Tick, vars
  <2>2. AttendanceInv'
    BY <2>1 DEF AttendanceInv, TypeOK, HoldersApart, Rows
  <2> QED
    BY <2>1, <2>2
<1> QED
  BY <1>2, <1>3, <1>4, <1>5 DEF Next

-----------------------------------------------------------------------------
(* The theorems.                                                           *)

\* The inductive invariant: sessions are paid for their own times and settled,
\* and what a request has read of a row it holds is what is in the row.
THEOREM AttendanceInvariant == Spec => []AttendanceInv
BY InitInv, StepInv, PTL DEF Spec

\* Types of all tables and requests, among them that amounts and working times
\* are never negative.
THEOREM TypeCorrect == Spec => []TypeOK
<1>1. AttendanceInv => TypeOK
  BY DEF AttendanceInv
<1> QED
  BY <1>1, AttendanceInvariant, PTL

\* Hours are those between the stored timestamps, up to what storing loses, and
\* the amount is the pay for them, whichever check-outs and corrections led there.
THEOREM HoursArePaid == Spec => []PayFollowsTimes
<1>1. AttendanceInv => PayFollowsTimes
  BY DEF AttendanceInv, PaidFor, PayFollowsTimes
<1> QED
  BY <1>1, AttendanceInvariant, PTL

\* A session is settled exactly when it has a check-out, which is not before
\* its check-in by a second or more.
THEOREM SessionsSettle == Spec => []CheckoutSettles
<1>1. AttendanceInv => CheckoutSettles
  BY DEF AttendanceInv, Settled, CheckoutSettles
<1> QED
  BY <1>1, AttendanceInvariant, PTL

\* A completed session stays completed, and only a logged correction changes it.
THEOREM CompletionLasts == Spec => CompletedStays
<1> DEFINE Lasting ==
      \A i \in Rows : att[i].status = "COMPLETED" /\ att'[i] # att[i] =>
        /\ att'[i].status = "COMPLETED"
        /\ Len(audit') = Len(audit) + 1 /\ audit'[Len(audit')].row = i
<1>1. AttendanceInv /\ [Next]_vars => Lasting
  <2> SUFFICES ASSUME AttendanceInv, [Next]_vars, NEW i \in Rows, att[i].status = "COMPLETED",
                      att'[i] # att[i]
               PROVE  /\ att'[i].status = "COMPLETED"
                      /\ Len(audit') = Len(audit) + 1 /\ audit'[Len(audit')].row = i
    OBVIOUS
  <2>1. att \in Seq(Row) /\ audit \in Seq(Log) /\ Len(audit) \in Nat /\ i \in 1..Len(att)
    BY RowAt DEF AttendanceInv, TypeOK, Rows
  <2>2. ~Opens
    <3> SUFFICES ASSUME NEW r \in Rates, att' = Append(att, OpenRow(now, r)) PROVE FALSE
      BY DEF Opens
    <3>1. now \in Nat /\ OpenRow(now, r) \in Row
      BY StoredBounds DEF AttendanceInv, TypeOK, OpenRow, Row, SessionStatuses
    <3> QED
      BY <2>1, <3>1, InsertRow DEF AddedRow
  <2>3. ASSUME NEW j \in Rows, NEW w \in Row, Closes(j, w) PROVE FALSE
    BY <2>1, <2>3 DEF Closes, ChangedRow
  <2>4. PICK j \in Rows, w \in Row, final \in Row : Corrects(j, w, final)
    BY <2>2, <2>3, StepInv
  <2>5. j = i /\ att'[i].status = "COMPLETED"
    BY <2>1, <2>4 DEF Corrects, ChangedRow
  <2> DEFINE l == [row |-> j, before |-> att[j], after |-> final]
  <2>6. l \in Log /\ audit' = Append(audit, l)
    BY <2>1, <2>4, <2>5, RowAt DEF Corrects, Log
  <2>7. l.row = j
    OBVIOUS
  <2> HIDE DEF l
  <2>8. AddedRow(audit, audit', l)
    BY <2>1, <2>6, InsertRow
  <2> QED
    BY <2>1, <2>5, <2>7, <2>8 DEF AddedRow
<1>2. AttendanceInv /\ [Next]_vars => [Lasting]_vars
  BY <1>1
<1> QED
  BY <1>2, AttendanceInvariant, PTL DEF Spec, CompletedStays

-----------------------------------------------------------------------------
(* Refinement.                                                             *)

\* Attendance implements AttendanceLedger: a record is opened once, closed while
\* it is not completed, and otherwise changed by corrections whose log holds the
\* very record they replaced.
THEOREM AttendanceImplementsLedger == Spec => ImplementsLedger
<1>1. Init => Ledger!Init
  BY DEF Init, Ledger!Init
<1>2. AttendanceInv /\ [Next]_vars => [Ledger!Next]_<<att, audit>>
  <2> SUFFICES ASSUME AttendanceInv, [Next]_vars, ~UNCHANGED <<att, audit>>
               PROVE  Ledger!Next
    OBVIOUS
  <2>1. att \in Seq(Row) /\ audit \in Seq(Log) /\ Len(att) \in Nat /\ Len(audit) \in Nat
        /\ now \in Nat
    BY RowAt DEF AttendanceInv, TypeOK
  <2>2. CASE Opens
    <3>1. PICK r \in Rates : att' = Append(att, OpenRow(now, r)) /\ UNCHANGED audit
      BY <2>2 DEF Opens
    <3>2. OpenRow(now, r) \in Row /\ OpenRow(now, r).status = "OPEN"
      BY <2>1, StoredBounds DEF OpenRow, Row, SessionStatuses
    <3>3. AddedRow(att, att', OpenRow(now, r)) /\ SubSeq(att', 1, Len(att)) = att
      BY <2>1, <3>1, <3>2, InsertRow
    <3>4. Ledger!Open
      BY <2>1, <3>1, <3>2, <3>3 DEF Ledger!Open, AddedRow
    <3> QED
      BY <3>4 DEF Ledger!Next
  <2>3. ASSUME NEW i \in Rows, NEW w \in Row, Closes(i, w) PROVE Ledger!Next
    <3>1. Ledger!Close(i)
      BY <2>1, <2>3 DEF Closes, ChangedRow, Ledger!Close, Ledger!Change
    <3> QED
      BY <3>1 DEF Ledger!Next, Rows
  <2>4. ASSUME NEW i \in Rows, NEW w \in Row, NEW final \in Row, Corrects(i, w, final)
        PROVE  Ledger!Next
    <3> DEFINE l == [row |-> i, before |-> att[i], after |-> final]
    <3>1. att[i] \in Row /\ i \in Nat
      BY <2>1, RowAt DEF Rows
    <3>2. l \in Log /\ audit' = Append(audit, l)
      BY <2>4, <3>1 DEF Corrects, Log
    <3>10. l.row = i /\ l.before = att[i] /\ l.after = final
      OBVIOUS
    <3> HIDE DEF l
    <3>3. AddedRow(audit, audit', l) /\ SubSeq(audit', 1, Len(audit)) = audit
      BY <2>1, <3>2, InsertRow
    <3>4. Ledger!Change(i) /\ att'[i] = w
      BY <2>1, <2>4 DEF Corrects, ChangedRow, Ledger!Change
    <3>5. /\ Len(audit') = Len(audit) + 1 /\ audit'[Len(audit')] = l
      BY <2>1, <3>3 DEF AddedRow
    <3>6. Ledger!Same(final, att'[i])
      BY <2>4, <3>4 DEF Corrects
    <3>7. Ledger!Correct(i)
      BY <3>3, <3>4, <3>5, <3>6, <3>10 DEF Ledger!Correct
    <3> QED
      BY <3>7 DEF Ledger!Next, Rows
  <2> QED
    BY <2>2, <2>3, <2>4, StepInv
<1> QED
  BY <1>1, <1>2, AttendanceInvariant, PTL DEF Spec, ImplementsLedger, Ledger!Spec
=============================================================================
