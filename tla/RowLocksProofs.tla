--------------------------- MODULE RowLocksProofs ---------------------------
(***************************************************************************)
(* Proofs about RowLocks, for any rows, requests and pool, and any number   *)
(* of goroutines.                                                          *)
(***************************************************************************)
EXTENDS RowLocks, FiniteSetTheorems, SequenceTheorems, TLAPS

-----------------------------------------------------------------------------
(* The locks of a request.                                                 *)

\* A request's fields, by its operation.
LEMMA RequestFields ==
  ASSUME NEW r \in Requests
  PROVE  /\ r \notin {Nothing, Done}
         /\ r.op \in {"checkOut", "correct", "createJob", "createWorker", "updateWorker",
                      "signIn", "refresh", "updateLocation"}
         /\ r.op \in {"createWorker", "updateWorker"} =>
              r.worker \in Workers /\ r.number \in Numbers /\ r.code \in Codes \cup {None}
         /\ r.op = "createJob" => r.team \in Seq(Workers)
<1>1. \/ r \in [op: {"checkOut", "correct"}, visit: Visits]
      \/ r \in [op: {"createJob"}, site: Sites, team: Seq(Workers)]
      \/ r \in [op: {"createWorker", "updateWorker"}, worker: Workers, number: Numbers,
             code: Codes \cup {None}]
      \/ r \in [op: {"signIn", "refresh"}, worker: Workers]
      \/ r \in [op: {"updateLocation"}, site: Sites]
  BY RowLocksAssumption
<1>2. r \in [op: {"checkOut", "correct"}, visit: Visits] => r.op \in {"checkOut", "correct"}
  OBVIOUS
<1>3. r \in [op: {"createJob"}, site: Sites, team: Seq(Workers)]
        => r.op = "createJob" /\ r.team \in Seq(Workers)
  OBVIOUS
<1>4. r \in [op: {"createWorker", "updateWorker"}, worker: Workers, number: Numbers,
              code: Codes \cup {None}]
        => /\ r.op \in {"createWorker", "updateWorker"}
           /\ r.worker \in Workers /\ r.number \in Numbers /\ r.code \in Codes \cup {None}
  OBVIOUS
<1>5. r \in [op: {"signIn", "refresh"}, worker: Workers] => r.op \in {"signIn", "refresh"}
  OBVIOUS
<1>6. r \in [op: {"updateLocation"}, site: Sites] => r.op = "updateLocation"
  OBVIOUS
<1>7. Nothing.op = "nothing" /\ Done.op = "done"
  BY DEF Nothing, Done
<1> HIDE DEF Nothing, Done
<1> QED
  BY <1>1, <1>2, <1>3, <1>4, <1>5, <1>6, <1>7

\* What a lock is on.
LEMMA LockFields ==
  ASSUME NEW t, NEW w, NEW m
  PROVE  Lock(t, w, m).table = t /\ Lock(t, w, m).row = w /\ Lock(t, w, m).mode = m
BY DEF Lock

\* The tables, in order, that a check-out locks for update.
LEMMA CheckOutShape ==
  ASSUME NEW r \in Requests, r.op = "checkOut"
  PROVE  /\ Len(Locks(r)) = 5
         /\ \A i \in 1..5 : Locks(r)[i].mode = "update"
         /\ Locks(r)[1].table = "attendance_sessions"
         /\ Locks(r)[2].table = "workers"
         /\ Locks(r)[3].table = "jobs"
         /\ Locks(r)[4].table = "service_locations"
         /\ Locks(r)[5].table = "organizations"
<1>1. Locks(r) = CheckOutLocks(r)
  BY DEF Locks
<1>2. /\ Len(CheckOutLocks(r)) = 5
      /\ CheckOutLocks(r)[1] = Lock("attendance_sessions", r.visit, "update")
      /\ CheckOutLocks(r)[2] = Lock("workers", VisitWorker[r.visit], "update")
      /\ CheckOutLocks(r)[3] = Lock("jobs", VisitJob[r.visit], "update")
      /\ CheckOutLocks(r)[4] = Lock("service_locations", JobSite[VisitJob[r.visit]], "update")
      /\ CheckOutLocks(r)[5] = Lock("organizations", Organization, "update")
  BY DEF CheckOutLocks
<1> QED
  BY <1>1, <1>2, LockFields

\* The locks of a correction.
LEMMA CorrectShape ==
  ASSUME NEW r \in Requests, r.op = "correct"
  PROVE  /\ Len(Locks(r)) = 2
         /\ Locks(r)[1].table = "attendance_sessions"
         /\ Locks(r)[2].table = "organizations" /\ Locks(r)[2].mode = "keyShare"
<1>1. Locks(r) = CorrectLocks(r)
  BY DEF Locks
<1>2. /\ Len(CorrectLocks(r)) = 2
      /\ CorrectLocks(r)[1] = Lock("attendance_sessions", r.visit, "update")
      /\ CorrectLocks(r)[2] = Lock("organizations", Organization, "keyShare")
  BY DEF CorrectLocks
<1> QED
  BY <1>1, <1>2, LockFields

\* The creation of a job takes key shares only.
LEMMA CreateJobShape ==
  ASSUME NEW r \in Requests, r.op = "createJob"
  PROVE  /\ Len(Locks(r)) \in Nat /\ Len(Locks(r)) >= 2
         /\ \A i \in 1..Len(Locks(r)) :
              /\ Locks(r)[i].mode = "keyShare"
              /\ Locks(r)[i].table = IF i = 1 THEN "organizations"
                                     ELSE IF i = 2 THEN "service_locations" ELSE "workers"
<1> DEFINE a == << Lock("organizations", Organization, "keyShare"),
                   Lock("service_locations", r.site, "keyShare") >>
           b == [i \in 1..Len(r.team) |-> Lock("workers", r.team[i], "keyShare")]
           L == {Lock(t, w, "keyShare") : t \in {"organizations", "service_locations", "workers"},
                                          w \in {Organization, r.site} \cup Workers}
<1>1. Locks(r) = a \o b
  BY DEF Locks, CreateJobLocks
<1>2. r.team \in Seq(Workers) /\ Len(r.team) \in Nat
  BY RequestFields
<1>3. Lock("organizations", Organization, "keyShare") \in L
      /\ Lock("service_locations", r.site, "keyShare") \in L
  OBVIOUS
<1>4. \A i \in 1..Len(r.team) : Lock("workers", r.team[i], "keyShare") \in L
  BY <1>2
<1>5. /\ a[1] = Lock("organizations", Organization, "keyShare")
      /\ a[2] = Lock("service_locations", r.site, "keyShare")
      /\ Len(a) = 2
  OBVIOUS
<1>6. \A i \in 1..Len(r.team) : b[i] = Lock("workers", r.team[i], "keyShare")
  OBVIOUS
<1> HIDE DEF L
<1>7. a \in Seq(L)
  BY <1>3
<1>8. b \in Seq(L) /\ Len(b) = Len(r.team)
  BY <1>2, <1>4
<1> HIDE DEF a, b
<1>9. /\ Len(a \o b) = 2 + Len(r.team)
      /\ \A i \in 1..Len(a \o b) : (a \o b)[i] = IF i <= 2 THEN a[i] ELSE b[i - 2]
  <2>1. /\ Len(a \o b) = Len(a) + Len(b)
        /\ \A i \in 1..Len(a) + Len(b) : (a \o b)[i] = IF i <= Len(a) THEN a[i] ELSE b[i - Len(a)]
    BY <1>7, <1>8, ConcatProperties, Zenon
  <2> QED
    BY <1>5, <1>8, <2>1, Zenon
<1>10. ASSUME NEW i \in 1..Len(Locks(r))
       PROVE  /\ Locks(r)[i].mode = "keyShare"
              /\ Locks(r)[i].table = IF i = 1 THEN "organizations"
                                     ELSE IF i = 2 THEN "service_locations" ELSE "workers"
  <2>1. i \in Nat /\ i >= 1 /\ i <= 2 + Len(r.team)
    BY <1>1, <1>2, <1>9, <1>10
  <2>2. CASE i = 1
    BY <1>1, <1>5, <1>9, <1>10, <2>2, LockFields
  <2>3. CASE i = 2
    BY <1>1, <1>5, <1>9, <1>10, <2>3, LockFields
  <2>4. CASE i > 2
    <3>1. i - 2 \in 1..Len(r.team) /\ Locks(r)[i] = b[i - 2]
      BY <1>1, <1>2, <1>9, <1>10, <2>1, <2>4
    <3>2. Locks(r)[i] = Lock("workers", r.team[i - 2], "keyShare")
      BY <1>6, <3>1
    <3> QED
      BY <2>4, <3>2, LockFields
  <2> QED
    BY <2>1, <2>2, <2>3, <2>4
<1> QED
  BY <1>1, <1>2, <1>9, <1>10

\* The locks of the creation of a worker.
LEMMA CreateWorkerShape ==
  ASSUME NEW r \in Requests, r.op = "createWorker"
  PROVE  /\ Len(Locks(r)) = 3
         /\ Locks(r)[1].table = "users_phone"
         /\ Locks(r)[2].table = "organizations" /\ Locks(r)[2].mode = "keyShare"
         /\ Locks(r)[3].table = "workers_code"
<1>1. Locks(r) = CreateWorkerLocks(r)
  BY DEF Locks
<1>2. /\ Len(CreateWorkerLocks(r)) = 3
      /\ CreateWorkerLocks(r)[1] = Lock("users_phone", r.number, "update")
      /\ CreateWorkerLocks(r)[2] = Lock("organizations", Organization, "keyShare")
      /\ CreateWorkerLocks(r)[3] = Lock("workers_code", Entry(r.worker, r.code), "update")
  BY DEF CreateWorkerLocks
<1> QED
  BY <1>1, <1>2, LockFields

\* How many locks an update asks for before those of the employee codes.
BeforeCodes(r) == IF number[r.worker] = r.number THEN 2 ELSE 4

\* The locks of an update of a worker: the worker's row, the user's, then entries
\* of the index of numbers and, last, entries of the index of codes.
LEMMA UpdateWorkerShape ==
  ASSUME NEW r \in Requests, r.op = "updateWorker"
  PROVE  /\ Locks(r)[1] = Lock("workers", r.worker, "update")
         /\ Locks(r)[2].table = "users" /\ Locks(r)[2].row = r.worker
         /\ Len(Locks(r)) \in {BeforeCodes(r), BeforeCodes(r) + 2}
         /\ \A i \in 3..BeforeCodes(r) : Locks(r)[i].table = "users_phone"
         /\ \A i \in (BeforeCodes(r) + 1)..Len(Locks(r)) : Locks(r)[i].table = "workers_code"
<1> DEFINE w  == Lock("workers", r.worker, "update")
           u  == Lock("users", r.worker, "noKeyUpdate")
           k  == Lock("users", r.worker, "update")
           n1 == Lock("users_phone", number[r.worker], "update")
           n2 == Lock("users_phone", r.number, "update")
           c1 == Lock("workers_code", Entry(r.worker, code[r.worker]), "update")
           c2 == Lock("workers_code", Entry(r.worker, r.code), "update")
<1>1. Locks(r) = << w >> \o UserLocks(r) \o CodeLocks(r)
  BY DEF Locks, UpdateWorkerLocks
<1>2. /\ UserLocks(r) = IF number[r.worker] = r.number THEN << u >> ELSE << k, n1, n2 >>
      /\ CodeLocks(r) = IF code[r.worker] = r.code THEN << >> ELSE << c1, c2 >>
  BY DEF UserLocks, CodeLocks
<1>3. /\ u.table = "users" /\ u.row = r.worker /\ k.table = "users" /\ k.row = r.worker
      /\ n1.table = "users_phone" /\ n2.table = "users_phone"
      /\ c1.table = "workers_code" /\ c2.table = "workers_code"
  BY LockFields
<1> HIDE DEF w, u, k, n1, n2, c1, c2
<1>4. CASE number[r.worker] = r.number /\ code[r.worker] = r.code
  <2>1. Locks(r) = << w >> \o << u >> \o << >>
    BY <1>1, <1>2, <1>4
  <2>2. Len(Locks(r)) = 2 /\ Locks(r)[1] = w /\ Locks(r)[2] = u
    BY <2>1
  <2> QED
    BY <1>3, <1>4, <2>2 DEF BeforeCodes, w
<1>5. CASE number[r.worker] = r.number /\ code[r.worker] # r.code
  <2>1. Locks(r) = << w >> \o << u >> \o << c1, c2 >>
    BY <1>1, <1>2, <1>5
  <2>2. /\ Len(Locks(r)) = 4 /\ Locks(r)[1] = w /\ Locks(r)[2] = u
        /\ Locks(r)[3] = c1 /\ Locks(r)[4] = c2
    BY <2>1
  <2> QED
    BY <1>3, <1>5, <2>2 DEF BeforeCodes, w
<1>6. CASE number[r.worker] # r.number /\ code[r.worker] = r.code
  <2>1. Locks(r) = << w >> \o << k, n1, n2 >> \o << >>
    BY <1>1, <1>2, <1>6
  <2>2. /\ Len(Locks(r)) = 4 /\ Locks(r)[1] = w /\ Locks(r)[2] = k
        /\ Locks(r)[3] = n1 /\ Locks(r)[4] = n2
    BY <2>1
  <2> QED
    BY <1>3, <1>6, <2>2 DEF BeforeCodes, w
<1>7. CASE number[r.worker] # r.number /\ code[r.worker] # r.code
  <2>1. Locks(r) = << w >> \o << k, n1, n2 >> \o << c1, c2 >>
    BY <1>1, <1>2, <1>7
  <2>2. /\ Len(Locks(r)) = 6 /\ Locks(r)[1] = w /\ Locks(r)[2] = k
        /\ Locks(r)[3] = n1 /\ Locks(r)[4] = n2 /\ Locks(r)[5] = c1 /\ Locks(r)[6] = c2
    BY <2>1
  <2> QED
    BY <1>3, <1>7, <2>2 DEF BeforeCodes, w
<1> QED
  BY <1>4, <1>5, <1>6, <1>7

\* The locks of a sign-in, of a refresh and of an update of a location.
LEMMA OtherShapes ==
  ASSUME NEW r \in Requests
  PROVE  /\ r.op = "signIn" =>
              /\ Len(Locks(r)) = 2
              /\ Locks(r)[1].table = "auth_otps" /\ Locks(r)[2].table = "users"
         /\ r.op = "refresh" =>
              /\ Len(Locks(r)) = 2
              /\ Locks(r)[1].table = "refresh_sessions" /\ Locks(r)[2].table = "users"
         /\ r.op = "updateLocation" => Len(Locks(r)) = 1
<1>1. ASSUME r.op = "signIn"
      PROVE  /\ Len(Locks(r)) = 2
             /\ Locks(r)[1].table = "auth_otps" /\ Locks(r)[2].table = "users"
  <2>1. Locks(r) = << Lock("auth_otps", r.worker, "update"), Lock("users", r.worker, "noKeyUpdate") >>
    BY <1>1 DEF Locks, SignInLocks
  <2> QED
    BY <2>1, LockFields
<1>2. ASSUME r.op = "refresh"
      PROVE  /\ Len(Locks(r)) = 2
             /\ Locks(r)[1].table = "refresh_sessions" /\ Locks(r)[2].table = "users"
  <2>1. Locks(r) = << Lock("refresh_sessions", r.worker, "update"), Lock("users", r.worker, "keyShare") >>
    BY <1>2 DEF Locks, RefreshLocks
  <2> QED
    BY <2>1, LockFields
<1>3. r.op = "updateLocation" => Len(Locks(r)) = 1
  <2>1. r.op = "updateLocation" => Locks(r) = UpdateLocationLocks(r)
    BY DEF Locks
  <2> QED
    BY <2>1 DEF UpdateLocationLocks
<1> QED
  BY <1>1, <1>2, <1>3
-----------------------------------------------------------------------------
(* The invariant.                                                          *)

\* Two updates of a worker are not both past the worker's row.
OneUpdater ==
  \A p, q \in Connected :
    /\ p # q
    /\ doing[p].op = "updateWorker" /\ doing[q].op = "updateWorker"
    /\ step[p] > 1 /\ step[q] > 1
    => doing[p].worker # doing[q].worker

\* An update is of a worker that is there.  One that is created is not there, and
\* nobody else creates it.
InFlight ==
  /\ \A p \in Busy : doing[p].op = "updateWorker" => number[doing[p].worker] # None
  /\ \A p \in Busy : doing[p].op = "createWorker" =>
       /\ number[doing[p].worker] = None
       /\ \A q \in Busy : p # q /\ doing[q].op = "createWorker" => doing[q].worker # doing[p].worker

LocksInv ==
  /\ TypeOK
  /\ IsFiniteSet(Connected)
  /\ OneUpdater
  /\ InFlight

\* Every request asks for a lock.
LensOK == \A r \in Requests : Len(Locks(r)) \in Nat /\ Len(Locks(r)) >= 1

LEMMA Lens == LensOK
<1> SUFFICES ASSUME NEW r \in Requests PROVE Len(Locks(r)) \in Nat /\ Len(Locks(r)) >= 1
  BY DEF LensOK
<1> QED
  BY RequestFields, CheckOutShape, CorrectShape, CreateJobShape, CreateWorkerShape,
     UpdateWorkerShape, OtherShapes DEF BeforeCodes

\* After a step, too.
LEMMA LensNext == LensOK'
BY Lens, PTL

\* The locks of a request change only with the number and code of the worker it
\* updates.
LEMMA LocksKept ==
  ASSUME NEW r \in Requests,
         r.op = "updateWorker" =>
           number'[r.worker] = number[r.worker] /\ code'[r.worker] = code[r.worker]
  PROVE  (Locks(r))' = Locks(r)
<1>1. CASE r.op # "updateWorker"
  BY <1>1, RequestFields DEF Locks, CheckOutLocks, CorrectLocks, CreateJobLocks, CreateWorkerLocks,
     Entry, SignInLocks, RefreshLocks, UpdateLocationLocks, Lock
<1>2. CASE r.op = "updateWorker"
  <2>1. Locks(r) = UpdateWorkerLocks(r) /\ (Locks(r))' = (UpdateWorkerLocks(r))'
    BY <1>2 DEF Locks
  <2>2. (UserLocks(r))' = UserLocks(r)
    BY <1>2 DEF UserLocks, Lock
  <2>3. (CodeLocks(r))' = CodeLocks(r)
    BY <1>2 DEF CodeLocks, Entry, Lock
  <2> QED
    BY <2>1, <2>2, <2>3 DEF UpdateWorkerLocks, Lock
<1> QED
  BY <1>1, <1>2

\* The first lock of an update is on the row of its worker.
FirstLockOK == \A r \in Requests : r.op = "updateWorker" => Locks(r)[1] = Lock("workers", r.worker, "update")

LEMMA FirstLock == FirstLockOK
BY UpdateWorkerShape DEF FirstLockOK

\* What a goroutine does is one of the requests.
LEMMA BusyRequest ==
  ASSUME TypeOK, NEW p \in Busy
  PROVE  p \in Procs /\ doing[p] \in Requests
BY DEF TypeOK, Busy

\* A part of a finite set has no more members.
LEMMA PartOf ==
  ASSUME NEW S, NEW T, IsFiniteSet(T), S \subseteq T
  PROVE  /\ IsFiniteSet(S) /\ Cardinality(S) \in Nat /\ Cardinality(T) \in Nat
         /\ Cardinality(S) <= Cardinality(T)
BY FS_Subset, FS_CardinalityType

-----------------------------------------------------------------------------
(* The steps.                                                              *)

\* At the start nobody is connected.
LEMMA LocksInit == Init => LocksInv
<1> SUFFICES ASSUME Init PROVE LocksInv
  OBVIOUS
<1>1. Connected = {} /\ Busy = {}
  BY DEF Init, Busy, Connected
<1>2. Cardinality(Connected) = 0 /\ IsFiniteSet(Connected)
  BY <1>1, FS_EmptySet, Zenon
<1>3. /\ number \in [Workers -> Numbers \cup {None}] /\ code \in [Workers -> Codes \cup {None}]
      /\ poolSize \in PoolSizes /\ poolSize \in Nat
  BY RowLocksAssumption DEF Init
<1>4. TypeOK
  BY <1>2, <1>3 DEF Init, TypeOK
<1> QED
  BY <1>1, <1>2, <1>4 DEF LocksInv, OneUpdater, InFlight

\* A request ends: its locks and its connection are given back, and what the
\* others ask for does not change behind their back.
LEMMA EndKeepsLocks ==
  ASSUME LocksInv, NEW p \in Procs, End(p), poolSize' = poolSize,
         number' \in [Workers -> Numbers \cup {None}], code' \in [Workers -> Codes \cup {None}],
         \A q \in Busy \ {p} : doing[q].op = "updateWorker" =>
           /\ number'[doing[q].worker] # None
           /\ step[q] > 1 => /\ number'[doing[q].worker] = number[doing[q].worker]
                             /\ code'[doing[q].worker] = code[doing[q].worker],
         \A q \in Busy \ {p} : doing[q].op = "createWorker" => number'[doing[q].worker] = None
  PROVE  LocksInv'
<1>1. /\ doing'[p] = Done /\ step'[p] = 0
      /\ \A q \in Procs \ {p} : doing'[q] = doing[q] /\ step'[q] = step[q]
      /\ doing' \in [Procs -> Requests \cup {Nothing, Done}]
      /\ step' \in [Procs -> Nat]
      /\ TypeOK
  BY DEF LocksInv, TypeOK, End
<1>2. Busy' = Busy \ {p} /\ Connected' = Connected \ {p} /\ Busy \subseteq Procs
  BY <1>1 DEF Busy, Connected
<1>3. \A q \in Busy' : q \in Procs /\ q # p /\ doing'[q] = doing[q] /\ step'[q] = step[q]
  BY <1>1, <1>2
<1>4. ASSUME NEW q \in Procs, step'[q] > 0 PROVE q \in Busy' /\ step'[q] <= (Len(Locks(doing[q])))' + 1
  <2>1. /\ q # p /\ q \in Busy /\ q \in Busy' /\ step[q] <= Len(Locks(doing[q])) + 1
        /\ step[q] \in Nat /\ doing'[q] = doing[q] /\ step'[q] = step[q]
    BY <1>1, <1>2, <1>4 DEF TypeOK
  <2>2. PICK r \in Requests : r = doing[q]
    BY <1>1, <2>1, BusyRequest
  <2>3. CASE step[q] > 1
    <3>1. (Locks(r))' = Locks(r)
      BY <2>1, <2>2, <2>3, LocksKept
    <3> QED
      BY <2>1, <2>2, <3>1
  <2>4. CASE step[q] <= 1
    <3>1. (Len(Locks(r)))' \in Nat /\ (Len(Locks(r)))' >= 1
      BY LensNext DEF LensOK
    <3>2. (Len(Locks(doing[q])))' = (Len(Locks(r)))'
      BY <2>1, <2>2
    <3> QED
      BY <2>1, <2>4, <3>1, <3>2
  <2> QED
    BY <2>1, <2>3, <2>4
<1>5. IsFiniteSet(Connected') /\ Cardinality(Connected') <= poolSize'
  <2>1. /\ IsFiniteSet(Connected') /\ Cardinality(Connected') \in Nat /\ Cardinality(Connected) \in Nat
        /\ Cardinality(Connected') <= Cardinality(Connected)
    BY <1>2, PartOf DEF LocksInv
  <2>2. poolSize \in Nat /\ Cardinality(Connected) <= poolSize
    BY <1>1, RowLocksAssumption DEF TypeOK
  <2> QED
    BY <2>1, <2>2
<1>6. TypeOK'
  BY <1>1, <1>4, <1>5 DEF TypeOK
<1>7. OneUpdater'
  BY <1>1, <1>2 DEF LocksInv, OneUpdater, Connected
<1>8. InFlight'
  <2>1. \A q \in Busy' : q \in Busy \ {p} /\ doing'[q] = doing[q]
    BY <1>2, <1>3
  <2> QED
    BY <2>1 DEF LocksInv, InFlight
<1> QED
  BY <1>5, <1>6, <1>7, <1>8 DEF LocksInv

\* The commit of an update finds no other update of the worker past its row,
\* and no update of a worker that is created.
LEMMA CommitKeepsLocks ==
  ASSUME LocksInv, NEW p \in Procs, Commit(p)
  PROVE  LocksInv'
<1>1. PICK r \in Requests : r = doing[p]
  BY BusyRequest DEF Commit, LocksInv, Connected
<1>2. p \in Busy /\ p \in Connected /\ TypeOK /\ OneUpdater /\ InFlight
  BY DEF Commit, LocksInv, Connected
<1>3. Len(Locks(r)) >= 1 /\ Len(Locks(r)) \in Nat /\ step[p] > Len(Locks(r)) /\ step[p] \in Nat
  BY <1>1, <1>2, Lens DEF Commit, LensOK, TypeOK
<1>4. CASE r.op \in {"createWorker", "updateWorker"}
  <2>1. /\ r.worker \in Workers /\ r.number \in Numbers /\ r.number # None
        /\ r.code \in Codes \cup {None}
    BY <1>4, RequestFields, RowLocksAssumption
  <2>2. /\ number' \in [Workers -> Numbers \cup {None}]
        /\ number'[r.worker] = r.number
        /\ code' \in [Workers -> Codes \cup {None}]
        /\ \A w \in Workers : w # r.worker => number'[w] = number[w] /\ code'[w] = code[w]
    BY <1>1, <1>2, <1>4, <2>1 DEF Commit, TypeOK
  <2>3. ASSUME NEW q \in Busy \ {p}, doing[q].op \in {"createWorker", "updateWorker"}
        PROVE  doing[q].worker \in Workers
    BY <1>2, <2>3, BusyRequest, RequestFields
  <2>4. ASSUME NEW q \in Busy \ {p}, doing[q].op = "updateWorker"
        PROVE  /\ number'[doing[q].worker] # None
               /\ step[q] > 1 => /\ number'[doing[q].worker] = number[doing[q].worker]
                                 /\ code'[doing[q].worker] = code[doing[q].worker]
    <3>1. number[doing[q].worker] # None /\ doing[q].worker \in Workers
      BY <1>2, <2>3, <2>4 DEF InFlight
    <3>2. number'[doing[q].worker] # None
      BY <2>1, <2>2, <3>1
    <3>3. ASSUME step[q] > 1 PROVE doing[q].worker # r.worker
      <4>1. r.op = "createWorker" => number[r.worker] = None
        BY <1>1, <1>2 DEF InFlight
      <4>2. q \in Connected
        BY <1>2, <3>3, BusyRequest DEF Connected, TypeOK
      <4>3. r.op = "updateWorker" => doing[q].worker # r.worker
        BY <1>1, <1>2, <1>3, <2>4, <3>3, <4>2 DEF OneUpdater
      <4> QED
        BY <1>4, <3>1, <4>1, <4>3
    <3> QED
      BY <2>2, <3>1, <3>2, <3>3
  <2>5. ASSUME NEW q \in Busy \ {p}, doing[q].op = "createWorker"
        PROVE  number'[doing[q].worker] = None
    <3>1. number[doing[q].worker] = None /\ doing[q].worker \in Workers
      BY <1>2, <2>3, <2>5 DEF InFlight
    <3>2. doing[q].worker # r.worker
      BY <1>1, <1>2, <1>4, <2>5, <3>1 DEF InFlight
    <3> QED
      BY <2>2, <3>1, <3>2
  <2> QED
    BY <2>2, <2>4, <2>5, EndKeepsLocks DEF Commit
<1>5. CASE r.op \notin {"createWorker", "updateWorker"}
  <2>1. number' = number /\ code' = code
    BY <1>1, <1>5 DEF Commit
  <2> QED
    BY <1>2, <2>1, EndKeepsLocks DEF Commit, TypeOK, InFlight
<1> QED
  BY <1>4, <1>5

\* A request that arrives is possible: its worker is there, or to come and in
\* nobody else's hands.
LEMMA ArriveKeepsLocks ==
  ASSUME LocksInv, NEW p \in Procs, NEW r \in Requests, Arrive(p, r)
  PROVE  LocksInv'
<1>1. TypeOK /\ IsFiniteSet(Connected) /\ OneUpdater /\ InFlight
  BY DEF LocksInv
<1>2. p \notin Busy /\ step[p] = 0 /\ UNCHANGED <<number, code, step, poolSize>>
  BY <1>1 DEF Arrive, Busy, TypeOK
<1>3. /\ doing'[p] = r
      /\ \A q \in Procs : q # p => doing'[q] = doing[q]
      /\ doing' \in [Procs -> Requests \cup {Nothing, Done}]
  BY <1>1 DEF Arrive, TypeOK
<1>4. Busy' = Busy \cup {p} /\ Connected' = Connected /\ p \notin Connected
  BY <1>2, <1>3, RequestFields DEF Busy, Connected
<1>5. ASSUME NEW q \in Procs, step'[q] > 0 PROVE q \in Busy' /\ step'[q] <= (Len(Locks(doing[q])))' + 1
  <2>1. q # p /\ q \in Busy /\ doing'[q] = doing[q] /\ step[q] <= Len(Locks(doing[q])) + 1
    BY <1>1, <1>2, <1>3, <1>5 DEF TypeOK
  <2>2. PICK d \in Requests : d = doing[q]
    BY <1>1, <2>1, BusyRequest
  <2>3. (Locks(d))' = Locks(d)
    BY <1>2, LocksKept
  <2> QED
    BY <1>2, <1>4, <2>1, <2>2, <2>3
<1>6. Cardinality(Connected') = Cardinality(Connected)
  BY <1>4, Zenon
<1>7. TypeOK'
  BY <1>1, <1>2, <1>3, <1>5, <1>6 DEF TypeOK
<1>8. OneUpdater'
  <2>1. \A q \in Connected : q \in Procs /\ q # p
    BY <1>4 DEF Connected, Busy
  <2> QED
    BY <1>1, <1>2, <1>3, <1>4, <2>1 DEF OneUpdater
<1>9. InFlight'
  <2>1. \A q \in Busy : q \in Procs /\ q # p
    BY <1>2 DEF Busy
  <2>2. /\ r.op = "updateWorker" => number[r.worker] # None
        /\ r.op = "createWorker" =>
             /\ number[r.worker] = None
             /\ \A q \in Busy : doing[q].op = "createWorker" => doing[q].worker # r.worker
    BY DEF Arrive, Possible
  <2> QED
    BY <1>1, <1>2, <1>3, <1>4, <2>1, <2>2 DEF InFlight
<1> QED
  BY <1>1, <1>4, <1>7, <1>8, <1>9 DEF LocksInv

\* A request that is connected or gets a lock goes one step on.  Past the row of
\* its worker an update gets only when no other update holds the row.
LEMMA StepKeepsLocks ==
  ASSUME LocksInv, NEW p \in Procs, Connect(p) \/ Grant(p)
  PROVE  LocksInv'
<1>1. TypeOK /\ IsFiniteSet(Connected) /\ OneUpdater /\ InFlight
  BY DEF LocksInv
<1>2. UNCHANGED <<number, code, doing, poolSize>> /\ p \in Busy
  BY DEF Connect, Grant, Asking, Connected
<1>3. PICK r \in Requests : r = doing[p]
  BY <1>1, <1>2, BusyRequest
<1>4. /\ step[p] \in Nat /\ step'[p] = step[p] + 1 /\ step' \in [Procs -> Nat]
      /\ \A q \in Procs \ {p} : step'[q] = step[q]
  BY <1>1 DEF Connect, Grant, TypeOK
<1>5. Len(Locks(r)) \in Nat /\ Len(Locks(r)) >= 1 /\ step[p] <= Len(Locks(r))
  BY <1>3, Lens DEF LensOK, Connect, Grant, Asking
<1>6. Busy' = Busy /\ Busy \subseteq Procs
  BY <1>2 DEF Busy
<1>7. Connected' = Connected \cup {p}
  BY <1>1, <1>2, <1>4, <1>6 DEF Connected, TypeOK
<1>8. ASSUME NEW q \in Procs, step'[q] > 0 PROVE q \in Busy' /\ step'[q] <= (Len(Locks(doing[q])))' + 1
  <2>1. q \in Busy
    BY <1>1, <1>2, <1>4, <1>8 DEF TypeOK
  <2>2. PICK d \in Requests : d = doing[q]
    BY <1>1, <2>1, BusyRequest
  <2>3. (Locks(d))' = Locks(d)
    BY <1>2, LocksKept
  <2>4. step'[q] <= Len(Locks(d)) + 1
    <3>1. CASE q = p
      BY <1>3, <1>4, <1>5, <2>2, <3>1
    <3>2. CASE q # p
      BY <1>1, <1>4, <1>8, <2>2, <3>2 DEF TypeOK
    <3> QED
      BY <3>1, <3>2
  <2> QED
    BY <1>2, <1>6, <2>1, <2>2, <2>3, <2>4
<1>9. IsFiniteSet(Connected') /\ Cardinality(Connected') <= poolSize'
  <2>1. poolSize \in Nat /\ Cardinality(Connected) \in Nat /\ Cardinality(Connected) <= poolSize
    BY <1>1, RowLocksAssumption, FS_CardinalityType DEF TypeOK
  <2>2. CASE p \in Connected
    <3>1. Connected' = Connected
      BY <1>7, <2>2
    <3>2. Cardinality(Connected') = Cardinality(Connected) /\ IsFiniteSet(Connected')
      BY <1>1, <3>1, Zenon
    <3> QED
      BY <1>2, <2>1, <3>2
  <2>3. CASE p \notin Connected
    <3>1. Cardinality(Connected) < poolSize
      BY <2>3 DEF Connect, Grant, Asking
    <3>2. PICK C : C = Connected
      OBVIOUS
    <3>3. IsFiniteSet(C \cup {p}) /\ Cardinality(C \cup {p}) = Cardinality(C) + 1
      BY <1>1, <2>3, <3>2, FS_AddElement
    <3>4. Connected' = C \cup {p}
      BY <1>7, <3>2
    <3>5. IsFiniteSet(Connected') /\ Cardinality(Connected') = Cardinality(Connected) + 1
      BY <3>2, <3>3, <3>4, Zenon
    <3> QED
      BY <1>2, <2>1, <3>1, <3>5
  <2> QED
    BY <2>2, <2>3
<1>10. TypeOK'
  BY <1>1, <1>2, <1>4, <1>8, <1>9 DEF TypeOK
<1>11. OneUpdater'
  <2>1. ASSUME NEW q \in Connected, q # p, step[p] = 1, step[q] > 1,
               r.op = "updateWorker", doing[q].op = "updateWorker", doing[q].worker = r.worker
        PROVE  FALSE
    <3>1. Grant(p) /\ Blockers(p) = {}
      BY <2>1 DEF Connect, Grant
    <3>2. doing[q] \in Requests /\ step[q] \in Nat
      BY <1>1, <2>1, BusyRequest DEF Connected, TypeOK
    <3>3. Wanted(p) = Lock("workers", r.worker, "update")
      BY <1>3, <2>1, FirstLock DEF FirstLockOK, Wanted
    <3>4. Lock("workers", r.worker, "update") \in Held(q)
      <4>1. 1 \in 1..(step[q] - 1) /\ Locks(doing[q])[1] = Lock("workers", r.worker, "update")
        BY <2>1, <3>2, FirstLock DEF FirstLockOK
      <4> QED
        BY <4>1 DEF Held
    <3>5. q \in Blockers(p)
      BY <2>1, <3>3, <3>4, LockFields DEF Blockers, Conflict
    <3> QED
      BY <3>1, <3>5
  <2>2. \A q \in Connected : q \in Procs /\ step[q] \in Nat
    BY <1>1, <1>6 DEF Connected, TypeOK
  <2>3. CASE Connect(p)
    <3>1. step'[p] = 1
      BY <1>4, <2>3 DEF Connect
    <3> QED
      BY <1>1, <1>2, <1>4, <1>7, <2>2, <3>1 DEF OneUpdater
  <2>4. CASE Grant(p)
    <3>1. p \in Connected /\ step[p] > 0
      BY <2>4 DEF Grant, Asking, Connected
    <3>2. ASSUME NEW q \in Connected, q # p, step'[p] > 1, step'[q] > 1,
                 doing[p].op = "updateWorker", doing[q].op = "updateWorker"
          PROVE  doing[q].worker # doing[p].worker
      <4>1. step[q] > 1
        BY <1>4, <2>2, <3>2
      <4>2. CASE step[p] = 1
        BY <1>3, <2>1, <3>2, <4>1, <4>2
      <4>3. CASE step[p] > 1
        BY <1>1, <3>1, <3>2, <4>1, <4>3 DEF OneUpdater
      <4> QED
        BY <1>4, <3>1, <4>2, <4>3
    <3>3. Connected' = Connected
      BY <1>7, <3>1
    <3>4. \A q, s \in Connected : q # p /\ s # p => step'[q] = step[q] /\ step'[s] = step[s]
      BY <1>4, <2>2
    <3> QED
      BY <1>1, <1>2, <3>2, <3>3, <3>4 DEF OneUpdater
  <2> QED
    BY <2>3, <2>4
<1>12. InFlight'
  BY <1>1, <1>2, <1>6 DEF InFlight
<1> QED
  BY <1>9, <1>10, <1>11, <1>12 DEF LocksInv

\* One step per action.
LEMMA LocksStep == LocksInv /\ [Next]_vars => LocksInv'
<1> SUFFICES ASSUME LocksInv, [Next]_vars PROVE LocksInv'
  OBVIOUS
<1>1. ASSUME NEW p \in Procs, Refuse(p) \/ DetectDeadlock(p) \/ Abort(p) PROVE LocksInv'
  <2>1. End(p) /\ UNCHANGED <<number, code, poolSize>>
    BY <1>1 DEF Refuse, DetectDeadlock, Abort
  <2> QED
    BY <2>1, EndKeepsLocks DEF LocksInv, TypeOK, InFlight
<1>2. ASSUME UNCHANGED vars PROVE LocksInv'
  <2>1. Busy' = Busy /\ Connected' = Connected /\ UNCHANGED <<number, code, doing, step, poolSize>>
    BY <1>2 DEF vars, Busy, Connected
  <2>2. Cardinality(Connected') = Cardinality(Connected) /\ IsFiniteSet(Connected')
    BY <2>1, Zenon DEF LocksInv
  <2>3. ASSUME NEW p \in Procs, step[p] > 0 PROVE step[p] <= (Len(Locks(doing[p])))' + 1
    <3>1. PICK r \in Requests : r = doing[p]
      BY <2>3, BusyRequest DEF LocksInv, TypeOK
    <3>2. (Locks(r))' = Locks(r)
      BY <2>1, LocksKept
    <3> QED
      BY <2>1, <2>3, <3>1, <3>2 DEF LocksInv, TypeOK
  <2>4. TypeOK'
    BY <2>1, <2>2, <2>3 DEF LocksInv, TypeOK
  <2> QED
    BY <2>1, <2>2, <2>4 DEF LocksInv, OneUpdater, InFlight
<1> QED
  BY <1>1, <1>2, StepKeepsLocks, CommitKeepsLocks, ArriveKeepsLocks DEF Next, Step

\* The locks and the requests stay as they should for any execution: who holds or
\* asks for a lock is connected and serves a request, and two updates of one
\* worker are never both past the worker's row (updateWorker, directory.go).
THEOREM LocksInvariant == Spec => []LocksInv
BY LocksInit, LocksStep, PTL DEF Spec

\* Every variable keeps its type, a request without a connection holds no lock,
\* and the pool never lends more connections than it has.
THEOREM TypeCorrect == Spec => []TypeOK
<1>1. LocksInv => TypeOK
  BY DEF LocksInv
<1> QED
  BY <1>1, LocksInvariant, PTL

-----------------------------------------------------------------------------
(* Deadlocks.                                                              *)

\* What a request that still asks for a lock may hold.
LEMMA HeldWhileAsking ==
  ASSUME NEW r \in Requests, NEW i \in Nat, i >= 1, i < Len(Locks(r))
  PROVE  /\ r.op = "checkOut" =>
              /\ i \in 1..4
              /\ Locks(r)[i].table = CASE i = 1 -> "attendance_sessions" [] i = 2 -> "workers"
                                       [] i = 3 -> "jobs" [] i = 4 -> "service_locations"
         /\ r.op = "correct" => Locks(r)[i].table = "attendance_sessions"
         /\ r.op = "createJob" =>
              /\ Locks(r)[i].mode = "keyShare"
              /\ Locks(r)[i].table \in {"organizations", "service_locations", "workers"}
         /\ r.op = "createWorker" =>
              \/ Locks(r)[i].table = "users_phone"
              \/ Locks(r)[i].table = "organizations" /\ Locks(r)[i].mode = "keyShare"
         /\ r.op = "updateWorker" =>
              \/ Locks(r)[i].table = "users" /\ Locks(r)[i].row = r.worker
              \/ Locks(r)[i].table \in {"workers", "users_phone", "workers_code"}
         /\ r.op = "signIn" => Locks(r)[i].table = "auth_otps"
         /\ r.op = "refresh" => Locks(r)[i].table = "refresh_sessions"
         /\ r.op # "updateLocation"
<1>1. ASSUME r.op = "checkOut"
      PROVE  /\ i \in 1..4
             /\ Locks(r)[i].table = CASE i = 1 -> "attendance_sessions" [] i = 2 -> "workers"
                                      [] i = 3 -> "jobs" [] i = 4 -> "service_locations"
  <2>1. i < 5
    BY <1>1, CheckOutShape
  <2>2. i = 1 \/ i = 2 \/ i = 3 \/ i = 4
    BY <2>1
  <2> QED
    BY <1>1, <2>2, CheckOutShape
<1>2. r.op = "createJob" =>
        /\ Locks(r)[i].mode = "keyShare"
        /\ Locks(r)[i].table \in {"organizations", "service_locations", "workers"}
  BY CreateJobShape
<1>3. /\ r.op = "correct" => Locks(r)[i].table = "attendance_sessions"
      /\ r.op = "signIn" => Locks(r)[i].table = "auth_otps"
      /\ r.op = "refresh" => Locks(r)[i].table = "refresh_sessions"
      /\ r.op # "updateLocation"
  <2>1. r.op \in {"correct", "signIn", "refresh"} => i < 2
    BY CorrectShape, OtherShapes
  <2>2. r.op \in {"correct", "signIn", "refresh"} => i = 1
    BY <2>1
  <2> QED
    BY <2>2, CorrectShape, OtherShapes
<1>4. ASSUME r.op = "createWorker"
      PROVE  \/ Locks(r)[i].table = "users_phone"
             \/ Locks(r)[i].table = "organizations" /\ Locks(r)[i].mode = "keyShare"
  <2>1. i < 3
    BY <1>4, CreateWorkerShape
  <2>2. i = 1 \/ i = 2
    BY <2>1
  <2> QED
    BY <1>4, <2>2, CreateWorkerShape
<1>5. ASSUME r.op = "updateWorker"
      PROVE  \/ Locks(r)[i].table = "users" /\ Locks(r)[i].row = r.worker
             \/ Locks(r)[i].table \in {"workers", "users_phone", "workers_code"}
  <2>1. BeforeCodes(r) \in Nat
    BY DEF BeforeCodes
  <2>2. i = 1 \/ i = 2 \/ i \in 3..BeforeCodes(r) \/ i \in (BeforeCodes(r) + 1)..Len(Locks(r))
    BY <1>5, <2>1, Lens DEF LensOK
  <2> QED
    BY <1>5, <2>2, UpdateWorkerShape, LockFields
<1> QED
  BY <1>1, <1>2, <1>3, <1>4, <1>5

\* What a request asks for after its first lock.
LEMMA WantedLater ==
  ASSUME NEW r \in Requests, NEW i \in Nat, i > 1, i <= Len(Locks(r))
  PROVE  /\ r.op = "checkOut" =>
              /\ i \in 2..5
              /\ Locks(r)[i].table = CASE i = 2 -> "workers" [] i = 3 -> "jobs"
                                       [] i = 4 -> "service_locations" [] i = 5 -> "organizations"
         /\ r.op = "correct" =>
              Locks(r)[i].table = "organizations" /\ Locks(r)[i].mode = "keyShare"
         /\ r.op = "createJob" =>
              /\ Locks(r)[i].mode = "keyShare"
              /\ Locks(r)[i].table \in {"service_locations", "workers"}
         /\ r.op = "createWorker" =>
              \/ Locks(r)[i].table = "organizations" /\ Locks(r)[i].mode = "keyShare"
              \/ Locks(r)[i].table = "workers_code"
         /\ r.op = "updateWorker" =>
              \/ Locks(r)[i].table = "users" /\ Locks(r)[i].row = r.worker
              \/ Locks(r)[i].table \in {"users_phone", "workers_code"}
         /\ r.op \in {"signIn", "refresh"} => Locks(r)[i].table = "users"
         /\ r.op # "updateLocation"
<1>1. r.op = "checkOut" =>
        /\ i \in 2..5
        /\ Locks(r)[i].table = CASE i = 2 -> "workers" [] i = 3 -> "jobs"
                                 [] i = 4 -> "service_locations" [] i = 5 -> "organizations"
  BY CheckOutShape
<1>2. r.op = "createJob" =>
        /\ Locks(r)[i].mode = "keyShare"
        /\ Locks(r)[i].table \in {"service_locations", "workers"}
  BY CreateJobShape
<1>3. /\ r.op = "correct" =>
           Locks(r)[i].table = "organizations" /\ Locks(r)[i].mode = "keyShare"
      /\ r.op = "createWorker" =>
           \/ Locks(r)[i].table = "organizations" /\ Locks(r)[i].mode = "keyShare"
           \/ Locks(r)[i].table = "workers_code"
      /\ r.op \in {"signIn", "refresh"} => Locks(r)[i].table = "users"
      /\ r.op # "updateLocation"
  BY CorrectShape, CreateWorkerShape, OtherShapes
<1>4. ASSUME r.op = "updateWorker"
      PROVE  \/ Locks(r)[i].table = "users" /\ Locks(r)[i].row = r.worker
             \/ Locks(r)[i].table \in {"users_phone", "workers_code"}
  <2>1. BeforeCodes(r) \in Nat
    BY DEF BeforeCodes
  <2>2. i = 2 \/ i \in 3..BeforeCodes(r) \/ i \in (BeforeCodes(r) + 1)..Len(Locks(r))
    BY <1>4, <2>1, Lens DEF LensOK
  <2> QED
    BY <1>4, <2>2, UpdateWorkerShape
<1> QED
  BY <1>1, <1>2, <1>3, <1>4

\* An update enters the index of numbers before that of codes.
LEMMA NumbersThenCodes ==
  ASSUME NEW r \in Requests, r.op = "updateWorker",
         NEW i \in Nat, NEW k \in Nat, i >= 1, i < k, k <= Len(Locks(r))
  PROVE  /\ Locks(r)[i].table = "users_phone" => Locks(r)[k].table \in {"users_phone", "workers_code"}
         /\ Locks(r)[i].table = "workers_code" => Locks(r)[k].table = "workers_code"
<1>1. BeforeCodes(r) \in {2, 4}
  BY DEF BeforeCodes
<1>2. /\ Len(Locks(r)) \in Nat
      /\ Locks(r)[1].table = "workers" /\ Locks(r)[2].table = "users"
      /\ \A j \in 3..BeforeCodes(r) : Locks(r)[j].table = "users_phone"
      /\ \A j \in (BeforeCodes(r) + 1)..Len(Locks(r)) : Locks(r)[j].table = "workers_code"
  BY UpdateWorkerShape, LockFields, Lens DEF LensOK
<1>3. k > 2 => k \in 3..BeforeCodes(r) \/ k \in (BeforeCodes(r) + 1)..Len(Locks(r))
  BY <1>1, <1>2
<1>4. Locks(r)[i].table \in {"users_phone", "workers_code"} => k > 2
  BY <1>2
<1>5. Locks(r)[i].table = "workers_code" => k \in (BeforeCodes(r) + 1)..Len(Locks(r))
  <2>1. i = 1 \/ i = 2 \/ i \in 3..BeforeCodes(r) \/ i > BeforeCodes(r)
    BY <1>1
  <2> QED
    BY <1>1, <1>2, <2>1
<1> QED
  BY <1>2, <1>3, <1>4, <1>5

\* Who waits for whom, when both wait and the first holds a lock already.
WaitsFor(p, q) ==
  \/ doing[p].op = "checkOut" /\ doing[q].op = "checkOut" /\ step[q] > step[p]
  \/ doing[p].op = "checkOut" /\ doing[q].op \in {"createJob", "createWorker"}
  \/ doing[p].op = "createJob" /\ doing[q].op = "checkOut"
  \/ /\ doing[p].op \in {"checkOut", "createJob", "signIn", "refresh"}
     /\ doing[q].op = "updateWorker"
  \/ Enters(p, "users_phone") /\ doing[q].op = "createWorker"
  \/ /\ Enters(p, "users_phone")
     /\ Enters(q, "users_phone") \/ Enters(q, "workers_code")
  \/ /\ doing[p].op = "createWorker" \/ Enters(p, "workers_code")
     /\ Enters(q, "workers_code")

\* No others do: nobody who still waits holds what a correction, or the update of
\* a location, asks for.
LEMMA WhoWaitsForWhom ==
  ASSUME TypeOK, OneUpdater, NEW p, NEW q, Asking(p), Asking(q), step[p] > 1, q \in Blockers(p)
  PROVE  WaitsFor(p, q)
<1>1. /\ p \in Connected /\ q \in Connected /\ p # q
      /\ step[p] \in Nat /\ step[q] \in Nat
      /\ step[p] <= Len(Locks(doing[p])) /\ step[q] <= Len(Locks(doing[q]))
  BY DEF Asking, Blockers, Connected, Busy, TypeOK
<1>2. PICK r \in Requests, s \in Requests : r = doing[p] /\ s = doing[q]
  BY <1>1, BusyRequest DEF Connected
<1>3. PICK i \in Nat, k \in Nat : i = step[p] /\ k = step[q]
  BY <1>1
<1>4. PICK j \in 1..(k - 1) :
        /\ Locks(s)[j].table = Locks(r)[i].table /\ Locks(s)[j].row = Locks(r)[i].row
        /\ Conflict(Locks(s)[j].mode, Locks(r)[i].mode)
  BY <1>2, <1>3 DEF Blockers, Held, Wanted
<1>5. /\ j \in Nat /\ j >= 1 /\ j < k /\ j < Len(Locks(s)) /\ k <= Len(Locks(s))
      /\ i > 1 /\ i <= Len(Locks(r))
  BY <1>1, <1>2, <1>3, <1>4, Lens DEF LensOK
<1>6. Locks(s)[j].mode = "keyShare" => Locks(r)[i].mode # "keyShare"
  BY <1>4 DEF Conflict
<1>7. r.op = "updateWorker" /\ s.op = "updateWorker" => r.worker # s.worker
  <2>1. step[q] > 1
    BY <1>1, <1>3, <1>5
  <2> QED
    BY <1>1, <1>2, <2>1 DEF OneUpdater
<1>8. \A index : /\ Enters(p, index) <=> (r.op = "updateWorker" /\ Locks(r)[i].table = index)
                 /\ Enters(q, index) <=> (s.op = "updateWorker" /\ Locks(s)[k].table = index)
  BY <1>2, <1>3 DEF Enters, Wanted
<1>9. /\ s.op = "updateWorker" /\ Locks(s)[j].table = "users_phone"
           => Enters(q, "users_phone") \/ Enters(q, "workers_code")
      /\ s.op = "updateWorker" /\ Locks(s)[j].table = "workers_code" => Enters(q, "workers_code")
  BY <1>5, <1>8, NumbersThenCodes
<1>10. CASE r.op = "checkOut"
  <2>1. s.op \in {"checkOut", "createJob", "createWorker", "updateWorker"}
    BY <1>4, <1>5, <1>10, RequestFields, HeldWhileAsking, WantedLater
  <2>2. s.op = "checkOut" => j = i
    BY <1>4, <1>5, <1>10, HeldWhileAsking, WantedLater
  <2> QED
    BY <1>2, <1>3, <1>5, <1>10, <2>1, <2>2 DEF WaitsFor
<1>11. CASE r.op = "createJob"
  <2>1. s.op \in {"checkOut", "updateWorker"}
    BY <1>4, <1>5, <1>6, <1>11, RequestFields, HeldWhileAsking, WantedLater
  <2> QED
    BY <1>2, <1>11, <2>1 DEF WaitsFor
<1>12. ASSUME Locks(r)[i].table = "workers_code"
       PROVE  Enters(q, "workers_code")
  <2>1. s.op = "updateWorker"
    BY <1>4, <1>5, <1>12, RequestFields, HeldWhileAsking
  <2> QED
    BY <1>4, <1>9, <1>12, <2>1
<1>13. ~(Locks(r)[i].table = "organizations" /\ Locks(r)[i].mode = "keyShare")
  BY <1>4, <1>5, <1>6, RequestFields, HeldWhileAsking
<1>14. CASE r.op = "createWorker"
  BY <1>2, <1>5, <1>12, <1>13, <1>14, WantedLater DEF WaitsFor
<1>15. r.op \notin {"correct", "updateLocation"}
  BY <1>5, <1>13, WantedLater
<1>16. CASE r.op \in {"signIn", "refresh"}
  <2>1. s.op = "updateWorker"
    BY <1>4, <1>5, <1>16, RequestFields, HeldWhileAsking, WantedLater
  <2> QED
    BY <1>2, <1>16, <2>1 DEF WaitsFor
<1>17. CASE r.op = "updateWorker"
  <2>1. CASE Locks(r)[i].table = "users" /\ Locks(r)[i].row = r.worker
    BY <1>4, <1>5, <1>7, <1>17, <2>1, RequestFields, HeldWhileAsking
  <2>2. CASE Locks(r)[i].table = "users_phone"
    <3>1. s.op = "createWorker" \/ s.op = "updateWorker"
      BY <1>4, <1>5, <2>2, RequestFields, HeldWhileAsking
    <3> QED
      BY <1>2, <1>4, <1>8, <1>9, <1>17, <2>2, <3>1 DEF WaitsFor
  <2>3. CASE Locks(r)[i].table = "workers_code"
    BY <1>8, <1>12, <1>17, <2>3 DEF WaitsFor
  <2> QED
    BY <1>5, <1>17, <2>1, <2>2, <2>3, WantedLater
<1> QED
  BY <1>10, <1>11, <1>14, <1>15, <1>16, <1>17, RequestFields

\* Whoever is in a cycle that is not larger than it must be holds a lock, and
\* waits for another that is in it.
LEMMA CycleMembers ==
  ASSUME TypeOK, NEW D \in Cycles
  PROVE  /\ D # {}
         /\ \A p \in D : /\ Asking(p) /\ step[p] > 1
                         /\ \E q \in D : q \in Blockers(p)
<1>1. /\ D # {} /\ \A p \in D : Asking(p) /\ \E q \in D : q \in Blockers(p)
      /\ \A E \in SUBSET D : Deadlocked(E) => E = D
  BY DEF Cycles, Deadlocked, Waiting
<1>2. ASSUME NEW p, NEW q, q \in Blockers(p) PROVE q # p /\ step[q] > 1
  <2>1. q # p /\ q \in Procs /\ \E l : l \in Held(q)
    BY <1>2 DEF Blockers, Connected, Busy
  <2>2. step[q] \in Nat /\ \E i : i \in 1..(step[q] - 1)
    BY <2>1 DEF Held, TypeOK
  <2> QED
    BY <2>1, <2>2
<1>3. ASSUME NEW p \in D, ~(step[p] > 1) PROVE FALSE
  <2>1. D \ {p} # {}
    BY <1>1, <1>2
  <2>2. \A q \in D \ {p} : Blockers(q) \cap (D \ {p}) # {}
    BY <1>1, <1>2, <1>3
  <2>3. D \ {p} = D
    BY <1>1, <2>1, <2>2 DEF Deadlocked
  <2> QED
    BY <2>3
<1> QED
  BY <1>1, <1>3

\* Check-outs alone are never in a cycle: they lock the tables in one order.
LEMMA CheckOutsAlone ==
  ASSUME TypeOK, NEW D, D # {},
         \A p \in D : /\ doing[p].op = "checkOut" /\ Asking(p) /\ step[p] > 1
                      /\ \E q \in D : step[q] > step[p]
  PROVE  FALSE
<1>1. \A p \in D : step[p] \in Nat /\ step[p] <= 5
  <2> SUFFICES ASSUME NEW p \in D PROVE step[p] \in Nat /\ step[p] <= 5
    OBVIOUS
  <2>1. p \in Busy /\ step[p] <= Len(Locks(doing[p])) /\ step[p] \in Nat
    BY DEF Asking, Connected, Busy, TypeOK
  <2> QED
    BY <2>1, BusyRequest, CheckOutShape
<1>2. \A p \in D : step[p] <= 4
  BY <1>1
<1>3. \A p \in D : step[p] <= 3
  BY <1>1, <1>2
<1>4. \A p \in D : step[p] <= 2
  BY <1>1, <1>3
<1>5. \A p \in D : step[p] <= 1
  BY <1>1, <1>4
<1> QED
  BY <1>1, <1>5

\* Updates that wait in one index, each for another of them, are all of a cycle
\* that is not larger than it must be.
LEMMA WholeCycle ==
  ASSUME NEW D \in Cycles, NEW index,
         \E p \in D : Enters(p, index),
         \A p \in D : Enters(p, index) => \E q \in D : q \in Blockers(p) /\ Enters(q, index)
  PROVE  \A p \in D : Enters(p, index)
<1>1. PICK E \in SUBSET D : \A p \in D : p \in E <=> Enters(p, index)
  <2>1. {p \in D : Enters(p, index)} \in SUBSET D
    OBVIOUS
  <2> QED
    BY <2>1
<1>2. Deadlocked(E)
  BY <1>1 DEF Deadlocked
<1>3. E = D
  BY <1>2 DEF Cycles
<1> QED
  BY <1>1, <1>3

\* The only deadlocks among the transactions, however many there are and whatever
\* their rows: check-outs against the creation of jobs (checkOut, attendance.go,
\* and createJob, jobs.go), updates that exchange the numbers of workers, and
\* updates that exchange their employee codes (updateWorker, directory.go).
THEOREM OnlyKnownDeadlocks == Spec => []DeadlocksAreKnown
<1>1. LocksInv => DeadlocksAreKnown
  <2> SUFFICES ASSUME LocksInv, NEW D \in Cycles
               PROVE  \/ {doing[p].op : p \in D} = {"checkOut", "createJob"}
                      \/ \A p \in D : Enters(p, "users_phone")
                      \/ \A p \in D : Enters(p, "workers_code")
    BY DEF DeadlocksAreKnown
  <2>1. TypeOK /\ OneUpdater
    BY DEF LocksInv
  <2>2. /\ D # {}
        /\ \A p \in D : /\ Asking(p) /\ step[p] > 1
                        /\ \E q \in D : q \in Blockers(p)
    BY <2>1, CycleMembers
  <2>3. \A p \in D : \E q \in D : q \in Blockers(p) /\ WaitsFor(p, q)
    BY <2>1, <2>2, WhoWaitsForWhom
  <2>4. \A p, index : Enters(p, index) => doing[p].op = "updateWorker"
    BY DEF Enters
  <2>5. \A p \in D : ~(Enters(p, "users_phone") /\ Enters(p, "workers_code"))
    BY DEF Enters
  <2>6. CASE \E p \in D : Enters(p, "workers_code")
    <3>1. \A p \in D : Enters(p, "workers_code") =>
            \E q \in D : q \in Blockers(p) /\ Enters(q, "workers_code")
      BY <2>3, <2>4, <2>5 DEF WaitsFor
    <3> QED
      BY <2>6, <3>1, WholeCycle
  <2>7. ASSUME \A p \in D : ~Enters(p, "workers_code")
        PROVE  \A p \in D : doing[p].op # "createWorker"
    BY <2>3, <2>4, <2>7 DEF WaitsFor
  <2>8. CASE /\ \A p \in D : ~Enters(p, "workers_code")
             /\ \E p \in D : Enters(p, "users_phone")
    <3>1. \A p \in D : Enters(p, "users_phone") =>
            \E q \in D : q \in Blockers(p) /\ Enters(q, "users_phone")
      BY <2>3, <2>4, <2>7, <2>8 DEF WaitsFor
    <3> QED
      BY <2>8, <3>1, WholeCycle
  <2>9. CASE \A p \in D : ~Enters(p, "workers_code") /\ ~Enters(p, "users_phone")
    <3>1. \A p \in D : doing[p].op \notin {"createWorker", "updateWorker"}
      BY <2>3, <2>7, <2>9 DEF WaitsFor
    <3>2. \A p \in D : \E q \in D :
            \/ doing[p].op = "checkOut" /\ doing[q].op = "checkOut" /\ step[q] > step[p]
            \/ doing[p].op = "checkOut" /\ doing[q].op = "createJob"
            \/ doing[p].op = "createJob" /\ doing[q].op = "checkOut"
      BY <2>3, <2>9, <3>1 DEF WaitsFor
    <3>3. \E p \in D : doing[p].op = "checkOut"
      BY <2>2, <3>2
    <3>4. \E p \in D : doing[p].op = "createJob"
      <4> SUFFICES ASSUME \A p \in D : doing[p].op # "createJob" PROVE FALSE
        OBVIOUS
      <4>1. \A p \in D : doing[p].op = "checkOut" /\ \E q \in D : step[q] > step[p]
        BY <3>2
      <4> QED
        BY <2>1, <2>2, <4>1, CheckOutsAlone
    <3>5. \A p \in D : doing[p].op \in {"checkOut", "createJob"}
      BY <3>2
    <3> QED
      BY <3>3, <3>4, <3>5
  <2> QED
    BY <2>6, <2>8, <2>9
<1> QED
  BY <1>1, LocksInvariant, PTL
=============================================================================
