------------------------------ MODULE RowLocks ------------------------------
(***************************************************************************)
(* The row locks that the handlers of services/api/internal/server take,    *)
(* in the order they take them, and the connections they take them on.      *)
(* A handler's transaction holds every lock until it ends.  Waits can form  *)
(* a cycle; PostgreSQL then fails the statement of one of the waiters.      *)
(*                                                                         *)
(* Locks come from FOR UPDATE, from UPDATE, from a unique index (an entry   *)
(* another transaction is writing is waited for) and from foreign keys (the *)
(* row referred to is locked FOR KEY SHARE when the referring row is        *)
(* inserted).  All rows are of one organization.  Left out are locks that   *)
(* nobody can be waiting for: those on rows the transaction has inserted,   *)
(* key shares on customers (nothing locks one FOR UPDATE) and on the user   *)
(* row of an administrator (updateWorker locks those of workers); and those *)
(* of checkIn, which fails before it has any (Attendance).  The statements  *)
(* that are a transaction of their own can wait for one lock, while they    *)
(* hold none that is waited for: updateLocation stands for them.            *)
(***************************************************************************)
EXTENDS Integers, Sequences, FiniteSets

CONSTANTS
  Procs,        \* request goroutines
  Visits,       \* rows of attendance_sessions
  Jobs,         \* rows of jobs
  Sites,        \* rows of service_locations
  Workers,      \* rows of workers with their users, there already or to come
  Numbers,      \* telephone numbers
  Codes,        \* employee codes
  VisitWorker,  \* attendance_sessions.worker_id
  VisitJob,     \* attendance_sessions.job_id
  JobSite,      \* jobs.service_location_id
  FirstNumber,  \* users.phone_e164 at the start, "none" for a worker to come
  FirstCode,    \* workers.employee_code at the start, "none" for NULL
  Requests,     \* the requests that are made
  PoolSizes     \* limits of the pool: the default is 4 or the number of processors

None == "none"
Nothing == [op |-> "nothing"]
Done == [op |-> "done"]

ASSUME RowLocksAssumption ==
  /\ VisitWorker \in [Visits -> Workers]
  /\ VisitJob \in [Visits -> Jobs]
  /\ JobSite \in [Jobs -> Sites]
  /\ None \notin Numbers \cup Codes
  /\ FirstNumber \in [Workers -> Numbers \cup {None}]
  /\ \A v, w \in Workers :
       FirstNumber[v] = FirstNumber[w] /\ v # w => FirstNumber[v] = None
  /\ FirstCode \in [Workers -> Codes \cup {None}]
  /\ \A v, w \in Workers :
       /\ FirstCode[v] = FirstCode[w] /\ v # w => FirstCode[v] = None
       /\ FirstNumber[v] = None => FirstCode[v] = None
  /\ \A r \in Requests :
       \/ r \in [op: {"checkOut", "correct"}, visit: Visits]
       \/ r \in [op: {"createJob"}, site: Sites, team: Seq(Workers)]
       \/ r \in [op: {"createWorker", "updateWorker"}, worker: Workers, number: Numbers,
                code: Codes \cup {None}]
       \/ r \in [op: {"signIn", "refresh"}, worker: Workers]
       \/ r \in [op: {"updateLocation"}, site: Sites]
  /\ PoolSizes \subseteq Nat \ {0}

VARIABLES
  number,   \* users.phone_e164 of each worker, None before the worker is created
  code,     \* workers.employee_code of each worker, None if it has none
  doing,    \* per goroutine: the request it serves
  step,     \* per goroutine: 0 while it waits for a connection, otherwise the
            \* place of the lock it asks for among those of its request
  poolSize  \* pgxpool.Config.MaxConns, given at start-up

vars == <<number, code, doing, step, poolSize>>

Busy == {p \in Procs : doing[p] \notin {Nothing, Done}}

-----------------------------------------------------------------------------
(* The locks of each request, in order.                                    *)

Lock(table, row, mode) == [table |-> table, row |-> row, mode |-> mode]

Organization == "organization"

\* FOR UPDATE without OF: the row of every table of the join, in the order of
\* the FROM clause.  The event's foreign keys find the locks held.
CheckOutLocks(r) ==
  LET job == VisitJob[r.visit]
  IN  << Lock("attendance_sessions", r.visit, "update"),
         Lock("workers", VisitWorker[r.visit], "update"),
         Lock("jobs", job, "update"),
         Lock("service_locations", JobSite[job], "update"),
         Lock("organizations", Organization, "update") >>

\* Slip: the audit log is written before the session is read.
CorrectLocks_LogFirst(r) ==
  << Lock("organizations", Organization, "keyShare"),
     Lock("attendance_sessions", r.visit, "update") >>

\* The session FOR UPDATE, then the organization for the audit log.
CorrectLocks(r) ==
  << Lock("attendance_sessions", r.visit, "update"),
     Lock("organizations", Organization, "keyShare") >>

\* The new job refers to organization and location, each assignment to its
\* worker, in the order of the list.
CreateJobLocks(r) ==
  << Lock("organizations", Organization, "keyShare"),
     Lock("service_locations", r.site, "keyShare") >>
    \o [i \in 1..Len(r.team) |-> Lock("workers", r.team[i], "keyShare")]

\* An entry of the unique index of codes.  NULLs are distinct from each other.
Entry(worker, c) == IF c = None THEN <<worker>> ELSE c

\* The number is entered in its unique index, then the foreign key of the user
\* checked; the worker's row follows with the code.
CreateWorkerLocks(r) ==
  << Lock("users_phone", r.number, "update"),
     Lock("organizations", Organization, "keyShare"),
     Lock("workers_code", Entry(r.worker, r.code), "update") >>

\* The user's row: a new number changes a key column and has to wait in the
\* index, after the new row version has given up the old one.
UserLocks(r) ==
  IF number[r.worker] = r.number
  THEN << Lock("users", r.worker, "noKeyUpdate") >>
  ELSE << Lock("users", r.worker, "update"),
          Lock("users_phone", number[r.worker], "update"),
          Lock("users_phone", r.number, "update") >>

\* A new code likewise.
CodeLocks(r) ==
  IF code[r.worker] = r.code THEN << >>
  ELSE << Lock("workers_code", Entry(r.worker, code[r.worker]), "update"),
          Lock("workers_code", Entry(r.worker, r.code), "update") >>

\* The worker FOR UPDATE, then the UPDATE of the user and that of the worker.
UpdateWorkerLocks(r) ==
  << Lock("workers", r.worker, "update") >> \o UserLocks(r) \o CodeLocks(r)

\* VerifyOTP: the code FOR UPDATE, then users.last_login_at.
SignInLocks(r) ==
  << Lock("auth_otps", r.worker, "update"), Lock("users", r.worker, "noKeyUpdate") >>

\* Refresh: the session FOR UPDATE, then the user the new session refers to.
RefreshLocks(r) ==
  << Lock("refresh_sessions", r.worker, "update"), Lock("users", r.worker, "keyShare") >>

UpdateLocationLocks(r) == << Lock("service_locations", r.site, "noKeyUpdate") >>

Locks(r) ==
  CASE r.op = "checkOut"       -> CheckOutLocks(r)
    [] r.op = "correct"        -> CorrectLocks(r)
    [] r.op = "createJob"      -> CreateJobLocks(r)
    [] r.op = "createWorker"   -> CreateWorkerLocks(r)
    [] r.op = "updateWorker"   -> UpdateWorkerLocks(r)
    [] r.op = "signIn"         -> SignInLocks(r)
    [] r.op = "refresh"        -> RefreshLocks(r)
    [] r.op = "updateLocation" -> UpdateLocationLocks(r)

-----------------------------------------------------------------------------
(* Waiting.                                                                *)

\* PostgreSQL's row-level lock modes, as far as they occur.
Conflict(m, n) ==
  \/ "update" \in {m, n}
  \/ m = "noKeyUpdate" /\ n = "noKeyUpdate"

Connected == {p \in Busy : step[p] > 0}

Held(p) == LET all == Locks(doing[p]) IN {all[i] : i \in 1..(step[p] - 1)}

Asking(p) == p \in Connected /\ step[p] <= Len(Locks(doing[p]))

Wanted(p) == Locks(doing[p])[step[p]]

\* The transactions that hold what p asks for.
Blockers(p) ==
  LET want == Wanted(p)
  IN  {q \in Connected \ {p} :
         \E l \in Held(q) : /\ l.table = want.table /\ l.row = want.row
                            /\ Conflict(l.mode, want.mode)}

Waiting == {p \in Procs : Asking(p) /\ Blockers(p) # {}}

\* Everyone in D waits for another of D, and no fewer do.
Deadlocked(D) == D # {} /\ \A p \in D : Blockers(p) \cap D # {}

Cycles ==
  {D \in SUBSET Waiting : /\ Deadlocked(D)
                          /\ \A E \in SUBSET D : Deadlocked(E) => E = D}

-----------------------------------------------------------------------------
(* The requests.                                                           *)

Init ==
  /\ number = FirstNumber /\ code = FirstCode
  /\ doing = [p \in Procs |-> Nothing]
  /\ step = [p \in Procs |-> 0]
  /\ poolSize \in PoolSizes

\* Workers are signed in and updated once they are there; each request that
\* creates a worker makes a row of its own.
Possible(r) ==
  /\ r.op \in {"updateWorker", "signIn", "refresh"} => number[r.worker] # None
  /\ r.op = "createWorker" =>
       /\ number[r.worker] = None
       /\ \A q \in Busy : doing[q].op = "createWorker" => doing[q].worker # r.worker

\* A request arrives and asks the pool for a connection (pool.Begin).
Arrive(p, r) ==
  /\ doing[p] = Nothing
  /\ Possible(r)
  /\ doing' = [doing EXCEPT ![p] = r]
  /\ UNCHANGED <<number, code, step, poolSize>>

\* Slip: a connection more than there are.
Connect_OneMore(p) ==
  /\ p \in Busy /\ step[p] = 0
  /\ Cardinality(Connected) <= poolSize
  /\ step' = [step EXCEPT ![p] = 1]
  /\ UNCHANGED <<number, code, doing, poolSize>>

\* pgxpool lends a connection, or keeps the request waiting for one.
Connect(p) ==
  /\ p \in Busy /\ step[p] = 0
  /\ Cardinality(Connected) < poolSize
  /\ step' = [step EXCEPT ![p] = 1]
  /\ UNCHANGED <<number, code, doing, poolSize>>

\* The statement that asks for the lock fails once it need not wait: the
\* number or code is another worker's, the worker of a new job is not there or
\* is in the list twice.
Refused(p) ==
  LET r == doing[p]
  IN  \/ /\ r.op \in {"createWorker", "updateWorker"}
         /\ \E w \in Workers :
              \/ number[w] = r.number /\ Wanted(p) = Lock("users_phone", number[w], "update")
              \/ /\ code[w] = r.code /\ r.code # None
                 /\ Wanted(p) = Lock("workers_code", code[w], "update")
      \/ /\ r.op = "createJob"
         /\ step[p] > 2
         /\ \/ number[Wanted(p).row] = None
            \/ Wanted(p) \in Held(p)

End(p) ==
  /\ doing' = [doing EXCEPT ![p] = Done]
  /\ step' = [step EXCEPT ![p] = 0]

Grant(p) ==
  /\ Asking(p)
  /\ Blockers(p) = {}
  /\ ~Refused(p)
  /\ step' = [step EXCEPT ![p] = @ + 1]
  /\ UNCHANGED <<number, code, doing, poolSize>>

\* Slip: a handler returns on an error and leaves the transaction open.
Refuse_NoRollback(p) ==
  /\ Asking(p)
  /\ Blockers(p) = {}
  /\ Refused(p)
  /\ UNCHANGED vars

\* The error is answered and the deferred Rollback runs.
Refuse(p) ==
  /\ Asking(p)
  /\ Blockers(p) = {}
  /\ Refused(p)
  /\ End(p)
  /\ UNCHANGED <<number, code, poolSize>>

\* Every lock is held: the rest of the transaction and its commit.
Commit(p) ==
  LET r == doing[p]
  IN  /\ p \in Connected /\ step[p] > Len(Locks(r))
      /\ IF r.op \in {"createWorker", "updateWorker"}
         THEN /\ number' = [number EXCEPT ![r.worker] = r.number]
              /\ code' = [code EXCEPT ![r.worker] = r.code]
         ELSE UNCHANGED <<number, code>>
      /\ End(p)
      /\ UNCHANGED poolSize

\* After deadlock_timeout a waiter finds itself in a cycle and its statement
\* fails.
DetectDeadlock(p) ==
  /\ p \in UNION Cycles
  /\ End(p)
  /\ UNCHANGED <<number, code, poolSize>>

\* Another statement fails or refuses, or the client goes away: rolled back.
Abort(p) ==
  /\ p \in Busy
  /\ End(p)
  /\ UNCHANGED <<number, code, poolSize>>

Step(p) == Connect(p) \/ Grant(p) \/ Refuse(p) \/ Commit(p) \/ DetectDeadlock(p)

Next ==
  \E p \in Procs :
    \/ Step(p) \/ Abort(p)
    \/ \E r \in Requests : Arrive(p, r)

Spec == Init /\ [][Next]_vars

\* A goroutine that can go on goes on.  Weak fairness only: a statement that
\* waits FOR UPDATE is not protected from key shares that come after it.
Fairness == \A p \in Procs : WF_vars(Step(p))

FairSpec == Spec /\ Fairness

-----------------------------------------------------------------------------
(* Properties.                                                             *)

\* Types; a request that waits for a connection holds no lock, and the pool
\* never lends more connections than it has.
TypeOK ==
  /\ number \in [Workers -> Numbers \cup {None}]
  /\ code \in [Workers -> Codes \cup {None}]
  /\ doing \in [Procs -> Requests \cup {Nothing, Done}]
  /\ step \in [Procs -> Nat]
  /\ \A p \in Procs : step[p] > 0 => p \in Busy /\ step[p] <= Len(Locks(doing[p])) + 1
  /\ poolSize \in PoolSizes /\ Cardinality(Connected) <= poolSize

\* An update that waits in a unique index to enter a number or a code.
Enters(p, index) == doing[p].op = "updateWorker" /\ Wanted(p).table = index

\* The deadlocks there are: check-outs, which lock the whole join, against the
\* creation of jobs at their location or for their workers; and updates that
\* exchange the numbers or the employee codes of workers.  No sign-in, refresh,
\* correction, new worker or other update is ever the victim of one.
DeadlocksAreKnown ==
  \A D \in Cycles :
    \/ {doing[p].op : p \in D} = {"checkOut", "createJob"}
    \/ \A p \in D : Enters(p, "users_phone")
    \/ \A p \in D : Enters(p, "workers_code")

\* Every request ends, also those that were in a deadlock: whoever holds a lock
\* or a connection gives it back.
RequestsEnd == Busy # {} ~> Busy = {}
=============================================================================
