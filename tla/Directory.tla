----------------------------- MODULE Directory -----------------------------
(***************************************************************************)
(* What an organization's administrators keep: workers with their users,    *)
(* customers, service locations, jobs and assignments - createWorker,       *)
(* updateWorker, createCustomer, createLocation and updateLocation of       *)
(* directory.go, createJob of jobs.go.                                      *)
(*                                                                         *)
(* A request comes from an administrator of the organization that the       *)
(* session names (requireAdmin, UserFromContext); every other identifier in *)
(* it is the client's, and may be that of any row of any organization.      *)
(* Columns without a bearing on the properties (names, notes, coordinates,  *)
(* rates) are left out, and with them updateCustomer.  A request refused    *)
(* before its first statement is no step.                                   *)
(*                                                                         *)
(* What a transaction has written is in its request until it commits.       *)
(***************************************************************************)
EXTENDS Integers, Sequences, FiniteSets

CONSTANTS
  Orgs,      \* organizations
  Phones,    \* telephone numbers
  Procs,     \* request goroutines that may be running at one time
  MaxUsers,  \* bound on the rows of users
  MaxSites,  \* bound on the rows of customers and on those of service_locations
  MaxJobs    \* bound on the rows of jobs

ASSUME DirectoryAssumption == MaxUsers \in Nat /\ MaxSites \in Nat /\ MaxJobs \in Nat

VARIABLES users, workers, customers, locations, jobs,
          assignments,  \* rows of job_assignments, as a set: (job_id, worker_id) is UNIQUE
          req           \* per request: its next statement, and what it has written

tables == <<users, workers, customers, locations, jobs, assignments>>
vars   == <<users, workers, customers, locations, jobs, assignments, req>>

\* Generated identifiers: a row's place in its table.
Id == Nat \ {0}

User     == [org: Orgs, phone: Phones, active: BOOLEAN]
Worker   == [org: Orgs, user: Id, active: BOOLEAN]
Customer == [org: Orgs]
Location == [org: Orgs, customer: Id]
Job      == [org: Orgs, customer: Id, location: Id]
Assigned == [org: Orgs, job: Id, worker: Id]

\* todo and done: the workers of the request that are still to be assigned,
\* and those that are.
Request ==
  [pc: {"idle"}]
    \cup [pc: {"cwUser", "cwWorker"}, org: Orgs, phone: Phones, active: BOOLEAN]
    \cup [pc: {"uwLock", "uwUser", "uwWorker"}, org: Orgs, worker: Id, phone: Phones,
          active: BOOLEAN]
    \cup [pc: {"cjJob", "cjAssign"}, org: Orgs, customer: Id, location: Id,
          todo: SUBSET Id, done: SUBSET Id]

Become(p, r) == req' = [req EXCEPT ![p] = r]
Idle(p) == Become(p, [pc |-> "idle"])
Goto(p, pc) == req' = [req EXCEPT ![p].pc = pc]

Rows(table) == 1..Len(table)

Init ==
  /\ users = << >> /\ workers = << >> /\ customers = << >>
  /\ locations = << >> /\ jobs = << >> /\ assignments = {}
  /\ req = [p \in Procs |-> [pc |-> "idle"]]

-----------------------------------------------------------------------------
(* Workers.                                                                *)

\* Slip: the column phone_e164 without UNIQUE.
PhoneTaken_Never(ph, except) == FALSE

\* A committed row of users, other than `except', has the number.
PhoneTaken(ph, except) == \E u \in Rows(users) \ {except} : users[u].phone = ph

\* An open transaction has written the number, or has changed it on a row that
\* has it: whoever wants to use it waits.
PhonePending(p, ph) ==
  \E q \in Procs \ {p} :
    \/ req[q].pc \in {"cwWorker", "uwWorker"} /\ req[q].phone = ph
    \/ req[q].pc = "uwWorker" /\ users[workers[req[q].worker].user].phone = ph

BeginCreateWorker(p, o, ph, active) ==
  /\ req[p].pc = "idle"
  /\ Len(users) + Cardinality({q \in Procs : req[q].pc \in {"cwUser", "cwWorker"}}) < MaxUsers
  /\ Become(p, [pc |-> "cwUser", org |-> o, phone |-> ph, active |-> active])
  /\ UNCHANGED tables

\* INSERT INTO users; a number in use is an error: rolled back.
InsertUser(p) ==
  /\ req[p].pc = "cwUser"
  /\ ~PhonePending(p, req[p].phone)
  /\ IF PhoneTaken(req[p].phone, 0) THEN Idle(p) ELSE Goto(p, "cwWorker")
  /\ UNCHANGED tables

\* Slip: the identifier that INSERT INTO users returned is not scanned.
InsertWorker_NoUserId(p) ==
  LET r == req[p]
  IN  /\ r.pc = "cwWorker"
      /\ users' = Append(users, [org |-> r.org, phone |-> r.phone, active |-> r.active])
      /\ workers' = Append(workers, [org |-> r.org, user |-> 0, active |-> r.active])
      /\ Idle(p)
      /\ UNCHANGED <<customers, locations, jobs, assignments>>

\* INSERT INTO workers, commit.
InsertWorker(p) ==
  LET r == req[p]
  IN  /\ r.pc = "cwWorker"
      /\ users' = Append(users, [org |-> r.org, phone |-> r.phone, active |-> r.active])
      /\ workers' = Append(workers, [org |-> r.org, user |-> Len(users) + 1, active |-> r.active])
      /\ Idle(p)
      /\ UNCHANGED <<customers, locations, jobs, assignments>>

\* SELECT ... FROM workers WHERE id = $1 AND organization_id = $2: 404 for a
\* worker of another organization, no step.
BeginUpdateWorker(p, o, w, ph, active) ==
  /\ req[p].pc = "idle"
  /\ workers[w].org = o
  /\ Become(p, [pc |-> "uwLock", org |-> o, worker |-> w, phone |-> ph, active |-> active])
  /\ UNCHANGED tables

\* FOR UPDATE on the worker.
LockWorker(p) ==
  /\ req[p].pc = "uwLock"
  /\ ~ \E q \in Procs \ {p} : /\ req[q].pc \in {"uwUser", "uwWorker"}
                              /\ req[q].worker = req[p].worker
  /\ Goto(p, "uwUser")
  /\ UNCHANGED tables

\* Slip: the user is updated outside the transaction.
UpdateUser_Committed(p) ==
  LET u == workers[req[p].worker].user
  IN  /\ req[p].pc = "uwUser"
      /\ ~PhonePending(p, req[p].phone)
      /\ IF PhoneTaken(req[p].phone, u)
         THEN /\ Idle(p)
              /\ UNCHANGED users
         ELSE /\ Goto(p, "uwWorker")
              /\ users' = [users EXCEPT ![u].phone = req[p].phone, ![u].active = req[p].active]
      /\ UNCHANGED <<workers, customers, locations, jobs, assignments>>

\* UPDATE users; a number in use is an error: rolled back.
UpdateUser(p) ==
  /\ req[p].pc = "uwUser"
  /\ ~PhonePending(p, req[p].phone)
  /\ IF PhoneTaken(req[p].phone, workers[req[p].worker].user) THEN Idle(p) ELSE Goto(p, "uwWorker")
  /\ UNCHANGED tables

\* UPDATE workers, commit.
UpdateWorker(p) ==
  LET r == req[p]
      u == workers[r.worker].user
  IN  /\ r.pc = "uwWorker"
      /\ users' = [users EXCEPT ![u].phone = r.phone, ![u].active = r.active]
      /\ workers' = [workers EXCEPT ![r.worker].active = r.active]
      /\ Idle(p)
      /\ UNCHANGED <<customers, locations, jobs, assignments>>

-----------------------------------------------------------------------------
(* Customers and locations: one statement each, committed by itself.       *)

CreateCustomer(o) ==
  /\ Len(customers) < MaxSites
  /\ customers' = Append(customers, [org |-> o])
  /\ UNCHANGED <<users, workers, locations, jobs, assignments, req>>

\* Slip: EXISTS without organization_id.
CustomerOf_AnyOrg(c, o) == c \in Rows(customers)

\* EXISTS (SELECT 1 FROM customers WHERE id = $2 AND organization_id = $1)
CustomerOf(c, o) == c \in Rows(customers) /\ customers[c].org = o

CreateLocation(o, c) ==
  /\ Len(locations) < MaxSites
  /\ CustomerOf(c, o)
  /\ locations' = Append(locations, [org |-> o, customer |-> c])
  /\ UNCHANGED <<users, workers, customers, jobs, assignments, req>>

\* The location may move to another customer of the organization, whatever
\* jobs are planned at it.
UpdateLocation(o, l, c) ==
  /\ locations[l].org = o
  /\ CustomerOf(c, o)
  /\ locations' = [locations EXCEPT ![l].customer = c]
  /\ UNCHANGED <<users, workers, customers, jobs, assignments, req>>

-----------------------------------------------------------------------------
(* Jobs.                                                                   *)

BeginCreateJob(p, o, c, l, ws) ==
  /\ req[p].pc = "idle"
  /\ ws # {}
  /\ Len(jobs) + Cardinality({q \in Procs : req[q].pc \in {"cjJob", "cjAssign"}}) < MaxJobs
  /\ Become(p, [pc |-> "cjJob", org |-> o, customer |-> c, location |-> l,
                todo |-> ws, done |-> {}])
  /\ UNCHANGED tables

\* EXISTS (SELECT 1 FROM service_locations
\*         WHERE id = $3 AND customer_id = $2 AND organization_id = $1)
LocationOf(l, c, o) == locations[l].org = o /\ locations[l].customer = c

\* Slip: the job is inserted outside the transaction.
InsertJob_Committed(p) ==
  LET r == req[p]
  IN  /\ r.pc = "cjJob"
      /\ IF CustomerOf(r.customer, r.org) /\ LocationOf(r.location, r.customer, r.org)
         THEN /\ jobs' = Append(jobs, [org |-> r.org, customer |-> r.customer,
                                       location |-> r.location])
              /\ Goto(p, "cjAssign")
         ELSE Idle(p) /\ UNCHANGED jobs
      /\ UNCHANGED <<users, workers, customers, locations, assignments>>

\* INSERT INTO jobs ... SELECT ... WHERE EXISTS: 404 without a row.
InsertJob(p) ==
  LET r == req[p]
  IN  /\ r.pc = "cjJob"
      /\ IF CustomerOf(r.customer, r.org) /\ LocationOf(r.location, r.customer, r.org)
         THEN Goto(p, "cjAssign")
         ELSE Idle(p)
      /\ UNCHANGED tables

\* INSERT INTO job_assignments ... WHERE EXISTS: a worker of another
\* organization fails the whole request (400, rolled back).
Assign(p) ==
  LET r == req[p]
  IN  /\ r.pc = "cjAssign"
      /\ \E w \in r.todo :
           IF workers[w].org = r.org
           THEN Become(p, [r EXCEPT !.todo = @ \ {w}, !.done = @ \cup {w}])
           ELSE Idle(p)
      /\ UNCHANGED tables

\* Commit: the job and its assignments appear.
CommitJob(p) ==
  LET r == req[p]
      j == Len(jobs) + 1
  IN  /\ r.pc = "cjAssign"
      /\ r.todo = {}
      /\ jobs' = Append(jobs, [org |-> r.org, customer |-> r.customer, location |-> r.location])
      /\ assignments' = assignments \cup {[org |-> r.org, job |-> j, worker |-> w] : w \in r.done}
      /\ Idle(p)
      /\ UNCHANGED <<users, workers, customers, locations>>

-----------------------------------------------------------------------------
\* A statement fails, the client goes away or the process dies: rolled back.
Abort(p) ==
  /\ req[p].pc # "idle"
  /\ Idle(p)
  /\ UNCHANGED tables

Step(p) ==
  \/ InsertUser(p) \/ InsertWorker(p)
  \/ LockWorker(p) \/ UpdateUser(p) \/ UpdateWorker(p)
  \/ InsertJob(p) \/ Assign(p) \/ CommitJob(p)

Next ==
  \/ \E p \in Procs :
       \/ Step(p) \/ Abort(p)
       \/ \E o \in Orgs, ph \in Phones, a \in BOOLEAN :
            \/ BeginCreateWorker(p, o, ph, a)
            \/ \E w \in Rows(workers) : BeginUpdateWorker(p, o, w, ph, a)
       \/ \E o \in Orgs, c \in Rows(customers), l \in Rows(locations),
             ws \in SUBSET Rows(workers) : BeginCreateJob(p, o, c, l, ws)
  \/ \E o \in Orgs :
       \/ CreateCustomer(o)
       \/ \E c \in Rows(customers) :
            \/ CreateLocation(o, c)
            \/ \E l \in Rows(locations) : UpdateLocation(o, l, c)

Spec == Init /\ [][Next]_vars

-----------------------------------------------------------------------------
(* Properties.                                                             *)

TypeOK ==
  /\ users \in Seq(User) /\ workers \in Seq(Worker)
  /\ customers \in Seq(Customer) /\ locations \in Seq(Location)
  /\ jobs \in Seq(Job) /\ assignments \subseteq Assigned
  /\ req \in [Procs -> Request]

\* Whatever identifiers clients send, a row refers to rows of its own
\* organization and no other.
TenantClosed ==
  /\ \A w \in Rows(workers) : users[workers[w].user].org = workers[w].org
  /\ \A l \in Rows(locations) : customers[locations[l].customer].org = locations[l].org
  /\ \A j \in Rows(jobs) : /\ customers[jobs[j].customer].org = jobs[j].org
                           /\ locations[jobs[j].location].org = jobs[j].org
  /\ \A a \in assignments : jobs[a.job].org = a.org /\ workers[a.worker].org = a.org

\* A worker is active exactly when the user it logs in with is: the two rows
\* are written in one transaction, and two updates of a worker take turns.
ActiveAgrees ==
  \A w \in Rows(workers) : workers[w].active = users[workers[w].user].active

\* A telephone number is one user's, so a code is never sent to another's.
PhoneUnique == \A u, v \in Rows(users) : users[u].phone = users[v].phone => u = v

\* A job that can be seen has all the workers it was created with, hence one
\* at least.
JobsAssigned == \A j \in Rows(jobs) : \E a \in assignments : a.job = j
=============================================================================
