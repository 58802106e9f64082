-------------------------- MODULE DirectoryProofs --------------------------
(***************************************************************************)
(* Proofs about Directory, for any organizations, numbers, goroutines and   *)
(* bounds.                                                                 *)
(***************************************************************************)
EXTENDS Directory, SequenceTheorems, TLAPS

-----------------------------------------------------------------------------
(* Rows that are added and rows that are changed.                          *)

AddedRow(s, t, e) ==
  /\ Len(t) = Len(s) + 1
  /\ \A i \in 1..Len(s) : t[i] = s[i]
  /\ t[Len(s) + 1] = e

ChangedRow(s, t, k, e) ==
  /\ Len(t) = Len(s)
  /\ \A i \in 1..Len(s) : i # k => t[i] = s[i]
  /\ t[k] = e

\* Sequences of rows have a length and rows up to it.
LEMMA RowAt ==
  ASSUME NEW S, NEW s \in Seq(S)
  PROVE  Len(s) \in Nat /\ \A i \in 1..Len(s) : s[i] \in S
BY LenProperties, ElementOfSeq

\* An INSERT.
LEMMA InsertRow ==
  ASSUME NEW S, NEW s \in Seq(S), NEW e \in S, NEW t, t = Append(s, e)
  PROVE  t \in Seq(S) /\ AddedRow(s, t, e)
BY AppendProperties, LenProperties DEF AddedRow

\* An UPDATE.
LEMMA UpdateRow ==
  ASSUME NEW S, NEW s \in Seq(S), NEW k \in 1..Len(s), NEW e \in S,
         NEW t, t = [s EXCEPT ![k] = e]
  PROVE  t \in Seq(S) /\ ChangedRow(s, t, k, e)
<1>1. t \in Seq(S) /\ Len(t) = Len(s)
  BY ExceptSeq
<1>2. \A i \in 1..Len(s) : t[i] = IF i = k THEN e ELSE s[i]
  BY ExceptSeq
<1> QED
  BY <1>1, <1>2 DEF ChangedRow

-----------------------------------------------------------------------------
(* The invariant.                                                          *)

TableTypes ==
  /\ users \in Seq(User) /\ workers \in Seq(Worker)
  /\ customers \in Seq(Customer) /\ locations \in Seq(Location)
  /\ jobs \in Seq(Job) /\ assignments \subseteq Assigned

\* A worker and its user are created together and have the same place in their
\* tables.
Paired ==
  /\ Len(users) = Len(workers)
  /\ \A w \in Rows(workers) : /\ workers[w].user = w
                              /\ users[w].org = workers[w].org
                              /\ users[w].active = workers[w].active

\* References are to rows that there are, of the same organization.
References ==
  /\ \A l \in Rows(locations) :
       /\ locations[l].customer \in Rows(customers)
       /\ customers[locations[l].customer].org = locations[l].org
  /\ \A j \in Rows(jobs) :
       /\ jobs[j].customer \in Rows(customers) /\ jobs[j].location \in Rows(locations)
       /\ customers[jobs[j].customer].org = jobs[j].org
       /\ locations[jobs[j].location].org = jobs[j].org
  /\ \A a \in assignments :
       /\ a.job \in Rows(jobs) /\ a.worker \in Rows(workers)
       /\ jobs[a.job].org = a.org /\ workers[a.worker].org = a.org

\* What a request has been told by its earlier statements still holds.
UpdateKnows(r, ws) ==
  r.pc \in {"uwLock", "uwUser", "uwWorker"} =>
    r.worker \in Rows(ws) /\ ws[r.worker].org = r.org

JobKnows(r, ws, cs, ls) ==
  /\ r.pc \in {"cjJob", "cjAssign"} =>
       /\ r.customer \in Rows(cs) /\ r.location \in Rows(ls)
       /\ r.todo \subseteq Rows(ws) /\ r.done \subseteq Rows(ws)
       /\ r.todo \cup r.done # {}
       /\ \A w \in r.done : ws[w].org = r.org
  /\ r.pc = "cjAssign" => cs[r.customer].org = r.org /\ ls[r.location].org = r.org

\* A number that a request has written is nobody else's.
NumberFree(r, us) ==
  /\ r.pc = "cwWorker" => \A u \in Rows(us) : us[u].phone # r.phone
  /\ r.pc = "uwWorker" => \A u \in Rows(us) : u # r.worker => us[u].phone # r.phone

Requests ==
  /\ req \in [Procs -> Request]
  /\ \A p \in Procs : /\ UpdateKnows(req[p], workers)
                      /\ JobKnows(req[p], workers, customers, locations)
                      /\ NumberFree(req[p], users)

Writing(r) == r.pc \in {"cwWorker", "uwWorker"}

\* No two requests have written the same number.
NumbersApart ==
  \A p, q \in Procs :
    p # q /\ Writing(req[p]) /\ Writing(req[q]) => req[p].phone # req[q].phone

DirectoryInv ==
  /\ TableTypes /\ Paired /\ References /\ PhoneUnique /\ JobsAssigned
  /\ Requests /\ NumbersApart

-----------------------------------------------------------------------------
(* Requests.                                                               *)

\* The fields of a request, by its statement.
LEMMA RequestFields ==
  ASSUME NEW r \in Request
  PROVE  /\ r.pc \in {"idle", "cwUser", "cwWorker", "uwLock", "uwUser", "uwWorker",
                      "cjJob", "cjAssign"}
         /\ r.pc # "idle" => r.org \in Orgs
         /\ r.pc \in {"cwUser", "cwWorker"} => r \in [pc: {"cwUser", "cwWorker"}, org: Orgs, phone: Phones, active: BOOLEAN]
         /\ r.pc \in {"uwLock", "uwUser", "uwWorker"} =>
              r \in [pc: {"uwLock", "uwUser", "uwWorker"}, org: Orgs, worker: Id, phone: Phones, active: BOOLEAN]
         /\ r.pc \in {"cjJob", "cjAssign"} =>
              r \in [pc: {"cjJob", "cjAssign"}, org: Orgs, customer: Id, location: Id,
                     todo: SUBSET Id, done: SUBSET Id]
BY DEF Request

LEMMA IdleRequest == [pc |-> "idle"] \in Request
BY DEF Request

LEMMA NothingKnown ==
  ASSUME NEW r, r.pc = "idle", NEW us, NEW ws, NEW cs, NEW ls
  PROVE  UpdateKnows(r, ws) /\ JobKnows(r, ws, cs, ls) /\ NumberFree(r, us) /\ ~Writing(r)
BY DEF UpdateKnows, JobKnows, NumberFree, Writing

\* Rows are never deleted and never change their organization.
Kept(s, t) ==
  /\ Len(s) \in Nat /\ Len(t) \in Nat
  /\ Len(s) <= Len(t)
  /\ \A i \in 1..Len(s) : t[i].org = s[i].org

LEMMA SameKept ==
  ASSUME NEW S, NEW s \in Seq(S)
  PROVE  Kept(s, s)
BY LenProperties DEF Kept

LEMMA AddedKept ==
  ASSUME NEW s, NEW t, NEW e, Len(s) \in Nat, AddedRow(s, t, e)
  PROVE  Kept(s, t)
BY DEF Kept, AddedRow

LEMMA ChangedKept ==
  ASSUME NEW s, NEW t, NEW e, NEW k \in 1..Len(s), Len(s) \in Nat, ChangedRow(s, t, k, e),
         e.org = s[k].org
  PROVE  Kept(s, t)
BY DEF Kept, ChangedRow

\* So what a request knows of rows stays true.
LEMMA StillKnown ==
  ASSUME NEW r, NEW ws, NEW wt, NEW cs, NEW ct, NEW ls, NEW lt,
         Kept(ws, wt), Kept(cs, ct), Kept(ls, lt),
         UpdateKnows(r, ws), JobKnows(r, ws, cs, ls)
  PROVE  UpdateKnows(r, wt) /\ JobKnows(r, wt, ct, lt)
<1>1. Rows(ws) \subseteq Rows(wt) /\ Rows(cs) \subseteq Rows(ct) /\ Rows(ls) \subseteq Rows(lt)
  BY DEF Kept, Rows
<1>2. /\ \A i \in Rows(ws) : wt[i].org = ws[i].org
      /\ \A i \in Rows(cs) : ct[i].org = cs[i].org
      /\ \A i \in Rows(ls) : lt[i].org = ls[i].org
  BY DEF Kept, Rows
<1>3. UpdateKnows(r, wt)
  BY <1>1, <1>2 DEF UpdateKnows
<1>4. JobKnows(r, wt, ct, lt)
  BY <1>1, <1>2 DEF JobKnows
<1> QED
  BY <1>3, <1>4

AllKept == Kept(workers, workers') /\ Kept(customers, customers') /\ Kept(locations, locations')

\* Goto changes the statement and nothing else.
LEMMA GotoBecomes ==
  ASSUME NEW p \in Procs, NEW pc, Goto(p, pc), req \in [Procs -> Request]
  PROVE  Become(p, [req[p] EXCEPT !.pc = pc])
BY DEF Goto, Become

\* One request goes on: what it knows now, and that others' numbers stay free,
\* is all there is to show.
LEMMA RequestsGoOn ==
  ASSUME Requests, AllKept, NEW p \in Procs, NEW r \in Request, Become(p, r),
         UpdateKnows(r, workers'), JobKnows(r, workers', customers', locations'),
         NumberFree(r, users'),
         \A q \in Procs \ {p} : NumberFree(req[q], users')
  PROVE  Requests'
<1>1. req' \in [Procs -> Request] /\ req'[p] = r /\ \A q \in Procs \ {p} : req'[q] = req[q]
  BY DEF Requests, Become
<1>2. ASSUME NEW q \in Procs \ {p}
      PROVE  UpdateKnows(req[q], workers') /\ JobKnows(req[q], workers', customers', locations')
  BY StillKnown DEF Requests, AllKept
<1>3. ASSUME NEW q \in Procs
      PROVE  /\ UpdateKnows(req'[q], workers')
             /\ JobKnows(req'[q], workers', customers', locations')
             /\ NumberFree(req'[q], users')
  <2>1. CASE q = p
    BY <1>1, <2>1
  <2>2. CASE q # p
    BY <1>1, <1>2, <2>2
  <2> QED
    BY <2>1, <2>2
<1> QED
  BY <1>1, <1>3 DEF Requests

LEMMA NumbersGoOn ==
  ASSUME Requests, NumbersApart, NEW p \in Procs, NEW r, Become(p, r),
         Writing(r) => \A q \in Procs \ {p} : Writing(req[q]) => req[q].phone # r.phone
  PROVE  NumbersApart'
<1>1. req'[p] = r /\ \A q \in Procs \ {p} : req'[q] = req[q]
  BY DEF Requests, Become
<1> QED
  BY <1>1 DEF NumbersApart

\* No request goes on.
LEMMA RequestsWait ==
  ASSUME Requests, NumbersApart, AllKept, users' = users, req' = req
  PROVE  Requests' /\ NumbersApart'
<1>1. \A q \in Procs : UpdateKnows(req[q], workers') /\ JobKnows(req[q], workers', customers', locations')
  BY StillKnown DEF Requests, AllKept
<1> QED
  BY <1>1 DEF Requests, NumbersApart

-----------------------------------------------------------------------------
(* Steps that leave the tables alone.                                      *)

LEMMA TablesStay ==
  ASSUME DirectoryInv, UNCHANGED tables
  PROVE  /\ TableTypes' /\ Paired' /\ References' /\ PhoneUnique' /\ JobsAssigned'
         /\ AllKept
<1>1. TableTypes' /\ Paired' /\ References' /\ PhoneUnique' /\ JobsAssigned'
  BY DEF DirectoryInv, tables, TableTypes, Paired, References, PhoneUnique, JobsAssigned
<1>2. AllKept
  BY SameKept DEF DirectoryInv, TableTypes, AllKept, tables
<1> QED
  BY <1>1, <1>2

LEMMA QuietStep ==
  ASSUME DirectoryInv, UNCHANGED tables, NEW p \in Procs, NEW r \in Request, Become(p, r),
         UpdateKnows(r, workers), JobKnows(r, workers, customers, locations),
         NumberFree(r, users),
         Writing(r) => \A q \in Procs \ {p} : Writing(req[q]) => req[q].phone # r.phone
  PROVE  DirectoryInv'
<1>1. workers' = workers /\ customers' = customers /\ locations' = locations /\ users' = users
  BY DEF tables
<1>2. \A q \in Procs \ {p} : NumberFree(req[q], users')
  BY <1>1 DEF DirectoryInv, Requests
<1>3. Requests'
  BY <1>1, <1>2, TablesStay, RequestsGoOn DEF DirectoryInv
<1>4. NumbersApart'
  BY NumbersGoOn DEF DirectoryInv
<1> QED
  BY <1>3, <1>4, TablesStay DEF DirectoryInv

\* A request that goes idle, rolled back.
LEMMA IdleStep ==
  ASSUME DirectoryInv, UNCHANGED tables, NEW p \in Procs, Idle(p)
  PROVE  DirectoryInv'
<1>1. Become(p, [pc |-> "idle"])
  BY DEF Idle
<1>2. [pc |-> "idle"].pc = "idle"
  OBVIOUS
<1> QED
  BY <1>1, <1>2, IdleRequest, NothingKnown, QuietStep

LEMMA BeginCreateWorkerKeeps ==
  ASSUME DirectoryInv, NEW p \in Procs, NEW o \in Orgs, NEW ph \in Phones, NEW a \in BOOLEAN,
         BeginCreateWorker(p, o, ph, a)
  PROVE  DirectoryInv'
<1> DEFINE r == [pc |-> "cwUser", org |-> o, phone |-> ph, active |-> a]
<1>1. r \in Request /\ Become(p, r) /\ UNCHANGED tables
  BY DEF BeginCreateWorker, Request
<1>2. /\ UpdateKnows(r, workers) /\ JobKnows(r, workers, customers, locations)
      /\ NumberFree(r, users) /\ ~Writing(r)
  BY DEF UpdateKnows, JobKnows, NumberFree, Writing
<1> QED
  BY <1>1, <1>2, QuietStep

LEMMA InsertUserKeeps ==
  ASSUME DirectoryInv, NEW p \in Procs, InsertUser(p)
  PROVE  DirectoryInv'
<1> DEFINE r == [req[p] EXCEPT !.pc = "cwWorker"]
<1>1. req[p] \in Request /\ req[p].pc = "cwUser" /\ UNCHANGED tables
  BY DEF InsertUser, DirectoryInv, Requests
<1>2. CASE PhoneTaken(req[p].phone, 0)
  BY <1>1, <1>2, IdleStep DEF InsertUser
<1>3. CASE ~PhoneTaken(req[p].phone, 0)
  <2>1. Goto(p, "cwWorker") /\ ~PhonePending(p, req[p].phone)
    BY <1>3 DEF InsertUser
  <2>2. Become(p, r)
    BY <2>1, GotoBecomes DEF DirectoryInv, Requests
  <2>3. /\ req[p] \in [pc: {"cwUser", "cwWorker"}, org: Orgs, phone: Phones, active: BOOLEAN]
    BY <1>1, RequestFields
  <2>4. r \in Request /\ r.pc = "cwWorker" /\ r.phone = req[p].phone
    BY <2>3 DEF Request
  <2>5. \A u \in Rows(users) : users[u].phone # r.phone
    BY <1>3, <2>4 DEF PhoneTaken, Rows
  <2>6. /\ UpdateKnows(r, workers) /\ JobKnows(r, workers, customers, locations)
        /\ NumberFree(r, users)
    BY <2>4, <2>5 DEF UpdateKnows, JobKnows, NumberFree
  <2>7. \A q \in Procs \ {p} : Writing(req[q]) => req[q].phone # r.phone
    BY <2>1, <2>4 DEF PhonePending, Writing
  <2> HIDE DEF r
  <2> QED
    BY <1>1, <2>2, <2>4, <2>6, <2>7, QuietStep
<1> QED
  BY <1>2, <1>3

LEMMA BeginUpdateWorkerKeeps ==
  ASSUME DirectoryInv, NEW p \in Procs, NEW o \in Orgs, NEW w \in Rows(workers),
         NEW ph \in Phones, NEW a \in BOOLEAN, BeginUpdateWorker(p, o, w, ph, a)
  PROVE  DirectoryInv'
<1> DEFINE r == [pc |-> "uwLock", org |-> o, worker |-> w, phone |-> ph, active |-> a]
<1>1. w \in Id
  BY RowAt DEF DirectoryInv, TableTypes, Rows, Id
<1>2. r \in Request /\ Become(p, r) /\ UNCHANGED tables
  BY <1>1 DEF BeginUpdateWorker, Request
<1>3. /\ UpdateKnows(r, workers) /\ JobKnows(r, workers, customers, locations)
      /\ NumberFree(r, users) /\ ~Writing(r)
  BY DEF BeginUpdateWorker, UpdateKnows, JobKnows, NumberFree, Writing
<1> QED
  BY <1>2, <1>3, QuietStep

LEMMA LockWorkerKeeps ==
  ASSUME DirectoryInv, NEW p \in Procs, LockWorker(p)
  PROVE  DirectoryInv'
<1> DEFINE r == [req[p] EXCEPT !.pc = "uwUser"]
<1>1. req[p] \in Request /\ req[p].pc = "uwLock" /\ UNCHANGED tables
  BY DEF LockWorker, DirectoryInv, Requests
<1>2. Become(p, r)
  BY GotoBecomes DEF LockWorker, DirectoryInv, Requests
<1>3. req[p] \in [pc: {"uwLock", "uwUser", "uwWorker"}, org: Orgs, worker: Id, phone: Phones,
                  active: BOOLEAN]
  BY <1>1, RequestFields
<1>4. /\ r \in Request /\ r.pc = "uwUser"
      /\ r.worker = req[p].worker /\ r.org = req[p].org
  BY <1>3 DEF Request
<1>5. UpdateKnows(req[p], workers)
  BY DEF DirectoryInv, Requests
<1>6. /\ UpdateKnows(r, workers) /\ JobKnows(r, workers, customers, locations)
      /\ NumberFree(r, users) /\ ~Writing(r)
  BY <1>1, <1>4, <1>5 DEF UpdateKnows, JobKnows, NumberFree, Writing
<1> HIDE DEF r
<1> QED
  BY <1>1, <1>2, <1>4, <1>6, QuietStep

LEMMA UpdateUserKeeps ==
  ASSUME DirectoryInv, NEW p \in Procs, UpdateUser(p)
  PROVE  DirectoryInv'
<1> DEFINE w == req[p].worker
           r == [req[p] EXCEPT !.pc = "uwWorker"]
<1>1. req[p] \in Request /\ req[p].pc = "uwUser" /\ UNCHANGED tables
  BY DEF UpdateUser, DirectoryInv, Requests
<1>2. CASE PhoneTaken(req[p].phone, workers[w].user)
  BY <1>1, <1>2, IdleStep DEF UpdateUser
<1>3. CASE ~PhoneTaken(req[p].phone, workers[w].user)
  <2>1. Goto(p, "uwWorker") /\ ~PhonePending(p, req[p].phone)
    BY <1>3 DEF UpdateUser
  <2>2. Become(p, r)
    BY <2>1, GotoBecomes DEF DirectoryInv, Requests
  <2>3. req[p] \in [pc: {"uwLock", "uwUser", "uwWorker"}, org: Orgs, worker: Id, phone: Phones,
                    active: BOOLEAN]
    BY <1>1, RequestFields
  <2>4. /\ r \in Request /\ r.pc = "uwWorker" /\ r.phone = req[p].phone
        /\ r.worker = w /\ r.org = req[p].org
    BY <2>3 DEF Request
  <2>5. UpdateKnows(req[p], workers)
    BY DEF DirectoryInv, Requests
  <2>6. w \in Rows(workers) /\ workers[w].org = req[p].org
    BY <1>1, <2>5 DEF UpdateKnows
  <2>7. workers[w].user = w
    BY <2>6 DEF DirectoryInv, Paired
  <2>8. \A u \in Rows(users) : u # r.worker => users[u].phone # r.phone
    BY <1>3, <2>4, <2>7 DEF PhoneTaken
  <2>9. /\ UpdateKnows(r, workers) /\ JobKnows(r, workers, customers, locations)
        /\ NumberFree(r, users)
    BY <2>4, <2>6, <2>8 DEF UpdateKnows, JobKnows, NumberFree
  <2>10. \A q \in Procs \ {p} : Writing(req[q]) => req[q].phone # r.phone
    BY <2>1, <2>4 DEF PhonePending, Writing
  <2> HIDE DEF r
  <2> QED
    BY <1>1, <2>2, <2>4, <2>9, <2>10, QuietStep
<1> QED
  BY <1>2, <1>3

LEMMA BeginCreateJobKeeps ==
  ASSUME DirectoryInv, NEW p \in Procs, NEW o \in Orgs, NEW c \in Rows(customers),
         NEW l \in Rows(locations), NEW todo \in SUBSET Rows(workers),
         BeginCreateJob(p, o, c, l, todo)
  PROVE  DirectoryInv'
<1> DEFINE r == [pc |-> "cjJob", org |-> o, customer |-> c, location |-> l,
                 todo |-> todo, done |-> {}]
<1>1. c \in Id /\ l \in Id /\ todo \in SUBSET Id
  BY RowAt DEF DirectoryInv, TableTypes, Rows, Id
<1>2. r \in Request /\ Become(p, r) /\ UNCHANGED tables
  BY <1>1 DEF BeginCreateJob, Request
<1>3. /\ UpdateKnows(r, workers) /\ JobKnows(r, workers, customers, locations)
      /\ NumberFree(r, users) /\ ~Writing(r)
  BY DEF BeginCreateJob, UpdateKnows, JobKnows, NumberFree, Writing
<1> QED
  BY <1>2, <1>3, QuietStep

LEMMA InsertJobKeeps ==
  ASSUME DirectoryInv, NEW p \in Procs, InsertJob(p)
  PROVE  DirectoryInv'
<1> DEFINE r == [req[p] EXCEPT !.pc = "cjAssign"]
           found == /\ CustomerOf(req[p].customer, req[p].org)
                    /\ LocationOf(req[p].location, req[p].customer, req[p].org)
<1>1. req[p] \in Request /\ req[p].pc = "cjJob" /\ UNCHANGED tables
  BY DEF InsertJob, DirectoryInv, Requests
<1>2. CASE ~found
  BY <1>1, <1>2, IdleStep DEF InsertJob
<1>3. CASE found
  <2>1. Become(p, r)
    BY <1>3, GotoBecomes DEF InsertJob, DirectoryInv, Requests
  <2>2. req[p] \in [pc: {"cjJob", "cjAssign"}, org: Orgs, customer: Id, location: Id,
                    todo: SUBSET Id, done: SUBSET Id]
    BY <1>1, RequestFields
  <2>3. /\ r \in Request /\ r.pc = "cjAssign" /\ r.org = req[p].org
        /\ r.customer = req[p].customer /\ r.location = req[p].location
        /\ r.todo = req[p].todo /\ r.done = req[p].done
    BY <2>2 DEF Request
  <2>4. JobKnows(req[p], workers, customers, locations)
    BY DEF DirectoryInv, Requests
  <2>5. JobKnows(r, workers, customers, locations)
    BY <1>1, <1>3, <2>3, <2>4 DEF JobKnows, CustomerOf, LocationOf
  <2>6. UpdateKnows(r, workers) /\ NumberFree(r, users) /\ ~Writing(r)
    BY <2>3 DEF UpdateKnows, NumberFree, Writing
  <2> HIDE DEF r
  <2> QED
    BY <1>1, <2>1, <2>3, <2>5, <2>6, QuietStep
<1> QED
  BY <1>2, <1>3

LEMMA AssignKeeps ==
  ASSUME DirectoryInv, NEW p \in Procs, Assign(p)
  PROVE  DirectoryInv'
<1>1. req[p] \in Request /\ req[p].pc = "cjAssign" /\ UNCHANGED tables
  BY DEF Assign, DirectoryInv, Requests
<1>2. PICK w \in req[p].todo :
        IF workers[w].org = req[p].org
        THEN Become(p, [req[p] EXCEPT !.todo = @ \ {w}, !.done = @ \cup {w}])
        ELSE Idle(p)
  BY DEF Assign
<1> DEFINE r == [req[p] EXCEPT !.todo = @ \ {w}, !.done = @ \cup {w}]
<1>3. CASE workers[w].org # req[p].org
  BY <1>1, <1>2, <1>3, IdleStep
<1>4. CASE workers[w].org = req[p].org
  <2>1. Become(p, r)
    BY <1>2, <1>4
  <2>2. req[p] \in [pc: {"cjJob", "cjAssign"}, org: Orgs, customer: Id, location: Id,
                    todo: SUBSET Id, done: SUBSET Id]
    BY <1>1, RequestFields
  <2>3. /\ r.pc = "cjAssign" /\ r.org = req[p].org
        /\ r.customer = req[p].customer /\ r.location = req[p].location
        /\ r.todo = req[p].todo \ {w} /\ r.done = req[p].done \cup {w}
    BY <1>1, <2>2
  <2>4. r \in Request
    BY <2>2 DEF Request
  <2>5. JobKnows(req[p], workers, customers, locations)
    BY DEF DirectoryInv, Requests
  <2>6. JobKnows(r, workers, customers, locations)
    BY <1>1, <1>4, <2>3, <2>5 DEF JobKnows
  <2>7. UpdateKnows(r, workers) /\ NumberFree(r, users) /\ ~Writing(r)
    BY <2>3 DEF UpdateKnows, NumberFree, Writing
  <2> HIDE DEF r
  <2> QED
    BY <1>1, <2>1, <2>4, <2>6, <2>7, QuietStep
<1> QED
  BY <1>3, <1>4

-----------------------------------------------------------------------------
(* Steps that write a table.                                               *)

\* The rows of a table stay, and references to them stay good.
LEMMA KeptRows ==
  ASSUME NEW s, NEW t, Kept(s, t)
  PROVE  Rows(s) \subseteq Rows(t) /\ \A i \in Rows(s) : t[i].org = s[i].org
BY DEF Kept, Rows

LEMMA AddedRows ==
  ASSUME NEW s, NEW t, NEW e, Len(s) \in Nat, AddedRow(s, t, e)
  PROVE  /\ Rows(t) = Rows(s) \cup {Len(s) + 1}
         /\ \A i \in Rows(s) : t[i] = s[i]
         /\ t[Len(s) + 1] = e
         /\ Len(s) + 1 \notin Rows(s)
BY DEF AddedRow, Rows

LEMMA ChangedRows ==
  ASSUME NEW s, NEW t, NEW k \in Rows(s), NEW e, ChangedRow(s, t, k, e)
  PROVE  /\ Rows(t) = Rows(s)
         /\ \A i \in Rows(s) : i # k => t[i] = s[i]
         /\ t[k] = e
BY DEF ChangedRow, Rows

\* A worker appears with its user.
LEMMA InsertWorkerKeeps ==
  ASSUME DirectoryInv, NEW p \in Procs, InsertWorker(p)
  PROVE  DirectoryInv'
<1> DEFINE r == req[p]
           u == [org |-> r.org, phone |-> r.phone, active |-> r.active]
           w == [org |-> r.org, user |-> Len(users) + 1, active |-> r.active]
           n == Len(users) + 1
<1>1. /\ r \in Request /\ r.pc = "cwWorker"
      /\ users' = Append(users, u) /\ workers' = Append(workers, w)
      /\ Become(p, [pc |-> "idle"])
      /\ UNCHANGED <<customers, locations, jobs, assignments>>
  BY DEF InsertWorker, Idle, DirectoryInv, Requests
<1>2. r \in [pc: {"cwUser", "cwWorker"}, org: Orgs, phone: Phones, active: BOOLEAN]
  BY <1>1, RequestFields
<1>3. /\ users \in Seq(User) /\ workers \in Seq(Worker)
      /\ Len(users) \in Nat /\ Len(workers) = Len(users)
  BY RowAt DEF DirectoryInv, TableTypes, Paired
<1>4. u \in User /\ w \in Worker
  BY <1>2, <1>3 DEF User, Worker, Id
<1>5. u.org = r.org /\ w.org = r.org /\ u.active = w.active /\ w.user = n /\ u.phone = r.phone
  OBVIOUS
<1> HIDE DEF u, w
<1>6. users' \in Seq(User) /\ AddedRow(users, users', u)
  BY <1>1, <1>3, <1>4, InsertRow
<1>7. workers' \in Seq(Worker) /\ AddedRow(workers, workers', w)
  BY <1>1, <1>3, <1>4, InsertRow
<1>8. /\ Rows(users') = Rows(users) \cup {n} /\ \A i \in Rows(users) : users'[i] = users[i]
      /\ users'[n] = u /\ n \notin Rows(users)
  BY <1>3, <1>6, AddedRows
<1>9. /\ Rows(workers') = Rows(workers) \cup {n}
      /\ \A i \in Rows(workers) : workers'[i] = workers[i]
      /\ workers'[n] = w /\ Len(users') = Len(workers')
  BY <1>3, <1>6, <1>7, AddedRows DEF AddedRow
<1>10. AllKept
  <2>1. Kept(workers, workers')
    BY <1>3, <1>7, AddedKept
  <2>2. Kept(customers, customers') /\ Kept(locations, locations')
    BY <1>1, SameKept DEF DirectoryInv, TableTypes
  <2> QED
    BY <2>1, <2>2 DEF AllKept
<1>11. TableTypes'
  BY <1>1, <1>6, <1>7 DEF DirectoryInv, TableTypes
<1>12. Rows(users) = Rows(workers)
  BY <1>3 DEF Rows
<1>13. Paired'
  BY <1>5, <1>8, <1>9, <1>12 DEF DirectoryInv, Paired
<1>14. References'
  BY <1>1, <1>9 DEF DirectoryInv, References
<1>15. \A v \in Rows(users) : users[v].phone # r.phone
  BY <1>1 DEF DirectoryInv, Requests, NumberFree
<1>16. PhoneUnique'
  BY <1>5, <1>8, <1>15 DEF DirectoryInv, PhoneUnique
<1>17. JobsAssigned'
  BY <1>1 DEF DirectoryInv, JobsAssigned
<1>18. ASSUME NEW q \in Procs \ {p}
       PROVE  NumberFree(req[q], users')
  <2>1. NumberFree(req[q], users) /\ (Writing(req[q]) => req[q].phone # r.phone)
    BY <1>1 DEF DirectoryInv, Requests, NumbersApart, Writing
  <2> QED
    BY <1>5, <1>8, <2>1 DEF NumberFree, Writing
<1>19. Requests' /\ NumbersApart'
  <2> DEFINE idle == [pc |-> "idle"]
  <2>1. idle.pc = "idle" /\ idle \in Request /\ Become(p, idle)
    BY <1>1, IdleRequest
  <2> HIDE DEF idle
  <2> QED
    BY <1>10, <1>18, <2>1, NothingKnown, RequestsGoOn, NumbersGoOn DEF DirectoryInv
<1> QED
  BY <1>11, <1>13, <1>14, <1>16, <1>17, <1>19 DEF DirectoryInv

\* A worker and its user are changed alike.
LEMMA UpdateWorkerKeeps ==
  ASSUME DirectoryInv, NEW p \in Procs, UpdateWorker(p)
  PROVE  DirectoryInv'
<1> DEFINE r == req[p]
           k == r.worker
           u1 == [users[k] EXCEPT !.phone = r.phone]
           mid == [users EXCEPT ![k] = u1]
           u == [u1 EXCEPT !.active = r.active]
           w == [workers[k] EXCEPT !.active = r.active]
<1>1. /\ r \in Request /\ r.pc = "uwWorker"
      /\ Become(p, [pc |-> "idle"])
      /\ UNCHANGED <<customers, locations, jobs, assignments>>
  BY DEF UpdateWorker, Idle, DirectoryInv, Requests
<1>2. r \in [pc: {"uwLock", "uwUser", "uwWorker"}, org: Orgs, worker: Id, phone: Phones,
              active: BOOLEAN]
  BY <1>1, RequestFields
<1>3. /\ users \in Seq(User) /\ workers \in Seq(Worker)
      /\ Len(users) \in Nat /\ Len(workers) = Len(users)
  BY RowAt DEF DirectoryInv, TableTypes, Paired
<1>4. k \in Rows(workers) /\ k \in Rows(users)
  BY <1>1, <1>3 DEF DirectoryInv, Requests, UpdateKnows, Rows
<1>5. /\ workers[k].user = k /\ users[k].org = workers[k].org
      /\ users[k] \in User /\ workers[k] \in Worker
  BY <1>3, <1>4, RowAt DEF DirectoryInv, Paired, Rows
<1>6. users' = [mid EXCEPT ![k] = [mid[k] EXCEPT !.active = r.active]]
  BY <1>5 DEF UpdateWorker
<1>7. workers' = [workers EXCEPT ![k] = w]
  BY DEF UpdateWorker
<1>8. /\ u1 \in User /\ u \in User /\ w \in Worker
      /\ u.org = users[k].org /\ w.org = workers[k].org /\ w.user = k
      /\ u.active = w.active /\ u.phone = r.phone
  BY <1>2, <1>5 DEF User, Worker
<1>9. users \in Seq(User) /\ k \in 1..Len(users) /\ k \in 1..Len(workers)
  BY <1>3, <1>4 DEF Rows
<1> HIDE DEF w, u1, mid, u
<1>10. mid \in Seq(User) /\ ChangedRow(users, mid, k, u1)
  BY <1>8, <1>9, UpdateRow DEF mid
<1>11. [mid[k] EXCEPT !.active = r.active] = u
  BY <1>10 DEF ChangedRow, u
<1>12. k \in 1..Len(mid)
  BY <1>9, <1>10 DEF ChangedRow
<1>13. users' = [mid EXCEPT ![k] = u]
  BY <1>6, <1>11
<1>14. users' \in Seq(User) /\ ChangedRow(mid, users', k, u)
  BY <1>8, <1>10, <1>12, <1>13, UpdateRow
<1>15. ChangedRow(users, users', k, u)
  BY <1>10, <1>14 DEF ChangedRow
<1>16. workers' \in Seq(Worker) /\ ChangedRow(workers, workers', k, w)
  BY <1>3, <1>7, <1>8, <1>9, UpdateRow
<1>17. /\ Rows(users') = Rows(users) /\ \A i \in Rows(users) : i # k => users'[i] = users[i]
       /\ users'[k] = u
  BY <1>4, <1>15 DEF ChangedRow, Rows
<1>18. /\ Rows(workers') = Rows(workers)
       /\ \A i \in Rows(workers) : i # k => workers'[i] = workers[i]
       /\ workers'[k] = w /\ Len(users') = Len(workers')
  BY <1>3, <1>4, <1>15, <1>16, ChangedRows DEF ChangedRow
<1>19. Kept(workers, workers')
  BY <1>3, <1>8, <1>9, <1>16, ChangedKept
<1>20. AllKept
  BY <1>1, <1>19, SameKept DEF AllKept, DirectoryInv, TableTypes
<1>21. TableTypes'
  BY <1>1, <1>14, <1>16 DEF DirectoryInv, TableTypes
<1>22. Rows(users) = Rows(workers)
  BY <1>3 DEF Rows
<1>23. Paired'
  <2>1. ASSUME NEW i \in Rows(workers')
        PROVE  /\ workers'[i].user = i /\ users'[i].org = workers'[i].org
               /\ users'[i].active = workers'[i].active
    <3>1. CASE i = k
      BY <1>5, <1>8, <1>17, <1>18, <3>1
    <3>2. CASE i # k
      BY <1>17, <1>18, <1>22, <3>2 DEF DirectoryInv, Paired
    <3> QED
      BY <3>1, <3>2
  <2> QED
    BY <1>18, <2>1 DEF Paired
<1>24. References'
  BY <1>1, <1>18, <1>19, KeptRows DEF DirectoryInv, References
<1>25. \A v \in Rows(users) : v # k => users[v].phone # r.phone
  BY <1>1 DEF DirectoryInv, Requests, NumberFree
<1>26. PhoneUnique'
  BY <1>8, <1>17, <1>25 DEF DirectoryInv, PhoneUnique
<1>27. JobsAssigned'
  BY <1>1 DEF DirectoryInv, JobsAssigned
<1>28. ASSUME NEW q \in Procs \ {p}
       PROVE  NumberFree(req[q], users')
  <2>1. NumberFree(req[q], users) /\ (Writing(req[q]) => req[q].phone # r.phone)
    BY <1>1 DEF DirectoryInv, Requests, NumbersApart, Writing
  <2> QED
    BY <1>8, <1>17, <2>1 DEF NumberFree, Writing
<1>29. Requests' /\ NumbersApart'
  <2> DEFINE idle == [pc |-> "idle"]
  <2>1. idle.pc = "idle" /\ idle \in Request /\ Become(p, idle)
    BY <1>1, IdleRequest
  <2> HIDE DEF idle
  <2> QED
    BY <1>20, <1>28, <2>1, NothingKnown, RequestsGoOn, NumbersGoOn DEF DirectoryInv
<1> QED
  BY <1>21, <1>23, <1>24, <1>26, <1>27, <1>29 DEF DirectoryInv

LEMMA CreateCustomerKeeps ==
  ASSUME DirectoryInv, NEW o \in Orgs, CreateCustomer(o)
  PROVE  DirectoryInv'
<1> DEFINE c == [org |-> o]
<1>1. /\ customers' = Append(customers, c) /\ c \in Customer
      /\ UNCHANGED <<users, workers, locations, jobs, assignments, req>>
  BY DEF CreateCustomer, Customer
<1> HIDE DEF c
<1>2. customers \in Seq(Customer) /\ Len(customers) \in Nat
  BY RowAt DEF DirectoryInv, TableTypes
<1>3. customers' \in Seq(Customer) /\ AddedRow(customers, customers', c)
  BY <1>1, <1>2, InsertRow
<1>4. Kept(customers, customers')
  BY <1>2, <1>3, AddedKept
<1>5. AllKept
  BY <1>1, <1>4, SameKept DEF AllKept, DirectoryInv, TableTypes
<1>6. TableTypes'
  BY <1>1, <1>3 DEF DirectoryInv, TableTypes
<1>7. Paired' /\ PhoneUnique' /\ JobsAssigned'
  BY <1>1 DEF DirectoryInv, Paired, PhoneUnique, JobsAssigned
<1>8. References'
  <2>1. /\ Rows(customers) \subseteq Rows(customers')
        /\ \A i \in Rows(customers) : customers'[i].org = customers[i].org
    BY <1>4, KeptRows
  <2>2. \A l \in Rows(locations) :
          /\ locations[l].customer \in Rows(customers')
          /\ customers'[locations[l].customer].org = locations[l].org
    BY <2>1 DEF DirectoryInv, References
  <2>3. \A j \in Rows(jobs) :
          /\ jobs[j].customer \in Rows(customers') /\ jobs[j].location \in Rows(locations)
          /\ customers'[jobs[j].customer].org = jobs[j].org
          /\ locations[jobs[j].location].org = jobs[j].org
    BY <2>1 DEF DirectoryInv, References
  <2> QED
    BY <1>1, <2>2, <2>3 DEF DirectoryInv, References
<1>9. Requests' /\ NumbersApart'
  BY <1>1, <1>5, RequestsWait DEF DirectoryInv
<1> QED
  BY <1>6, <1>7, <1>8, <1>9 DEF DirectoryInv

LEMMA CreateLocationKeeps ==
  ASSUME DirectoryInv, NEW o \in Orgs, NEW c \in Rows(customers), CreateLocation(o, c)
  PROVE  DirectoryInv'
<1> DEFINE l == [org |-> o, customer |-> c]
           n == Len(locations) + 1
<1>1. /\ locations' = Append(locations, l) /\ customers[c].org = o
      /\ UNCHANGED <<users, workers, customers, jobs, assignments, req>>
  BY DEF CreateLocation, CustomerOf
<1>2. locations \in Seq(Location) /\ Len(locations) \in Nat /\ c \in Id
  BY RowAt DEF DirectoryInv, TableTypes, Rows, Id
<1>3. l \in Location /\ l.org = o /\ l.customer = c
  BY <1>2 DEF Location
<1> HIDE DEF l
<1>4. locations' \in Seq(Location) /\ AddedRow(locations, locations', l)
  BY <1>1, <1>2, <1>3, InsertRow
<1>5. /\ Rows(locations') = Rows(locations) \cup {n}
      /\ \A i \in Rows(locations) : locations'[i] = locations[i]
      /\ locations'[n] = l
  BY <1>2, <1>4 DEF AddedRow, Rows
<1>6. Kept(locations, locations')
  BY <1>2, <1>4, AddedKept
<1>7. AllKept
  BY <1>1, <1>6, SameKept DEF AllKept, DirectoryInv, TableTypes
<1>8. TableTypes'
  BY <1>1, <1>4 DEF DirectoryInv, TableTypes
<1>9. Paired' /\ PhoneUnique' /\ JobsAssigned'
  BY <1>1 DEF DirectoryInv, Paired, PhoneUnique, JobsAssigned
<1>10. References'
  <2>1. ASSUME NEW i \in Rows(locations')
        PROVE  /\ locations'[i].customer \in Rows(customers)
               /\ customers[locations'[i].customer].org = locations'[i].org
    <3>1. CASE i = n
      BY <1>1, <1>3, <1>5, <3>1
    <3>2. CASE i # n
      BY <1>5, <3>2 DEF DirectoryInv, References
    <3> QED
      BY <3>1, <3>2
  <2>2. \A j \in Rows(jobs) :
          /\ jobs[j].customer \in Rows(customers) /\ jobs[j].location \in Rows(locations')
          /\ customers[jobs[j].customer].org = jobs[j].org
          /\ locations'[jobs[j].location].org = jobs[j].org
    BY <1>5 DEF DirectoryInv, References
  <2>3. \A a \in assignments :
          /\ a.job \in Rows(jobs) /\ a.worker \in Rows(workers)
          /\ jobs[a.job].org = a.org /\ workers[a.worker].org = a.org
    BY DEF DirectoryInv, References
  <2> QED
    BY <1>1, <2>1, <2>2, <2>3 DEF References
<1>11. Requests' /\ NumbersApart'
  BY <1>1, <1>7, RequestsWait DEF DirectoryInv
<1> QED
  BY <1>8, <1>9, <1>10, <1>11 DEF DirectoryInv

\* A location moves between customers of its organization, so jobs planned at it
\* stay in the organization too.
LEMMA UpdateLocationKeeps ==
  ASSUME DirectoryInv, NEW o \in Orgs, NEW c \in Rows(customers), NEW k \in Rows(locations),
         UpdateLocation(o, k, c)
  PROVE  DirectoryInv'
<1> DEFINE l == [locations[k] EXCEPT !.customer = c]
<1>1. /\ locations' = [locations EXCEPT ![k] = l]
      /\ customers[c].org = o /\ locations[k].org = o
      /\ UNCHANGED <<users, workers, customers, jobs, assignments, req>>
  BY DEF UpdateLocation, CustomerOf
<1>2. /\ locations \in Seq(Location) /\ Len(locations) \in Nat /\ c \in Id
      /\ k \in 1..Len(locations) /\ locations[k] \in Location
  BY RowAt DEF DirectoryInv, TableTypes, Rows, Id
<1>3. l \in Location /\ l.org = o /\ l.org = locations[k].org /\ l.customer = c
  BY <1>1, <1>2 DEF Location
<1> HIDE DEF l
<1>4. locations' \in Seq(Location) /\ ChangedRow(locations, locations', k, l)
  BY <1>1, <1>2, <1>3, UpdateRow
<1>5. /\ Rows(locations') = Rows(locations)
      /\ \A i \in Rows(locations) : i # k => locations'[i] = locations[i]
      /\ locations'[k] = l
  BY <1>2, <1>4 DEF ChangedRow, Rows
<1>6. Kept(locations, locations')
  BY <1>2, <1>3, <1>4, ChangedKept
<1>7. AllKept
  BY <1>1, <1>6, SameKept DEF AllKept, DirectoryInv, TableTypes
<1>8. TableTypes'
  BY <1>1, <1>4 DEF DirectoryInv, TableTypes
<1>9. Paired' /\ PhoneUnique' /\ JobsAssigned'
  BY <1>1 DEF DirectoryInv, Paired, PhoneUnique, JobsAssigned
<1>10. \A i \in Rows(locations) : locations'[i].org = locations[i].org
  BY <1>6, KeptRows
<1>11. ASSUME NEW i \in Rows(locations')
       PROVE  /\ locations'[i].customer \in Rows(customers)
              /\ customers[locations'[i].customer].org = locations'[i].org
  <2>1. CASE i = k
    BY <1>1, <1>3, <1>5, <2>1
  <2>2. CASE i # k
    BY <1>5, <2>2 DEF DirectoryInv, References
  <2> QED
    BY <2>1, <2>2
<1>12. References'
  <2>1. \A j \in Rows(jobs) :
          /\ jobs[j].customer \in Rows(customers) /\ jobs[j].location \in Rows(locations')
          /\ customers[jobs[j].customer].org = jobs[j].org
          /\ locations'[jobs[j].location].org = jobs[j].org
    BY <1>5, <1>10 DEF DirectoryInv, References
  <2>2. \A a \in assignments :
          /\ a.job \in Rows(jobs) /\ a.worker \in Rows(workers)
          /\ jobs[a.job].org = a.org /\ workers[a.worker].org = a.org
    BY DEF DirectoryInv, References
  <2> QED
    BY <1>1, <1>11, <2>1, <2>2 DEF References
<1>13. Requests' /\ NumbersApart'
  BY <1>1, <1>7, RequestsWait DEF DirectoryInv
<1> QED
  BY <1>8, <1>9, <1>12, <1>13 DEF DirectoryInv

\* A job appears with its assignments.
LEMMA CommitJobKeeps ==
  ASSUME DirectoryInv, NEW p \in Procs, CommitJob(p)
  PROVE  DirectoryInv'
<1> DEFINE r == req[p]
           n == Len(jobs) + 1
           e == [org |-> r.org, customer |-> r.customer, location |-> r.location]
           new == {[org |-> r.org, job |-> n, worker |-> w] : w \in r.done}
<1>1. /\ r \in Request /\ r.pc = "cjAssign" /\ r.todo = {}
      /\ jobs' = Append(jobs, e) /\ assignments' = assignments \cup new
      /\ Become(p, [pc |-> "idle"])
      /\ UNCHANGED <<users, workers, customers, locations>>
  BY DEF CommitJob, Idle, DirectoryInv, Requests
<1>2. r \in [pc: {"cjJob", "cjAssign"}, org: Orgs, customer: Id, location: Id,
              todo: SUBSET Id, done: SUBSET Id]
  BY <1>1, RequestFields
<1>3. JobKnows(r, workers, customers, locations)
  BY DEF DirectoryInv, Requests
<1>4. /\ r.customer \in Rows(customers) /\ r.location \in Rows(locations)
      /\ customers[r.customer].org = r.org /\ locations[r.location].org = r.org
      /\ r.done \subseteq Rows(workers) /\ r.done # {}
      /\ \A w \in r.done : workers[w].org = r.org
  BY <1>1, <1>3 DEF JobKnows
<1>5. jobs \in Seq(Job) /\ Len(jobs) \in Nat /\ n \in Id
  BY RowAt DEF DirectoryInv, TableTypes, Id
<1>6. e \in Job /\ e.org = r.org /\ e.customer = r.customer /\ e.location = r.location
  BY <1>2 DEF Job
<1>7. new \subseteq Assigned
  BY <1>2, <1>5 DEF Assigned
<1>8. \A a \in new : a.job = n /\ a.org = r.org /\ a.worker \in r.done
  OBVIOUS
<1>9. \E a \in new : a.job = n
  <2>1. PICK w \in r.done : TRUE
    BY <1>4
  <2>2. [org |-> r.org, job |-> n, worker |-> w] \in new
    OBVIOUS
  <2> QED
    BY <2>2
<1> HIDE DEF e, new, n
<1>10. jobs' \in Seq(Job) /\ AddedRow(jobs, jobs', e)
  BY <1>1, <1>5, <1>6, InsertRow
<1>11. /\ Rows(jobs') = Rows(jobs) \cup {n} /\ \A i \in Rows(jobs) : jobs'[i] = jobs[i]
       /\ jobs'[n] = e
  BY <1>5, <1>10 DEF n, AddedRow, Rows
<1>12. AllKept
  BY <1>1, SameKept DEF AllKept, DirectoryInv, TableTypes
<1>13. TableTypes'
  BY <1>1, <1>7, <1>10 DEF DirectoryInv, TableTypes
<1>14. Paired' /\ PhoneUnique'
  BY <1>1 DEF DirectoryInv, Paired, PhoneUnique
<1>15. ASSUME NEW j \in Rows(jobs')
       PROVE  /\ jobs'[j].customer \in Rows(customers) /\ jobs'[j].location \in Rows(locations)
              /\ customers[jobs'[j].customer].org = jobs'[j].org
              /\ locations[jobs'[j].location].org = jobs'[j].org
              /\ \E a \in assignments' : a.job = j
  <2>1. CASE j = n
    BY <1>1, <1>4, <1>6, <1>9, <1>11, <2>1
  <2>2. CASE j # n
    BY <1>1, <1>11, <2>2 DEF DirectoryInv, References, JobsAssigned
  <2> QED
    BY <2>1, <2>2
<1>16. ASSUME NEW a \in assignments'
       PROVE  /\ a.job \in Rows(jobs') /\ a.worker \in Rows(workers)
              /\ jobs'[a.job].org = a.org /\ workers[a.worker].org = a.org
  <2>1. CASE a \in assignments
    BY <1>11, <2>1 DEF DirectoryInv, References
  <2>2. CASE a \in new
    BY <1>4, <1>6, <1>8, <1>11, <2>2
  <2> QED
    BY <1>1, <2>1, <2>2
<1>17. References'
  BY <1>1, <1>15, <1>16 DEF DirectoryInv, References
<1>18. JobsAssigned'
  BY <1>15 DEF JobsAssigned
<1>19. \A q \in Procs \ {p} : NumberFree(req[q], users')
  BY <1>1 DEF DirectoryInv, Requests
<1>20. Requests' /\ NumbersApart'
  <2> DEFINE idle == [pc |-> "idle"]
  <2>1. idle.pc = "idle" /\ idle \in Request /\ Become(p, idle)
    BY <1>1, IdleRequest
  <2> HIDE DEF idle
  <2> QED
    BY <1>12, <1>19, <2>1, NothingKnown, RequestsGoOn, NumbersGoOn DEF DirectoryInv
<1> QED
  BY <1>13, <1>14, <1>17, <1>18, <1>20 DEF DirectoryInv

-----------------------------------------------------------------------------
(* The theorems.                                                           *)

LEMMA InitInv == Init => DirectoryInv
<1> SUFFICES ASSUME Init PROVE DirectoryInv
  OBVIOUS
<1>1. TableTypes
  BY EmptySeq DEF Init, TableTypes
<1>2. /\ Rows(users) = {} /\ Rows(workers) = {} /\ Rows(locations) = {} /\ Rows(jobs) = {}
      /\ assignments = {} /\ Len(users) = Len(workers)
  BY EmptySeq DEF Init, Rows
<1>3. Paired /\ References /\ PhoneUnique /\ JobsAssigned
  BY <1>2 DEF Paired, References, PhoneUnique, JobsAssigned
<1>4. \A p \in Procs : req[p] = [pc |-> "idle"]
  BY DEF Init
<1>5. Requests /\ NumbersApart
  <2>1. req \in [Procs -> Request]
    BY IdleRequest DEF Init
  <2>2. \A p \in Procs : req[p].pc = "idle"
    BY <1>4
  <2> QED
    BY <2>1, <2>2, NothingKnown DEF Requests, NumbersApart
<1> QED
  BY <1>1, <1>3, <1>5 DEF DirectoryInv

LEMMA StepInv == DirectoryInv /\ [Next]_vars => DirectoryInv'
<1> SUFFICES ASSUME DirectoryInv, [Next]_vars PROVE DirectoryInv'
  OBVIOUS
<1>1. CASE \E p \in Procs : Step(p) \/ Abort(p)
  <2> SUFFICES ASSUME NEW p \in Procs, Step(p) \/ Abort(p) PROVE DirectoryInv'
    BY <1>1
  <2>1. CASE InsertUser(p) \/ InsertWorker(p)
    BY <2>1, InsertUserKeeps, InsertWorkerKeeps
  <2>2. CASE LockWorker(p) \/ UpdateUser(p) \/ UpdateWorker(p)
    BY <2>2, LockWorkerKeeps, UpdateUserKeeps, UpdateWorkerKeeps
  <2>3. CASE InsertJob(p) \/ Assign(p) \/ CommitJob(p)
    BY <2>3, InsertJobKeeps, AssignKeeps, CommitJobKeeps
  <2>4. CASE Abort(p)
    BY <2>4, IdleStep DEF Abort
  <2> QED
    BY <2>1, <2>2, <2>3, <2>4 DEF Step
<1>2. CASE \E p \in Procs, o \in Orgs, ph \in Phones, a \in BOOLEAN :
             \/ BeginCreateWorker(p, o, ph, a)
             \/ \E w \in Rows(workers) : BeginUpdateWorker(p, o, w, ph, a)
  BY <1>2, BeginCreateWorkerKeeps, BeginUpdateWorkerKeeps
<1>3. CASE \E p \in Procs, o \in Orgs, c \in Rows(customers), l \in Rows(locations),
             ws \in SUBSET Rows(workers) : BeginCreateJob(p, o, c, l, ws)
  BY <1>3, BeginCreateJobKeeps
<1>4. CASE \E o \in Orgs :
             \/ CreateCustomer(o)
             \/ \E c \in Rows(customers) :
                  \/ CreateLocation(o, c)
                  \/ \E l \in Rows(locations) : UpdateLocation(o, l, c)
  BY <1>4, CreateCustomerKeeps, CreateLocationKeeps, UpdateLocationKeeps
<1>5. CASE UNCHANGED vars
  <2>1. UNCHANGED tables /\ req' = req
    BY <1>5 DEF vars, tables
  <2>2. users' = users
    BY <2>1 DEF tables
  <2> QED
    BY <2>1, <2>2, TablesStay, RequestsWait DEF DirectoryInv
<1> QED
  BY <1>1, <1>2, <1>3, <1>4, <1>5 DEF Next

\* The invariant that the others follow from: a worker and its user have the
\* same place, references are good, and what each request knows still holds.
THEOREM DirectoryInvariant == Spec => []DirectoryInv
BY InitInv, StepInv, PTL DEF Spec

\* Types of all tables and requests.
THEOREM TypeCorrect == Spec => []TypeOK
<1>1. DirectoryInv => TypeOK
  BY DEF DirectoryInv, TableTypes, Requests, TypeOK
<1> QED
  BY <1>1, DirectoryInvariant, PTL

\* Whatever identifiers clients send, rows refer to rows of their organization.
THEOREM TenantsAreClosed == Spec => []TenantClosed
<1>1. DirectoryInv => TenantClosed
  BY DEF DirectoryInv, Paired, References, TenantClosed
<1> QED
  BY <1>1, DirectoryInvariant, PTL

\* A worker is active exactly when its user is.
THEOREM WorkerAndUserAgree == Spec => []ActiveAgrees
<1>1. DirectoryInv => ActiveAgrees
  BY DEF DirectoryInv, Paired, ActiveAgrees
<1> QED
  BY <1>1, DirectoryInvariant, PTL

\* A number is one user's, also when requests wait for each other's numbers.
THEOREM NumbersAreUnique == Spec => []PhoneUnique
<1>1. DirectoryInv => PhoneUnique
  BY DEF DirectoryInv
<1> QED
  BY <1>1, DirectoryInvariant, PTL

\* A job that can be seen has workers.
THEOREM JobsHaveWorkers == Spec => []JobsAssigned
<1>1. DirectoryInv => JobsAssigned
  BY DEF DirectoryInv
<1> QED
  BY <1>1, DirectoryInvariant, PTL
=============================================================================
