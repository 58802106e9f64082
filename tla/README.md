# A specification of WorkPin

WorkPin records the attendance of field teams: workers log in with a one-time
code, check in and out of jobs, administrators correct the records, and hours
and pay follow. This directory holds TLA+ modules for the API
(`services/api`), the TLC configurations that check them on small instances,
and proofs checked by TLAPS.

`tlc -config MCOtpLogin.cfg MCOtpLogin.tla` checks one run; `tlapm
OtpLoginProofs.tla` checks the proofs. `PROJECT.json` lists every run with its
properties, maps definitions to the lines they model, and names for each
property a *slip*: an altered definition, kept beside the real one
(`CodeAccepted_OffByOne` and so on), with which that property fails.

## The system

The API is one Go process. `net/http` runs each request in a goroutine; all
requests share a pool of PostgreSQL connections and one in-memory hub of
websockets. Everything durable is in the database, and almost all
concurrency control is the database's: READ COMMITTED transactions, row locks
and constraints.

| Component | State | Operations | Talks to |
|---|---|---|---|
| One-time codes, `internal/auth/auth.go` | `auth_otps`; `users` (read) | RequestOTP, VerifyOTP | SMS provider, sessions |
| Opaque sessions, `internal/auth/auth.go` | `refresh_sessions`; `users.active` (read) | newSession, Refresh, Logout, Authenticate | every authenticated route |
| Cookies and guards, `internal/server/server.go` | the browser's two cookies | setSessionCookies, clearSessionCookies, requireAuth, requireAdmin | sessions |
| Attendance, `internal/server/attendance.go` | `attendance_sessions`, `attendance_events` | checkIn, checkOut | hub, directory, jobs |
| Corrections, `internal/server/audit.go` | `attendance_sessions`, `audit_logs` | adminCorrectAttendance | attendance |
| Pay, in both of the above | none | seconds between two instants, amount for seconds at a rate | |
| Hub, `internal/realtime/hub.go` and `ws` in server.go | rooms of connections, `sync.RWMutex` | Add, Remove, Publish | attendance |
| Directory, `internal/server/directory.go` | `users`, `workers`, `customers`, `service_locations` | create and update of each, lists | |
| Jobs, `internal/server/jobs.go` | `jobs`, `job_assignments` | createJob, listJobs, myToday | directory |
| Reports, `internal/server/reports.go` | none (four queries a report) | reportsTimesheets, exportTimesheets | attendance |
| Dashboard, `internal/server/dashboard.go` | none (one query each) | today, activity, map | attendance |
| Process, `cmd/api/main.go` | none | start-up checks, shutdown | |
| Web client, `apps/web` | login form | request, verify, sign out, `/me` | cookies |

**What is hard.** Between any two SQL statements of a request any other
request can run. A statement sees a snapshot taken when it starts; one that
waits for a row evaluates its condition again on the new version of the row,
but with the parameters (`s.now()`) it was given before it waited. Counts are
taken in one statement and acted on in another (RequestOTP). Handlers read the
clock on entry and use it after a wait (checkOut). A transaction can end at any
statement, because a statement fails, the client goes away (all use
`r.Context()`) or the process dies. Transactions lock rows of several tables,
some through joins and foreign keys, and hold a pooled connection meanwhile. A
browser sends the cookies it has and applies answers in the order they arrive,
if they do. The hub writes to sockets while it holds a lock. `PROJECT.json`
lists the hazards with their lines and the properties that cover them.

**What makes each part correct.** Codes: one login per code, never more than
the allowed wrong guesses, only the newest code, the code's own user. Sessions:
a refresh token is traded once, one live pair per login, and a login whose
valid session was logged out is over. A logout that finds its session rotated
already changes nothing, and the new pair lives on: that is no broken promise of
`Sessions` but a mishap that `Browser` counts.
Browser: the pair it holds is the live one, and no other is left live unless
something went wrong. Locks: which requests can deadlock is known, and every
request ends. Reports: the parts of a report agree, and its days are those of
the organization's zone.
Attendance: hours and pay are always those of the stored timestamps at the
session's rate, no change is lost, a completed session changes only with an
audit log. Hub: events stay in their organization, rooms contain exactly the
connections being served, nobody waits for ever. Directory and jobs: rows refer
to rows of their own organization, worker and user agree, jobs have workers.

## Modules

| Module | What it models |
|---|---|
| `OtpLogin` | RequestOTP and VerifyOTP. Each action is one SQL statement or the commit. |
| `OtpLoginProofs` | Theorems about it. |
| `Sessions` | Refresh, Logout, newSession and the condition of Authenticate. |
| `SessionsProofs` | Theorems about it, and that it implements `TokenFamily`. |
| `TokenFamily` | Abstract: per login at most one live token, spent tokens never come back. |
| `Attendance` | checkIn, checkOut, adminCorrectAttendance over the session row. |
| `AttendanceProofs` | Theorems about it, and that it implements `AttendanceLedger`. |
| `AttendanceLedger` | Abstract: records opened, closed, and corrected only with a log that holds the record replaced. |
| `Pay` | Truncation to seconds and PostgreSQL's rounding. |
| `RowLocks` | The row locks of eight handlers in the order they are asked for, the pool's connections, deadlocks. |
| `RowLocksProofs` | Theorems about it. |
| `Browser` | The cookie jar and the handlers of `/auth`, over `TokenFamily`. |
| `BrowserProofs` | Theorems about it. |
| `Reports` | The filter and the queries of a report, while the table changes; extends `Pay`. |
| `ReportsProofs` | Theorems about it and about `Pay`. |
| `Hub` | The hub, the ws handlers and the publishers under the RWMutex. |
| `HubProofs` | Theorems about it. |
| `Directory` | createWorker, updateWorker, createCustomer, createLocation, updateLocation, createJob. |
| `DirectoryProofs` | Theorems about it. |
| `MC*` | Instances for TLC: symmetry sets, constant functions. |

**Correspondence.** Tables are sequences of records in the order their rows
commit; a row's identifier is its place. Goroutines are the set `Procs`; `req`
holds for each the name of its next statement (`pc`) and the handler's locals,
and nothing else, so what a request remembers and what it reads afresh are told
apart. A request that is refused before it reads anything that another request
may change is no step. A `SELECT ... FOR UPDATE` is two actions where the
difference can be seen: the snapshot (`SelectOTP`, `BeginRefresh`) and the
grant of the lock (`LockOTP`, `LockSession`), which evaluates the condition
again. For `ORDER BY ... LIMIT 1 FOR UPDATE` PostgreSQL sorts the snapshot
first and, when the first row no longer qualifies, goes on to the next:
`LockOTP` does that with the set `cands`. What a transaction writes is done in
the step of its commit, because it writes only rows that it holds locked or
new rows nobody can see. `Abort` ends a request at any point and leaves no
writes. Token and code hashes are equality of tokens and codes.

In `Attendance` time runs in ticks finer than a microsecond
(`TicksPerMicro`), because Go computes with nanoseconds and the column keeps
microseconds; `worked_seconds` is computed from the finer instants. The
geofence and accuracy decide nothing but the verification, which is chosen. As
no check-in can be stored (see below), sessions begin by `SeedSession`, a row
written with SQL, as the repository's README does for its first data. Whether a
check-out or a correction can be stored depends on the constant
`SimpleProtocol`: their UPDATEs use the parameter for the working time both as
`worked_seconds` and as `::numeric`, which PostgreSQL refuses when it parses
them. In pgx's simple protocol, chosen in `DATABASE_URL` (main.go:24-29), values
are part of the statement's text and it is accepted; pgx's default, which the
repository's own configuration uses, has every such request end in a 500.

`RowLocks` keeps for each request nothing but how far it has come in its list
of locks, which is all that waits depend on: `CheckOutLocks` and its like are
the handlers, read for locks. A list may depend on the data when it is asked
for: updateWorker has to wait in the unique indexes of numbers (`UserLocks`) and
of employee codes (`CodeLocks`) only if it changes the number or the code; two
workers without a code have entries of their own (`Entry`). `DetectDeadlock`
fails the statement of any waiter in a cycle, as PostgreSQL does after
`deadlock_timeout`. A goroutine serves one request and is done; each request is
of one organization, which all of them lock.

`Browser` builds on `TokenFamily`, which `Sessions` is proved to implement: one
call takes effect on the server in one step of a family (`Server!Login`,
`Server!Rotate`, `Server!End`). `Send` notes the cookies a call takes along, the
answer waits in `call` until `Deliver` applies it to the jar or `Lose` drops it.
`proxied` is a browser behind the nginx of `src/docker`, which serves the API
below `/api/`; the refresh cookie's path is `/auth` (server.go:185), so
there it is never sent and refresh never works. `mishaps` counts what can leave
a pair behind: two calls at once, a login on top of another, a logout without
the access cookie, a refusal of an inactive user's live pair, an error, a lost
call.

`Reports` keeps of the report under way the figures that each query returned
and the number of transactions that committed before it (`gap`). Instants and
zones are integers, an offset changes once per zone and is less than a day;
`Date` is `time.Date`, with its two lookups of the offset, and `NextDay` is
`AddDate(0, 0, 1)`. `SeedSession`, `CheckOut` and `Correct` are what
`AttendanceLedger` lets happen to a row, with the same `SimpleProtocol`.

In `Hub`, `writer` and `readers` are the RWMutex: `AskLock` is a writer that has
called `Lock` and waits until `readers` is empty, and new readers wait behind
it, as `sync.RWMutex` specifies. `Stall` and `Resume` are peers that
stop reading and read again; a write to a stalled peer does not return until
the peer reads or the connection is closed. Two goroutines in one connection's
`WriteJSON` are outside the library's contract: the model lets the second one
end early (a recovered panic) or both finish.

## What is checked

| Run | Instance | Shows |
|---|---|---|
| `otp` | 1 user, 2 goroutines, 2 codes, 2 attempts, 1 code a window, 3 rows, clock to 2 | `SingleUse`, `AttemptLimit`, `NewestFirst`, `RateOverrunBounded`; every request ends |
| `otp_rate` | 2 goroutines, limit 2 | **fails**: the documented limit of codes per window |
| `sessions` | 1 user, 3 goroutines, 3 rows, clock to 2 | rotation implements `TokenFamily`; `OneSuccessor`, `OneAccess`, `LogoutFinal`, `RevokedForever`; every request ends |
| `attendance` | 2 goroutines, 1 session, 2 ticks a microsecond, 2 microseconds a second, clock to 6, 2 corrections, simple protocol | `PayFollowsTimes`, `CheckoutSettles`, `CompletedStays`, with amounts that overflow; the handlers implement `AttendanceLedger` |
| `attendance_checkin` | as above, clock to 3, pgx's default protocol | **fails**: a valid check-in is recorded |
| `attendance_checkout` | the same | **fails**: a payable check-out is recorded |
| `hub` | 2 connections of one organization, 2 publishers of 2 organizations | `TenantOnly`, `RoomsMatchHandlers`, `LoopSeesRoom`; everything ends unless a peer stays stalled |
| `hub_stall` | 3 connections, 2 publishers | **fails**: a publish ends whatever a peer does |
| `directory` | 2 organizations, 2 numbers, 2 goroutines, 2 workers, 2 customers and locations, 1 job | `TenantClosed`, `ActiveAgrees`, `PhoneUnique`, `JobsAssigned` |
| `rowlocks` | 3 goroutines, 2 or 3 connections, 13 requests of 8 kinds over 2 sessions, 3 workers, 2 numbers, 2 employee codes | `DeadlocksAreKnown`; every request ends |
| `browser` | 1 user, 2 calls at a time, 4 pairs, 3 mishaps, with and without the proxy | `OrphansCounted`, `HeldIsLive` |
| `reports` | simple protocol, 2 workers, 2 rates, 2 sessions, 2 transactions during a report, 5 zones, pay of up to 1000 s | `PartsAgree`, `DayFilterIsTheDays`; the amount is exact pay rounded half up, an exact half cent excepted, and longer work never pays less |

The four runs that fail are disagreements between the code and its documents:

- *Rate limit.* The count (auth.go:83) and the insert (:97) are separate
  statements, so concurrent requests overrun the five codes in fifteen minutes
  of docs/ARCHITECTURE.md:14. `RateOverrunBounded` gives what does hold: at most
  one code fewer than the limit plus the number of requests under way.
- *Check-in.* attendance.go:64 stores the verification as the session's status,
  and the CHECK constraint of migration 12 allows none of its values; every
  check-in ends in a 500. docs/PROGRESS.md:86 says doubtful ones are kept as
  `REVIEW_REQUIRED`.
- *Check-out.* attendance.go:131 uses `$2` as `worked_seconds` (BIGINT) and as
  `$2::numeric`. PostgreSQL gives a parameter one type and refuses the statement
  (42P08); audit.go:121-122 does the same with `$3`. With pgx's default, which
  docker-compose.yml:39 leaves in place, every check-out and correction ends in
  a 500, where docs/PROGRESS.md:86 has both ends of a session implemented.
- *Coupling.* A peer that does not read keeps the hub's read lock taken, the
  next Add or Remove waits, and then every publish of every organization, which
  the check-out waits for (WORKPIN_IMPLEMENTATION_PLAN.md:1049). A publish
  follows a check-out that committed, so this too needs the simple protocol.

No run is about one more difference, as the code cannot show it unless it is
given the simple protocol: checkOut accepts the status that it leaves for
doubtful positions, so it can be repeated, replacing hours and pay with no audit
log (against WORKPIN_IMPLEMENTATION_PLAN.md:1424). `Attendance` lets it happen,
and so does the `Close` of `AttendanceLedger`.

**Bounds.** The races here are between two or three requests over one row:
two goroutines are enough for a lost update or a stale read, and a third adds a
logout to two refreshes of one token. The clock runs past every lifetime in the
instance, so codes, access tokens and refresh tokens expire while requests
wait. Limits are as small as they can be and still be reached with requests
left over: two attempts, with an attempt count that overflows right after
them, one code per window with room for three. One session is enough for
attendance because no handler reads two.
Every bound (`MaxTime`, `MaxOtps`, `MaxRows`, `MaxSessions`, `MaxEvents`,
`MaxLogs`, `MaxUsers`, `MaxSites`, `MaxJobs`, `MaxTokens`, `MaxMishaps`,
`MaxCommits`) is a conjunct in the guard of the
action that *begins* a request, counting what the requests under way may add,
so no request is stuck on a bound half way; `InsertCheckIn`'s is the exception,
on a branch that the constraint never lets it take. `Pay` uses a quotient of 6
decimals where PostgreSQL keeps 16 or more, within TLC's integers. Symmetry is
used only in runs without liveness.

`RowLocks` needs three requests for its longest cycle (two check-outs and a
createJob, each waiting for the next), two workers to exchange numbers or codes,
a third that a number and a code are refused to, and a pool of two for requests
that wait for a connection; it is run with both pools. In `Browser` each way to
leave a pair behind was seen to need its own mishap: without any one of them in
the count, `OrphansCounted` fails. In `Reports` a day has four ticks and the
zones change east and west of Greenwich, in the middle of a day, shortly before
midnight and at midnight; at a midnight that is skipped or repeated
`DayFilterIsTheDays` does not hold (`time.Date` gives 23:00 or 01:00 and
`AddDate` keeps that clock time), so the property is about days whose midnights
come once.

**Fairness.** A goroutine that can take its next step takes it (WF): goroutines
are scheduled and statements return. A transaction waiting for a row gets it if
the row is free again and again (SF): PostgreSQL queues the waiters. In the
hub, a waiting writer is next and readers that waited for it go before the next
writer, so neither starves (SF). In `RowLocks` weak fairness is enough, as
each goroutine serves one request; PostgreSQL does let key shares overtake a
waiting FOR UPDATE, so an endless stream of createJob calls could keep a
check-out waiting, which is outside the model. That a peer reads, that users
act, that the clock advances and that nothing aborts is *not* assumed; the hub's
liveness has "every peer reads again and again" as its premise, and the failing
run shows that it is needed.

## What is proved

Each module of theorems proves the types and the safety invariants of one
component for every value of the constants, along one inductive invariant: the
properties that the runs check say too little about what requests under way
know to be kept by every step on their own. There is one lemma for each action.

`OtpLoginProofs`, for any users, codes and goroutines, any limits and times
(`OtpLoginAssumption` only):

- `TypeCorrect`: `Spec => []TypeOK`.
- `CodesAreSingleUse`, `AttemptsAreLimited`: the invariants `SingleUse` and
  `AttemptLimit` of the runs.
- `SessionsAreOwn`: a code logs in the user it was issued to (`OwnCode`).
- `OverrunIsBounded`, `NewestCodeFirst`: the invariant `RateOverrunBounded` and
  the action property `NewestFirst`.

None of these is inductive. For the second to the fourth: whether a redemption
is the first depends on what the request that makes it knows. `LoginInv` adds
that: a request that holds a row (`vfDecide`) holds one that is unredeemed and
its own user's (`HeldRowUnused`); no two requests hold the same row
(`LockExclusive`); the rows a request still waits for are its user's
(`AwaitedRowsOwn`); and every session's code is redeemed (`SessionsRedeemed`).
The lock excludes a second holder; re-evaluating the condition under the lock
gives an unredeemed row; so `Accept` redeems a code that no session has, and the
attempts it compares are those of the row it redeems. There is one lemma per
action (`StoreKeeps...`, `SelectKeeps...`, `LockKeeps...`, `RefuseKeeps...`,
`AcceptKeeps...`), and `LoginInvStep` puts them together.

`RateInv` counts for each user the codes of the window together with the
requests that have counted but not inserted: they never exceed the limit less
one by more than the number of goroutines. A request joins the second set only
where the first is below the limit, and moves from the second to the first when
it inserts. `SearchInv` follows `ORDER BY ... LIMIT 1 FOR UPDATE` through its
wait: every code the SELECT saw that may still be used is among the candidates,
and once a row is held none after it may be used, as a consumed code stays so.

`SessionsProofs`, for any users, goroutines (finitely many at a time) and rows,
and any lifetimes (`SessionsAssumption` only):

- `TypeCorrect`: `Spec => []TypeOK`.
- `RefreshTokensAreSingleUse`, `AccessIsSingle`: the invariants `OneSuccessor`
  and `OneAccess`.
- `LogoutsAreFinal`, `RevocationsLast`: the action properties `LogoutFinal` and
  `RevokedForever`.
- `SessionsImplementFamilies`: `Spec => ImplementsFamilies`, the refinement.

They share one inductive invariant, `SessionInv`. Its first part, `TypeInv`, has
the types and that requests name existing rows. Its second, `FamilyInv`, has two
halves. Of the table: at most one row of a login is valid (`OneValid`), none
once one was logged out (`Ended`), and a row that replaced another finds that
one revoked (`ParentsRevoked`). Of the requests: one that holds a row is the
only one (`HoldersApart`) and the row is valid (`HeldRowValid`). The halves need
each other: a rotation keeps the first because the second says that the row it
rotates is still valid, so it has no successor, its family no other valid row
and no logout; a logout keeps the second because it waits for a held row.
`LoginStep`, `RotateStep` and `RevokeStep` say once what a step does to the
sequence of rows (`LoginRow`, `RotatedRow`, `RevokedRow`); `...KeepsTable` work
from those three, and so do the action properties (`TableStep`). For the
refinement each of the three is one step of `TokenFamily` (`LoginBegins`,
`RotationTrades`, `RevocationEnds`); `RoomInv` adds that the rows and the
refreshes under way fit in the tokens it has.

`DirectoryProofs`, for any organizations, numbers, goroutines and bounds
(`DirectoryAssumption` only):

- `TypeCorrect`: `Spec => []TypeOK`.
- `TenantsAreClosed`, `WorkerAndUserAgree`, `NumbersAreUnique`,
  `JobsHaveWorkers`: the invariants `TenantClosed`, `ActiveAgrees`,
  `PhoneUnique` and `JobsAssigned`.

All follow from `DirectoryInv`. Of the tables it says that a worker and its user
have the same place (`Paired`) and that a reference is to a row that exists, of
the same organization (`References`). Of the requests it says that what their
earlier statements found still holds: the worker that updateWorker locked and
the customer and location that createJob saw are of the organization
(`UpdateKnows`, `JobKnows`), and a number that a request has written is on no
committed row but its own (`NumberFree`) and written by no other request
(`NumbersApart`). The first of these stays true because rows are never deleted
and never change their organization (`Kept`), although a location may change
its customer meanwhile; the last because the unique index makes a second writer
of a number wait. There is one lemma per action (`...Keeps`); those of
actions that leave the tables alone rest on `QuietStep`.

`AttendanceProofs`, for any sessions, rates, clocks, goroutines and bounds
(`AttendanceAssumption` and `PayAssumption`):

- `TypeCorrect`: `Spec => []TypeOK`, which includes that events are published
  only once committed.
- `HoursArePaid`, `SessionsSettle`: the invariants `PayFollowsTimes` and
  `CheckoutSettles`.
- `CompletionLasts`: the action property `CompletedStays`.
- `AttendanceImplementsLedger`: `Spec => ImplementsLedger`, the refinement.

`AttendanceInv` says of each session that its hours and amount are those of its
times (`PaidFor`) and that it is open while it has no check-out (`Settled`), and
of each request that what it read still holds (`Knows`): a check-out about to
commit has the check-in of its row and the row is not completed, a correction
the whole row. That rests on the lock: no two requests hold one row
(`HoldersApart`), and only a holder writes. The steps that change the tables are
of three kinds, `Opens`, `Closes` and `Corrects`; the invariant, the action
property and the refinement are each proved of those.

`HubProofs`, for any organizations, connections and publishers
(`HubAssumption` only): `TypeCorrect`, `EventsStayInTenant`,
`RoomsFollowHandlers` and `LoopsSeeTheRoom`, the invariants `TypeOK`,
`TenantOnly`, `RoomsMatchHandlers` and `LoopSeesRoom`. `HubInv` adds to these
that the connection a publisher writes to is still in the room
(`WritesInRoom`): the read lock keeps out the writers, so a room does not change
between the iteration and the write.

`RowLocksProofs`, for any rows, requests and pool (`RowLocksAssumption` only):
`TypeCorrect` and `OnlyKnownDeadlocks`, the invariants `TypeOK` and
`DeadlocksAreKnown`. Goroutines may be any number, even infinitely many.
`LocksInv` needs little: the connected requests are finitely many, two updates
of one worker are never both past its row (`OneUpdater`), and a worker that is
updated is there, one that is created is not (`InFlight`). The argument is by
who can wait for whom (`WaitsFor`, `WhoWaitsForWhom`): each handler asks for its
locks in the order of a few tables, and an update enters the index of numbers
before that of codes (`NumbersThenCodes`). In a smallest cycle everyone holds a
lock another waits for (`CycleMembers`). Who waits to enter a code waits for
another update that does, so if anyone in the cycle enters a code, all do
(`WholeCycle`); if nobody does, the same is true of numbers; and without either,
check-outs and job creations are left, of which check-outs alone keep to one
order (`CheckOutsAlone`).

`BrowserProofs`, for any users, calls at a time and bounds (`BrowserAssumption`
only): `TypeCorrect`, `MishapsCoverOrphans` and `NobodySignedOut`, the
invariants `TypeOK`, `OrphansCounted` and `HeldIsLive`. `BrowserInvariant` has
three parts. `StructInv`: pairs are numbered as issued, families are disjoint,
what the jar and the calls hold was issued, and there is room for what is
pending. `OrphansInv`: pairs nobody holds and answers still to come are covered
by mishaps (`Covered`), or they are one too many and a call under way makes up
for it, because it presents the very pair it would leave behind (`First`,
`Overtaken`); these two cases are why `OrphansCounted` is not inductive.
`AloneInv`: without a mishap one call at most is under way, and the jar's pair
is live until its answer, the answer's pair after.

`ReportsProofs`, for any workers, working times, zones and days
(`ReportsAssumption` and `PayAssumption`):

- `TypeCorrect`: `Spec => []TypeOK`.
- `ReportsAddUp`: the invariant `PartsAgree`, however many rows, workers and
  rates there are and however many transactions commit. `ReportsInv` adds that
  the part a report got last differs from what the table would give now
  (`SinceLast`) by the transactions committed since: one changes one row
  (`OnlyRow`), so the number of selected rows by one at most (`CommitKeeps`);
  and a query that groups its rows adds up to the figures of all of them
  (`FiguresByGroups`). The last rests on lemmas about `SumFunctionOnSet`: that
  the recursive function it is defined by exists (`SumsExist`), that any element
  may be taken out first (`SumTakes`), that sums of groups make up the sum
  (`SumByGroups`). Their induction is over the subsets of a finite set
  (`BySubsets`), from the least number that would fail (`LeastOf`).
- `DaysAreLocalDays`: the invariant `DayFilterIsTheDays`, for zones that change
  their clocks once, at any instant and by any amount. Where the midnight of a
  day comes exactly once, `Date` finds it with its two lookups
  (`DateIsMidnight`), and it parts the instants before the day from the others
  although local time jumps; the day after that midnight begins at the next one
  (`NextDayIsDate`).
- `MoreWorkNeverPaysLess`: the invariant `LongerNeverPaysLess`, at any rate and
  scale.
- `PayIsExact`: the invariant `AmountIsExactPay`, where the scale of the
  quotient is more than 1800 times the rate. Half a unit of the scale times the
  rate is then less than 1/3600 of a cent, and an exact amount that is not a
  half cent is at least that far from one. PostgreSQL's sixteen decimals satisfy
  it for rates below a trillion cents; the run's six do so for only one of its
  two rates, and the property holds for both.

So every invariant and every action property of the passing runs is a theorem,
and both refinements. Only model-checked: liveness (`RequestsEnd`,
`EndsUnlessStalled`), which needs fairness and so what steps are enabled, beyond
this prover.

## Assumptions

- Statements behave as READ COMMITTED prescribes. `auth_otps.created_at` orders
  rows as they were inserted, and the clocks of the API and the database agree.
- Where `SimpleProtocol` is TRUE, pgx writes the parameters of attendance.go:131
  and audit.go:121-122 into the statement's text and PostgreSQL accepts it. The
  passing runs of `Attendance` and `Reports` check that case, as in the other no
  session ever has a check-out; the theorems hold in both. `Hub` and `RowLocks`
  let check-outs commit in any case, which only adds behaviours.
- pgx cuts an instant to microseconds when it sends it.

## Not modelled

The dashboard (three reads of one query each; its "today" begins at midnight
UTC, dashboard.go:13, a report's in the organization's zone), JSON and HTTP
plumbing, hashing and the generation of tokens and codes, geometry, the SMS
mock, the layout of the CSV, what the web client displays, and updateCustomer,
which writes only columns that no property is about. In `Reports`: the filters on
customer and location, which select rows as the one on the worker does, and the
verification of the two events of a row.

## Plan

In order of importance:

1. Check-ins as the documents have them, once the code stores a status that the
   CHECK constraint lists: what two check-ins of one assignment may do.
2. Shutdown: a process that stops while a publish waits for a peer.
