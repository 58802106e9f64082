------------------------------ MODULE OtpLogin ------------------------------
(***************************************************************************)
(* Login by one-time code: RequestOTP and VerifyOTP of                      *)
(* services/api/internal/auth/auth.go, over the tables users, auth_otps and *)
(* refresh_sessions.  Every HTTP request runs in a goroutine of its own, so *)
(* requests interleave between any two SQL statements.                      *)
(*                                                                         *)
(* The database is PostgreSQL at READ COMMITTED, the default that           *)
(* BeginTx(ctx, pgx.TxOptions{}) leaves in force:                           *)
(*  - a statement sees the rows committed when it starts (its snapshot);    *)
(*  - SELECT ... FOR UPDATE waits for a row another transaction holds and,  *)
(*    once it has it, evaluates its WHERE clause again on the new version;  *)
(*    a row that no longer qualifies is passed over for the next one;       *)
(*  - a transaction's writes appear when it commits.  The writes of         *)
(*    VerifyOTP touch only rows it holds locked, so they are one step, the  *)
(*    commit; a rollback leaves nothing.                                    *)
(***************************************************************************)
EXTENDS Integers, Sequences, FiniteSets

CONSTANTS
  Users,            \* rows of users
  Procs,            \* request goroutines that may be running at one time
  Codes,            \* six-digit codes
  maxOTPAttempts,   \* auth.go: 5
  maxOTPRequests,   \* auth.go: 5
  OtpTTL,           \* life of a code: 10 minutes
  RateWindow,       \* window of the request limit: 15 minutes
  SmallintMax,      \* largest value of auth_otps.attempts (SMALLINT: 32767)
  MaxTime,          \* bound on the clock
  MaxOtps           \* bound on the rows of auth_otps

ASSUME OtpLoginAssumption ==
  /\ maxOTPAttempts \in Nat \ {0}
  /\ maxOTPRequests \in Nat \ {0}
  /\ OtpTTL \in Nat /\ RateWindow \in Nat
  /\ SmallintMax \in Nat /\ SmallintMax >= maxOTPAttempts
  /\ MaxTime \in Nat /\ MaxOtps \in Nat
  /\ IsFiniteSet(Procs)

VARIABLES
  now,        \* s.now(), and the database's now() that fills created_at
  active,     \* users.active
  otps,       \* auth_otps in the order of created_at
  sessions,   \* rows that VerifyOTP put in refresh_sessions, each with the
              \* code that was redeemed for it
  req         \* per request: the next statement, and the handler's locals

vars == <<now, active, otps, sessions, req>>

RequestPC == {"rqCount", "rqStore", "rqSend"}
VerifyPC  == {"vfSelect", "vfLock", "vfDecide"}

OtpRow ==
  [user: Users, code: Codes, created: Nat, expires: Nat,
   attempts: 0..SmallintMax, consumed: BOOLEAN]

\* What a request remembers between two statements.  seen and asked are what
\* the SELECT of VerifyOTP was evaluated on: how many rows its snapshot holds
\* and the time it passed as $2; cands are the rows it found and has not yet
\* given up; otp is the row it holds.
Request ==
  [pc: {"idle"}]
    \cup [pc: RequestPC, user: Users]
    \cup [pc: {"vfSelect"}, user: Users, code: Codes]
    \cup [pc: {"vfLock"}, user: Users, code: Codes, seen: Nat, asked: Nat, cands: SUBSET Nat]
    \cup [pc: {"vfDecide"}, user: Users, code: Codes, seen: Nat, asked: Nat, otp: Nat]

Rows == 1..Len(otps)

Become(p, r) == req' = [req EXCEPT ![p] = r]
Idle(p) == Become(p, [pc |-> "idle"])

Init ==
  /\ now = 0
  /\ active \in [Users -> BOOLEAN]
  /\ otps = << >>
  /\ sessions = << >>
  /\ req = [p \in Procs |-> [pc |-> "idle"]]

-----------------------------------------------------------------------------
(* RequestOTP.                                                             *)

\* SELECT count(*) FROM auth_otps WHERE user_id = $1 AND created_at >= $2
Recent(u) == {i \in Rows : otps[i].user = u /\ otps[i].created >= now - RateWindow}

\* The user is looked up.  For an unknown or inactive phone the handler
\* answers 204 and nothing changes: no step.  MaxOtps bounds the rows that
\* the requests under way may still add.
BeginRequest(p, u) ==
  /\ req[p].pc = "idle"
  /\ active[u]
  /\ Len(otps) + Cardinality({q \in Procs : req[q].pc \in {"rqCount", "rqStore"}}) < MaxOtps
  /\ Become(p, [pc |-> "rqCount", user |-> u])
  /\ UNCHANGED <<now, active, otps, sessions>>

\* Slip: > for >=, which lets one request too many through.
WithinRateLimit_OffByOne(u) == Cardinality(Recent(u)) <= maxOTPRequests

WithinRateLimit(u) == Cardinality(Recent(u)) < maxOTPRequests

CountRequests(p) ==
  /\ req[p].pc = "rqCount"
  /\ IF WithinRateLimit(req[p].user)
     THEN Become(p, [pc |-> "rqStore", user |-> req[p].user])
     ELSE Idle(p)
  /\ UNCHANGED <<now, active, otps, sessions>>

\* Slip: the sign of the 15-minute window taken over.
Expiry_Past(t) == t - OtpTTL

\* expires_at: s.now().Add(10 * time.Minute).
Expiry(t) == t + OtpTTL

\* newOTP and the INSERT, which commits by itself: nothing holds the count
\* taken before it.
StoreOTP(p) ==
  /\ req[p].pc = "rqStore"
  /\ \E c \in Codes :
       otps' = Append(otps, [user |-> req[p].user, code |-> c, created |-> now,
                             expires |-> Expiry(now), attempts |-> 0, consumed |-> FALSE])
  /\ Become(p, [pc |-> "rqSend", user |-> req[p].user])
  /\ UNCHANGED <<now, active, sessions>>

\* SendOTP succeeds or fails; the stored row stays either way.
SendOTP(p) ==
  /\ req[p].pc = "rqSend"
  /\ Idle(p)
  /\ UNCHANGED <<now, active, otps, sessions>>

-----------------------------------------------------------------------------
(* VerifyOTP.                                                              *)

\* BEGIN and the SELECT on users; a malformed phone or code, or a user who is
\* not active, is refused without a change.
BeginVerify(p, u, c) ==
  /\ req[p].pc = "idle"
  /\ active[u]
  /\ Become(p, [pc |-> "vfSelect", user |-> u, code |-> c])
  /\ UNCHANGED <<now, active, otps, sessions>>

Usable(i, u, t) == otps[i].user = u /\ ~otps[i].consumed /\ otps[i].expires > t

\* Slip: with no usable code, the SELECT is repeated until there is one.
SelectOTP_Poll(p) ==
  LET found == {i \in Rows : Usable(i, req[p].user, now)}
  IN  /\ req[p].pc = "vfSelect"
      /\ IF found = {}
         THEN UNCHANGED req
         ELSE Become(p, [pc |-> "vfLock", user |-> req[p].user, code |-> req[p].code,
                         seen |-> Len(otps), asked |-> now, cands |-> found])
      /\ UNCHANGED <<now, active, otps, sessions>>

\* The SELECT ... ORDER BY created_at DESC LIMIT 1 FOR UPDATE takes its snapshot.
SelectOTP(p) ==
  LET found == {i \in Rows : Usable(i, req[p].user, now)}
  IN  /\ req[p].pc = "vfSelect"
      /\ IF found = {}
         THEN Idle(p)
         ELSE Become(p, [pc |-> "vfLock", user |-> req[p].user, code |-> req[p].code,
                         seen |-> Len(otps), asked |-> now, cands |-> found])
      /\ UNCHANGED <<now, active, otps, sessions>>

\* Slip: ORDER BY created_at without DESC.
ComesFirst_Ascending(i, S) == \A j \in S : i <= j

\* ORDER BY created_at DESC LIMIT 1: of the rows that are left, the latest is
\* the one to lock.
ComesFirst(i, S) == \A j \in S : j <= i

\* Slip: the SELECT without FOR UPDATE.
Unlocked_NoForUpdate(p, i) == TRUE

\* The row is free: no transaction that locked it is still open.
Unlocked(p, i) == ~ \E q \in Procs \ {p} : req[q].pc = "vfDecide" /\ req[q].otp = i

\* The lock is granted and the WHERE clause evaluated again: a row consumed
\* meanwhile is passed over, and with no row left the code is refused.
LockOTP(p) ==
  /\ req[p].pc = "vfLock"
  /\ \E i \in req[p].cands :
       LET rest == req[p].cands \ {i}
       IN  /\ ComesFirst(i, req[p].cands)
           /\ Unlocked(p, i)
           /\ \/ /\ ~otps[i].consumed
                 /\ Become(p, [pc |-> "vfDecide", user |-> req[p].user, code |-> req[p].code,
                               seen |-> req[p].seen, asked |-> req[p].asked, otp |-> i])
              \/ /\ otps[i].consumed
                 /\ rest # {}
                 /\ Become(p, [req[p] EXCEPT !.cands = rest])
              \/ /\ otps[i].consumed
                 /\ rest = {}
                 /\ Idle(p)
  /\ UNCHANGED <<now, active, otps, sessions>>

\* Slip: the attempt limit compared with > instead of >=.
CodeAccepted_OffByOne(p) ==
  LET row == otps[req[p].otp]
  IN  row.attempts <= maxOTPAttempts /\ row.code = req[p].code

\* attempts < maxOTPAttempts and the hashes agree.  The attempts compared are
\* those of the locked version of the row.
CodeAccepted(p) ==
  LET row == otps[req[p].otp]
  IN  row.attempts < maxOTPAttempts /\ row.code = req[p].code

\* attempts = attempts + 1, commit.  At the top of SMALLINT the UPDATE fails,
\* its error is ignored and the commit turns into a rollback.
Refuse(p) ==
  /\ req[p].pc = "vfDecide"
  /\ ~CodeAccepted(p)
  /\ otps' = IF otps[req[p].otp].attempts < SmallintMax
             THEN [otps EXCEPT ![req[p].otp].attempts = @ + 1]
             ELSE otps
  /\ Idle(p)
  /\ UNCHANGED <<now, active, sessions>>

\* consumed_at, last_login_at (not kept here), the new session, commit.
Accept(p) ==
  /\ req[p].pc = "vfDecide"
  /\ CodeAccepted(p)
  /\ otps' = [otps EXCEPT ![req[p].otp].consumed = TRUE]
  /\ sessions' = Append(sessions, [user |-> req[p].user, otp |-> req[p].otp])
  /\ Idle(p)
  /\ UNCHANGED <<now, active>>

-----------------------------------------------------------------------------
(* Around the handlers.                                                    *)

\* A statement fails, the client goes away (r.Context() is cancelled) or the
\* process dies: the deferred Rollback or the server drops the transaction.
Abort(p) ==
  /\ req[p].pc # "idle"
  /\ Idle(p)
  /\ UNCHANGED <<now, active, otps, sessions>>

\* updateWorker writes users.active; it does not touch codes or sessions.
SetActive(u) ==
  /\ active' = [active EXCEPT ![u] = ~@]
  /\ UNCHANGED <<now, otps, sessions, req>>

Tick ==
  /\ now < MaxTime
  /\ now' = now + 1
  /\ UNCHANGED <<active, otps, sessions, req>>

Step(p) ==
  \/ CountRequests(p) \/ StoreOTP(p) \/ SendOTP(p)
  \/ SelectOTP(p) \/ LockOTP(p) \/ Refuse(p) \/ Accept(p)

Next ==
  \/ \E p \in Procs :
       \/ Step(p) \/ Abort(p)
       \/ \E u \in Users : BeginRequest(p, u)
       \/ \E u \in Users, c \in Codes : BeginVerify(p, u, c)
  \/ \E u \in Users : SetActive(u)
  \/ Tick

Spec == Init /\ [][Next]_vars

\* A goroutine that can go on goes on.  A waiter for a row lock is strongly
\* fair: PostgreSQL queues the transactions that wait for a row, so one that
\* sees the row free again and again gets it.
Fairness == \A p \in Procs : WF_vars(Step(p)) /\ SF_vars(LockOTP(p))

FairSpec == Spec /\ Fairness

-----------------------------------------------------------------------------
(* Properties.                                                             *)

TypeOK ==
  /\ now \in Nat
  /\ active \in [Users -> BOOLEAN]
  /\ otps \in Seq(OtpRow)
  /\ sessions \in Seq([user: Users, otp: Nat])
  /\ req \in [Procs -> Request]

\* A code logs in at most once, however many verifications of it run at the
\* same time: VerifyOTP reads the row FOR UPDATE and keeps it until it commits.
SingleUse ==
  \A s, t \in 1..Len(sessions) : sessions[s].otp = sessions[t].otp => s = t

\* A code that was redeemed had fewer than maxOTPAttempts refusals charged to
\* it, then and ever after: the count compared with the limit is never stale.
AttemptLimit ==
  \A i \in Rows : otps[i].consumed => otps[i].attempts < maxOTPAttempts

\* A session belongs to the user its code was sent to.
OwnCode == \A s \in 1..Len(sessions) : otps[sessions[s].otp].user = sessions[s].user

\* When a login redeems a code, every later code of that user which its SELECT
\* could see has been redeemed or had expired when the SELECT was made.
NewestFirst ==
  [][\A p \in Procs : Accept(p) =>
       \A j \in (req[p].otp + 1)..req[p].seen :
         ~ Usable(j, req[p].user, req[p].asked)]_vars

\* The limit on codes per window is checked by a count that nothing protects
\* until the INSERT, so requests under way can overrun it - but only by those
\* that were between the two statements at once.
RateOverrunBounded ==
  \A u \in Users : Cardinality(Recent(u)) <= maxOTPRequests - 1 + Cardinality(Procs)

\* The limit as the documentation states it: at most maxOTPRequests codes per
\* user in any window.  It does not hold with two requests at once.
RateLimit == \A u \in Users : Cardinality(Recent(u)) <= maxOTPRequests

\* No request waits for a row for ever: the transaction that holds it ends.
RequestsEnd == \A p \in Procs : req[p].pc # "idle" ~> req[p].pc = "idle"
=============================================================================
