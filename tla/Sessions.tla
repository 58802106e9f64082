------------------------------ MODULE Sessions ------------------------------
(***************************************************************************)
(* Opaque sessions: Refresh, Logout, Authenticate and newSession of         *)
(* services/api/internal/auth/auth.go over the table refresh_sessions.  A   *)
(* row stands for the pair of tokens it holds the hashes of; a client that  *)
(* was given the tokens may present them at any later time, as often as it  *)
(* likes and from several requests at once.                                 *)
(*                                                                         *)
(* Requests run at statement granularity over PostgreSQL's READ COMMITTED,  *)
(* as in OtpLogin: the SELECT ... FOR UPDATE of Refresh and the UPDATE of   *)
(* Logout wait for a row another transaction holds and then evaluate their  *)
(* conditions on its new version.                                           *)
(***************************************************************************)
EXTENDS Integers, Sequences, FiniteSets

CONSTANTS
  Users,       \* rows of users
  Procs,       \* request goroutines that may be running at one time
  AccessTTL,   \* AUTH_ACCESS_TTL
  RefreshTTL,  \* AUTH_REFRESH_TTL
  MaxTime,     \* bound on the clock
  MaxRows      \* bound on the rows of refresh_sessions

\* main.go refuses to start unless the durations are positive and the refresh
\* token outlives the access token.  Requests are finitely many at a time.
ASSUME SessionsAssumption ==
  /\ AccessTTL \in Nat \ {0} /\ RefreshTTL \in Nat
  /\ RefreshTTL > AccessTTL
  /\ MaxTime \in Nat /\ MaxRows \in Nat
  /\ IsFiniteSet(Procs)

VARIABLES
  now,      \* s.now()
  active,   \* users.active
  rows,     \* refresh_sessions, in the order they were committed
  req       \* per request: the next statement, and the handler's locals

vars == <<now, active, rows, req>>

\* revoked is revoked_at: "no" for NULL, otherwise the statement that set it.
\* root and parent are not columns: the row of the login the row descends
\* from, and the row it replaced (0 for a login).
SessionRow ==
  [user: Users, root: Nat, parent: Nat, revoked: {"no", "rotated", "loggedOut"},
   accessExp: Nat, refreshExp: Nat]

Refreshing == {"rfLock", "rfUser", "rfCommit"}

Request ==
  [pc: {"idle"}]
    \cup [pc: {"rfLock"}, row: Nat, asked: Nat]
    \cup [pc: {"rfUser", "rfCommit"} \cup {"loUpdate"}, row: Nat]

Rows == 1..Len(rows)

Become(p, r) == req' = [req EXCEPT ![p] = r]
Idle(p) == Become(p, [pc |-> "idle"])

Init ==
  /\ now = 0
  /\ active \in [Users -> BOOLEAN]
  /\ rows = << >>
  /\ req = [p \in Procs |-> [pc |-> "idle"]]

\* MaxRows bounds the rows that there are and that refreshes may still add.
Room == Len(rows) + Cardinality({q \in Procs : req[q].pc \in Refreshing}) < MaxRows

-----------------------------------------------------------------------------
(* Sessions begin.                                                         *)

\* Slip: the durations subtracted.
Expiry_Past(t, ttl) == t - ttl

Expiry(t, ttl) == t + ttl

\* newSession.
NewRow(u, root, parent) ==
  [user |-> u, root |-> root, parent |-> parent, revoked |-> "no",
   accessExp |-> Expiry(now, AccessTTL), refreshExp |-> Expiry(now, RefreshTTL)]

\* The commit of VerifyOTP (OtpLogin!Accept).  The user was active when the
\* transaction looked, which may no longer be so.
Login(u) ==
  /\ Room
  /\ rows' = Append(rows, NewRow(u, Len(rows) + 1, 0))
  /\ UNCHANGED <<now, active, req>>

-----------------------------------------------------------------------------
(* Refresh.                                                                *)

Refreshable(i, t) == rows[i].revoked = "no" /\ rows[i].refreshExp > t

\* BEGIN, and the snapshot of the SELECT ... FOR UPDATE.  A token that is
\* revoked or expired in it is refused: no step.
BeginRefresh(p, i) ==
  /\ req[p].pc = "idle"
  /\ Refreshable(i, now)
  /\ Room
  /\ Become(p, [pc |-> "rfLock", row |-> i, asked |-> now])
  /\ UNCHANGED <<now, active, rows>>

\* Slip: the SELECT without FOR UPDATE.
Unlocked_NoForUpdate(p, i) == TRUE

\* The row is free: no refresh that locked it is still open.
Unlocked(p, i) ==
  ~ \E q \in Procs \ {p} : req[q].pc \in {"rfUser", "rfCommit"} /\ req[q].row = i

\* Slip: a row that cannot be rotated is waited for.
LockSession_Retry(p) ==
  /\ req[p].pc = "rfLock"
  /\ Unlocked(p, req[p].row)
  /\ IF Refreshable(req[p].row, req[p].asked)
     THEN Become(p, [pc |-> "rfUser", row |-> req[p].row])
     ELSE UNCHANGED req
  /\ UNCHANGED <<now, active, rows>>

\* Slip: the row is locked after it was found valid, and not looked at again.
LockSession_Stale(p) ==
  /\ req[p].pc = "rfLock"
  /\ Unlocked(p, req[p].row)
  /\ Become(p, [pc |-> "rfUser", row |-> req[p].row])
  /\ UNCHANGED <<now, active, rows>>

\* The lock is granted; a row revoked meanwhile no longer qualifies.
LockSession(p) ==
  /\ req[p].pc = "rfLock"
  /\ Unlocked(p, req[p].row)
  /\ IF Refreshable(req[p].row, req[p].asked)
     THEN Become(p, [pc |-> "rfUser", row |-> req[p].row])
     ELSE Idle(p)
  /\ UNCHANGED <<now, active, rows>>

\* SELECT ... FROM users WHERE id = $1 AND active.
ReadUser(p) ==
  /\ req[p].pc = "rfUser"
  /\ IF active[rows[req[p].row].user]
     THEN Become(p, [pc |-> "rfCommit", row |-> req[p].row])
     ELSE Idle(p)
  /\ UNCHANGED <<now, active, rows>>

\* Slip: the new session is made and the old one left valid.
Rotate_KeepOld(p) ==
  LET i == req[p].row
  IN  /\ req[p].pc = "rfCommit"
      /\ rows' = Append(rows, NewRow(rows[i].user, rows[i].root, i))
      /\ Idle(p)
      /\ UNCHANGED <<now, active>>

\* revoked_at on the old row, the new row, commit.
Rotate(p) ==
  LET i == req[p].row
  IN  /\ req[p].pc = "rfCommit"
      /\ rows' = Append([rows EXCEPT ![i].revoked = "rotated"],
                        NewRow(rows[i].user, rows[i].root, i))
      /\ Idle(p)
      /\ UNCHANGED <<now, active>>

-----------------------------------------------------------------------------
(* Logout and Authenticate.                                                *)

\* Whoever holds the access token may log out, however old the token is.
BeginLogout(p, i) ==
  /\ req[p].pc = "idle"
  /\ Become(p, [pc |-> "loUpdate", row |-> i])
  /\ UNCHANGED <<now, active, rows>>

\* Slip: revoked_at = $1 without COALESCE.
Revoke_Overwrite(p) ==
  /\ req[p].pc = "loUpdate"
  /\ Unlocked(p, req[p].row)
  /\ rows' = [rows EXCEPT ![req[p].row].revoked = "loggedOut"]
  /\ Idle(p)
  /\ UNCHANGED <<now, active>>

\* revoked_at = COALESCE(revoked_at, $1), in a transaction of its own.
Revoke(p) ==
  /\ req[p].pc = "loUpdate"
  /\ Unlocked(p, req[p].row)
  /\ rows' = [rows EXCEPT ![req[p].row].revoked = IF @ = "no" THEN "loggedOut" ELSE @]
  /\ Idle(p)
  /\ UNCHANGED <<now, active>>

\* The access token of row i is let in.
Authenticated(i) ==
  rows[i].revoked = "no" /\ rows[i].accessExp > now /\ active[rows[i].user]

-----------------------------------------------------------------------------
(* Around the handlers.                                                    *)

\* A statement fails, the client goes away or the process dies: the
\* transaction is rolled back.
Abort(p) ==
  /\ req[p].pc # "idle"
  /\ Idle(p)
  /\ UNCHANGED <<now, active, rows>>

\* updateWorker writes users.active and leaves the sessions alone.
SetActive(u) ==
  /\ active' = [active EXCEPT ![u] = ~@]
  /\ UNCHANGED <<now, rows, req>>

Tick ==
  /\ now < MaxTime
  /\ now' = now + 1
  /\ UNCHANGED <<active, rows, req>>

Step(p) == LockSession(p) \/ ReadUser(p) \/ Rotate(p) \/ Revoke(p)

Next ==
  \/ \E p \in Procs :
       \/ Step(p) \/ Abort(p)
       \/ \E i \in Rows : BeginRefresh(p, i) \/ BeginLogout(p, i)
  \/ \E u \in Users : Login(u) \/ SetActive(u)
  \/ Tick

Spec == Init /\ [][Next]_vars

\* As in OtpLogin: a goroutine that can go on goes on, and PostgreSQL serves
\* the transactions that wait for a row.
Fairness == \A p \in Procs : WF_vars(Step(p)) /\ SF_vars(LockSession(p)) /\ SF_vars(Revoke(p))

FairSpec == Spec /\ Fairness

-----------------------------------------------------------------------------
(* Properties.                                                             *)

TypeOK ==
  /\ now \in Nat
  /\ active \in [Users -> BOOLEAN]
  /\ rows \in Seq(SessionRow)
  /\ req \in [Procs -> Request]

\* A refresh token is traded for a new pair at most once, however many
\* requests present it together.
OneSuccessor ==
  \A i, j \in Rows : rows[i].parent # 0 /\ rows[i].parent = rows[j].parent => i = j

\* Of all the token pairs one login led to, at most one is let in.
OneAccess ==
  \A i, j \in Rows :
    rows[i].root = rows[j].root /\ Authenticated(i) /\ Authenticated(j) => i = j

\* A valid session that a logout revoked does not go on: no later row descends
\* from the same login, not even by a refresh that was waiting for the row.  (A
\* logout that finds its row rotated already ends nothing: Browser counts the
\* pair that lives on.)
LogoutFinal ==
  [][\A i \in Rows : rows[i].revoked = "loggedOut" =>
       \A j \in Len(rows) + 1..Len(rows') : rows'[j].root # rows[i].root]_vars

\* A session row once revoked stays as it is: neither a second logout nor a
\* late refresh moves revoked_at or brings it back to life.
RevokedForever ==
  [][\A i \in Rows : rows[i].revoked # "no" => rows'[i] = rows[i]]_vars

\* The families of the table: the rows of one login, those revoked and the one
\* that is not.
SpentOf(r) == {i \in Rows : rows[i].root = r /\ rows[i].revoked # "no"}

LiveOf(r) == {i \in Rows : rows[i].root = r /\ rows[i].revoked = "no"}

Family == [r \in {i \in Rows : rows[i].root = i} |->
             [user |-> rows[r].user, spent |-> SpentOf(r), live |-> LiveOf(r)]]

\* Sessions implements the token families that rotation promises.
Families == INSTANCE TokenFamily WITH Tokens <- 1..MaxRows, family <- Family

ImplementsFamilies == Families!Spec

\* No request waits for a session row for ever.
RequestsEnd == \A p \in Procs : req[p].pc # "idle" ~> req[p].pc = "idle"
=============================================================================
