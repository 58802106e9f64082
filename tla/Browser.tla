------------------------------ MODULE Browser ------------------------------
(***************************************************************************)
(* A browser and its two session cookies: setSessionCookies,                *)
(* clearSessionCookies and the handlers of /auth in                         *)
(* services/api/internal/server/server.go, with the token families of       *)
(* TokenFamily as the server's side (Sessions implements them, so a request  *)
(* takes its effect there in one step).  A call carries the cookies the jar  *)
(* holds when it is sent; its answer sets or clears them when it arrives,    *)
(* in any order, or is lost.                                                *)
(***************************************************************************)
EXTENDS Integers, FiniteSets

CONSTANTS
  Users,       \* rows of users
  Calls,       \* calls of the browser's tabs that may be under way at one time
  MaxTokens,   \* bound on the token pairs that are issued
  MaxMishaps   \* bound on the mishaps

ASSUME BrowserAssumption == MaxTokens \in Nat /\ MaxMishaps \in Nat

VARIABLES
  family,    \* the logins and their token pairs, as in TokenFamily
  age,       \* per pair: 0 new, 1 access token expired, 2 refresh token expired
  active,    \* users.active
  proxied,   \* the browser talks to the API through the proxy, below /api/
  jar,       \* the pair whose access and whose refresh token the jar holds
  call,      \* per call: the request, the cookies on it, and the answer
  mishaps    \* how often something went wrong (see below)

vars == <<family, age, active, proxied, jar, call, mishaps>>

Tokens == 1..MaxTokens

None == 0

Server == INSTANCE TokenFamily

Live == UNION {family[f].live : f \in DOMAIN family}

Issued == Live \cup UNION {family[f].spent : f \in DOMAIN family}

UserOf(t) == CHOOSE u \in Users :
  \E f \in DOMAIN family : t \in family[f].spent \cup family[f].live /\ family[f].user = u

Operations == {"verify", "refresh", "logout"}

NoCall == [op |-> "none"]

\* The answer says what it does to the jar, and the pair that it sets.
Call ==
  [op: Operations, access: Tokens \cup {None}, refresh: Tokens \cup {None},
   answer: {"waiting", "set", "clear", "keep"}, pair: Tokens \cup {None}]

UnderWay == {p \in Calls : call[p] # NoCall}

Init ==
  /\ family = << >>
  /\ age = [t \in Tokens |-> 0]
  /\ active \in [Users -> BOOLEAN]
  /\ proxied \in BOOLEAN
  /\ jar = [access |-> None, refresh |-> None]
  /\ call = [p \in Calls |-> NoCall]
  /\ mishaps = 0

-----------------------------------------------------------------------------
(* Calls.                                                                  *)

\* The refresh cookie has Path /auth, the proxy serves the API below /api/.
RefreshCookieOn == IF proxied THEN None ELSE jar.refresh

\* What can go wrong by the way the browser uses the API: two calls at once, a
\* login on top of another, a logout when the access cookie has expired.
Risky(op) ==
  \/ UnderWay # {}
  \/ op = "verify" /\ jar.refresh # None
  \/ op = "logout" /\ jar.access = None

Mishap(happens) ==
  /\ happens => mishaps < MaxMishaps
  /\ mishaps' = IF happens THEN mishaps + 1 ELSE mishaps

Send(p, op) ==
  /\ call[p] = NoCall
  /\ op # "logout" => Cardinality(Issued)
        + Cardinality({q \in Calls : call[q] # NoCall /\ call[q].answer = "waiting"}) < MaxTokens
  /\ call' = [call EXCEPT ![p] = [op |-> op, access |-> jar.access,
                                  refresh |-> RefreshCookieOn, answer |-> "waiting",
                                  pair |-> None]]
  /\ Mishap(Risky(op))
  /\ UNCHANGED <<family, age, active, proxied, jar>>

Asked(p, op) == call[p] # NoCall /\ call[p].op = op /\ call[p].answer = "waiting"

Answer(p, a) == call' = [call EXCEPT ![p].answer = a]

AnswerPair(p, t) == call' = [call EXCEPT ![p].answer = "set", ![p].pair = t]

NewToken == Cardinality(Issued) + 1

\* verifyOTP: a right code of an active user begins a session.
Verify(p, u) ==
  /\ Asked(p, "verify")
  /\ active[u]
  /\ Server!Login(u, NewToken)
  /\ AnswerPair(p, NewToken)
  /\ UNCHANGED <<age, active, proxied, jar, mishaps>>

\* It is refused or fails, and the jar is left alone.
VerifyFails(p) ==
  /\ Asked(p, "verify")
  /\ Answer(p, "keep")
  /\ UNCHANGED <<family, age, active, proxied, jar, mishaps>>

\* Without the cookie, refresh answers 401 and leaves the jar alone.
RefreshWithoutCookie(p) ==
  /\ Asked(p, "refresh")
  /\ call[p].refresh = None
  /\ Answer(p, "keep")
  /\ UNCHANGED <<family, age, active, proxied, jar, mishaps>>

Refreshable(t) == t \in Live /\ age[t] < 2 /\ active[UserOf(t)]

Rotation(t) == \E f \in DOMAIN family : Server!Rotate(f, t, NewToken)

Refresh(p) ==
  /\ Asked(p, "refresh")
  /\ call[p].refresh # None
  /\ Refreshable(call[p].refresh)
  /\ Rotation(call[p].refresh)
  /\ AnswerPair(p, NewToken)
  /\ UNCHANGED <<age, active, proxied, jar, mishaps>>

\* A token that is spent, expired or of an inactive user: both cookies are
\* cleared.  The inactive user's row stays valid.
RefreshRefused(p) ==
  /\ Asked(p, "refresh")
  /\ call[p].refresh # None
  /\ ~ Refreshable(call[p].refresh)
  /\ Answer(p, "clear")
  /\ Mishap(call[p].refresh \in Live)
  /\ UNCHANGED <<family, age, active, proxied, jar>>

\* Any other error clears them too, also one of the commit, which may have
\* taken place.
RefreshFails(p) ==
  /\ Asked(p, "refresh")
  /\ call[p].refresh # None
  /\ \/ UNCHANGED family
     \/ Refreshable(call[p].refresh) /\ Rotation(call[p].refresh)
  /\ Answer(p, "clear")
  /\ Mishap(TRUE)
  /\ UNCHANGED <<age, active, proxied, jar>>

\* The session of the access token ends; one that has ended stays as it is.
Revocation(t) ==
  IF t \in Live THEN \E f \in DOMAIN family : Server!End(f, t) ELSE UNCHANGED family

\* Slip: the cookies are cleared and the session is not revoked.
Logout_CookiesOnly(p) ==
  /\ Asked(p, "logout")
  /\ Answer(p, "clear")
  /\ UNCHANGED <<family, age, active, proxied, jar, mishaps>>

\* logout looks at the access cookie alone; without it nothing is revoked.
Logout(p) ==
  /\ Asked(p, "logout")
  /\ IF call[p].access = None THEN UNCHANGED family ELSE Revocation(call[p].access)
  /\ Answer(p, "clear")
  /\ UNCHANGED <<age, active, proxied, jar, mishaps>>

\* The statement fails, possibly after it took effect: 500, no cookies.
LogoutFails(p) ==
  /\ Asked(p, "logout")
  /\ call[p].access # None
  /\ UNCHANGED family \/ Revocation(call[p].access)
  /\ Answer(p, "keep")
  /\ Mishap(TRUE)
  /\ UNCHANGED <<age, active, proxied, jar>>

-----------------------------------------------------------------------------
(* Answers and the jar.                                                    *)

\* Slip: a refresh sets the access cookie alone.
SetCookies_AccessOnly(t) ==
  [access |-> t, refresh |-> IF jar.refresh = None THEN t ELSE jar.refresh]

\* setSessionCookies.
SetCookies(t) == [access |-> t, refresh |-> t]

\* clearSessionCookies.
ClearedCookies == [access |-> None, refresh |-> None]

Deliver(p) ==
  /\ p \in UnderWay
  /\ call[p].answer # "waiting"
  /\ jar' = CASE call[p].answer = "set"   -> SetCookies(call[p].pair)
              [] call[p].answer = "clear" -> ClearedCookies
              [] call[p].answer = "keep"  -> jar
  /\ call' = [call EXCEPT ![p] = NoCall]
  /\ UNCHANGED <<family, age, active, proxied, mishaps>>

\* The request or its answer is lost.
Lose(p) ==
  /\ p \in UnderWay
  /\ call' = [call EXCEPT ![p] = NoCall]
  /\ Mishap(TRUE)
  /\ UNCHANGED <<family, age, active, proxied, jar>>

\* The jar drops a cookie some time after its token has expired.
DropAccess ==
  /\ jar.access # None /\ age[jar.access] > 0
  /\ jar' = [jar EXCEPT !.access = None]
  /\ UNCHANGED <<family, age, active, proxied, call, mishaps>>

DropRefresh ==
  /\ jar.refresh # None /\ age[jar.refresh] = 2
  /\ jar' = ClearedCookies
  /\ UNCHANGED <<family, age, active, proxied, call, mishaps>>

\* Pairs all live as long, so an older one is never the younger.
Age(t) ==
  /\ t \in Issued
  /\ age[t] < 2
  /\ \A s \in 1..(t - 1) : age[s] > age[t]
  /\ age' = [age EXCEPT ![t] = @ + 1]
  /\ UNCHANGED <<family, active, proxied, jar, call, mishaps>>

\* updateWorker.
SetActive(u) ==
  /\ active' = [active EXCEPT ![u] = ~@]
  /\ UNCHANGED <<family, age, proxied, jar, call, mishaps>>

Serve(p) ==
  \/ \E u \in Users : Verify(p, u)
  \/ VerifyFails(p)
  \/ RefreshWithoutCookie(p) \/ Refresh(p) \/ RefreshRefused(p) \/ RefreshFails(p)
  \/ Logout(p) \/ LogoutFails(p)

Next ==
  \/ \E p \in Calls :
       \/ \E op \in Operations : Send(p, op)
       \/ Serve(p) \/ Deliver(p) \/ Lose(p)
  \/ DropAccess \/ DropRefresh
  \/ \E t \in Tokens : Age(t)
  \/ \E u \in Users : SetActive(u)

Spec == Init /\ [][Next]_vars

-----------------------------------------------------------------------------
(* Properties.                                                             *)

\* Types, and the access cookie is never there without its refresh cookie.
TypeOK ==
  /\ Issued = 1..Cardinality(Issued)
  /\ age \in [Tokens -> 0..2]
  /\ active \in [Users -> BOOLEAN]
  /\ jar.refresh \in Issued \cup {None}
  /\ jar.access \in {jar.refresh, None}
  /\ call \in [Calls -> Call \cup {NoCall}]
  /\ mishaps \in 0..MaxMishaps

\* Valid pairs that the browser does not hold and is not about to get.
Orphans ==
  {t \in Live : age[t] < 2 /\ jar.refresh # t /\ \A p \in UnderWay : call[p].pair # t}

\* A pair that stays valid although no one can present it is the result of a
\* mishap, and each mishap leaves one such pair at most.
OrphansCounted == Cardinality(Orphans) <= mishaps

\* Without a mishap the pair in the jar is the valid one of its login, unless a
\* call that presents it is still under way: nobody is signed out unasked.
HeldIsLive ==
  mishaps = 0 /\ UnderWay = {} /\ jar.refresh # None => jar.refresh \in Live
=============================================================================
