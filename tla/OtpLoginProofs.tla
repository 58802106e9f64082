--------------------------- MODULE OtpLoginProofs ---------------------------
(***************************************************************************)
(* Proofs about OtpLogin, for any number of users, codes and goroutines and *)
(* any limits.                                                              *)
(***************************************************************************)
EXTENDS OtpLogin, SequenceTheorems, FiniteSetTheorems, TLAPS

-----------------------------------------------------------------------------
(* Type correctness.                                                       *)

\* A request that becomes another request leaves req well typed.
LEMMA BecomeType ==
  ASSUME req \in [Procs -> Request], NEW p \in Procs, NEW r \in Request, Become(p, r)
  PROVE  req' \in [Procs -> Request]
BY DEF Become

\* Going idle is such a step.
LEMMA IdleType ==
  ASSUME req \in [Procs -> Request], NEW p \in Procs, Idle(p)
  PROVE  req' \in [Procs -> Request]
<1>1. [pc |-> "idle"] \in Request
  BY DEF Request
<1> QED
  BY <1>1 DEF Idle, Become

\* The fields that a request has at each statement.
LEMMA RequestFields ==
  ASSUME NEW r \in Request
  PROVE  /\ r.pc \in RequestPC => r = [pc |-> r.pc, user |-> r.user] /\ r.user \in Users
         /\ r.pc = "vfSelect" => r.user \in Users /\ r.code \in Codes
         /\ r.pc = "vfLock" =>
              /\ r \in [pc: {"vfLock"}, user: Users, code: Codes, seen: Nat, asked: Nat,
                        cands: SUBSET Nat]
              /\ r.user \in Users /\ r.code \in Codes
              /\ r.seen \in Nat /\ r.asked \in Nat /\ r.cands \in SUBSET Nat
         /\ r.pc = "vfDecide" =>
              /\ r.user \in Users /\ r.code \in Codes
              /\ r.seen \in Nat /\ r.asked \in Nat /\ r.otp \in Nat
BY DEF Request, RequestPC

\* Every step of the code's statements keeps the types.
LEMMA TypeStep == TypeOK /\ [Next]_vars => TypeOK'
<1> SUFFICES ASSUME TypeOK, [Next]_vars PROVE TypeOK'
  OBVIOUS
<1> USE OtpLoginAssumption
<1>1. ASSUME NEW p \in Procs, CountRequests(p) PROVE TypeOK'
  <2>1. [pc |-> "rqStore", user |-> req[p].user] \in Request
    BY <1>1, RequestFields DEF CountRequests, TypeOK, Request, RequestPC
  <2> QED
    BY <1>1, <2>1, BecomeType, IdleType DEF CountRequests, TypeOK
<1>2. ASSUME NEW p \in Procs, StoreOTP(p) PROVE TypeOK'
  <2>1. req[p].user \in Users /\ [pc |-> "rqSend", user |-> req[p].user] \in Request
    BY <1>2, RequestFields DEF StoreOTP, TypeOK, Request, RequestPC
  <2>2. PICK c \in Codes :
          otps' = Append(otps, [user |-> req[p].user, code |-> c, created |-> now,
                                expires |-> Expiry(now), attempts |-> 0, consumed |-> FALSE])
    BY <1>2 DEF StoreOTP
  <2>3. [user |-> req[p].user, code |-> c, created |-> now, expires |-> Expiry(now),
         attempts |-> 0, consumed |-> FALSE] \in OtpRow
    BY <2>1 DEF OtpRow, Expiry, TypeOK
  <2>4. otps' \in Seq(OtpRow)
    BY <2>2, <2>3, AppendProperties DEF TypeOK
  <2> QED
    BY <1>2, <2>1, <2>4, BecomeType DEF StoreOTP, TypeOK
<1>3. ASSUME NEW p \in Procs, SendOTP(p) PROVE TypeOK'
  BY <1>3, IdleType DEF SendOTP, TypeOK
<1>4. ASSUME NEW p \in Procs, SelectOTP(p) PROVE TypeOK'
  <2> DEFINE found == {i \in Rows : Usable(i, req[p].user, now)}
  <2>1. req[p].user \in Users /\ req[p].code \in Codes
    BY <1>4, RequestFields DEF SelectOTP, TypeOK
  <2>2. Len(otps) \in Nat /\ found \in SUBSET Nat
    BY LenProperties DEF TypeOK, Rows
  <2>3. [pc |-> "vfLock", user |-> req[p].user, code |-> req[p].code, seen |-> Len(otps),
         asked |-> now, cands |-> found] \in Request
    BY <2>1, <2>2 DEF TypeOK, Request
  <2> QED
    BY <1>4, <2>3, BecomeType, IdleType DEF SelectOTP, TypeOK
<1>5. ASSUME NEW p \in Procs, LockOTP(p) PROVE TypeOK'
  <2>1. PICK i \in req[p].cands : LockOTP(p)!2!(i)
    BY <1>5 DEF LockOTP
  <2>2. /\ req[p] \in [pc: {"vfLock"}, user: Users, code: Codes, seen: Nat, asked: Nat,
                       cands: SUBSET Nat]
        /\ req[p].user \in Users /\ req[p].code \in Codes
        /\ req[p].seen \in Nat /\ req[p].asked \in Nat /\ req[p].cands \in SUBSET Nat
    BY <1>5, RequestFields DEF LockOTP, TypeOK
  <2>3. [pc |-> "vfDecide", user |-> req[p].user, code |-> req[p].code,
         seen |-> req[p].seen, asked |-> req[p].asked, otp |-> i] \in Request
    BY <2>2 DEF Request
  <2>4. [req[p] EXCEPT !.cands = req[p].cands \ {i}] \in Request
    BY <2>2 DEF Request
  <2> QED
    BY <1>5, <2>1, <2>3, <2>4, BecomeType, IdleType DEF LockOTP, TypeOK
<1>6. ASSUME NEW p \in Procs, Refuse(p) PROVE TypeOK'
  <2> DEFINE k == req[p].otp
  <2>1. CASE otps[k].attempts < SmallintMax
    <3>1. ASSUME k \notin Rows PROVE otps' = otps
      BY <1>6, <2>1, <3>1 DEF Refuse, TypeOK, Rows
    <3>2. ASSUME k \in Rows PROVE otps' \in Seq(OtpRow)
      <4>1. otps[k] \in OtpRow
        BY <3>2, ElementOfSeq DEF TypeOK, Rows
      <4>2. [otps[k] EXCEPT !.attempts = @ + 1] \in OtpRow
        BY <4>1, <2>1 DEF OtpRow
      <4> QED
        BY <1>6, <2>1, <3>2, <4>2, ExceptSeq DEF Refuse, TypeOK, Rows
    <3> QED
      BY <1>6, <3>1, <3>2, IdleType DEF Refuse, TypeOK
  <2>2. CASE ~(otps[k].attempts < SmallintMax)
    BY <1>6, <2>2, IdleType DEF Refuse, TypeOK
  <2> QED
    BY <2>1, <2>2
<1>7. ASSUME NEW p \in Procs, Accept(p) PROVE TypeOK'
  <2> DEFINE k == req[p].otp
  <2>1. otps' \in Seq(OtpRow)
    <3>1. CASE k \notin Rows
      <4>1. otps' = otps
        BY <1>7, <3>1 DEF Accept, TypeOK, Rows
      <4> QED
        BY <4>1 DEF TypeOK
    <3>2. CASE k \in Rows
      <4>1. otps[k] \in OtpRow
        BY <3>2, ElementOfSeq DEF TypeOK, Rows
      <4>2. [otps[k] EXCEPT !.consumed = TRUE] \in OtpRow
        BY <4>1 DEF OtpRow
      <4> QED
        BY <1>7, <3>2, <4>2, ExceptSeq DEF Accept, TypeOK, Rows
    <3> QED
      BY <3>1, <3>2
  <2>2. req[p].user \in Users /\ k \in Nat
    BY <1>7, RequestFields DEF Accept, TypeOK
  <2>3. sessions' \in Seq([user: Users, otp: Nat])
    BY <1>7, <2>2, AppendProperties DEF Accept, TypeOK
  <2> QED
    BY <1>7, <2>1, <2>3, IdleType DEF Accept, TypeOK
<1>8. ASSUME NEW p \in Procs, Abort(p) PROVE TypeOK'
  BY <1>8, IdleType DEF Abort, TypeOK
<1>9. ASSUME NEW p \in Procs, NEW u \in Users, BeginRequest(p, u) PROVE TypeOK'
  <2>1. [pc |-> "rqCount", user |-> u] \in Request
    BY DEF Request, RequestPC
  <2> QED
    BY <1>9, <2>1, BecomeType DEF BeginRequest, TypeOK
<1>10. ASSUME NEW p \in Procs, NEW u \in Users, NEW c \in Codes, BeginVerify(p, u, c)
       PROVE  TypeOK'
  <2>1. [pc |-> "vfSelect", user |-> u, code |-> c] \in Request
    BY DEF Request
  <2> QED
    BY <1>10, <2>1, BecomeType DEF BeginVerify, TypeOK
<1>11. ASSUME NEW u \in Users, SetActive(u) PROVE TypeOK'
  BY <1>11 DEF SetActive, TypeOK
<1>12. CASE Tick
  BY <1>12 DEF Tick, TypeOK
<1>13. CASE UNCHANGED vars
  BY <1>13 DEF vars, TypeOK
<1> QED
  BY <1>1, <1>2, <1>3, <1>4, <1>5, <1>6, <1>7, <1>8, <1>9, <1>10, <1>11, <1>12, <1>13
  DEF Next, Step

\* The variables keep their types: codes, attempts within SMALLINT, and
\* requests that hold what their next statement needs.
THEOREM TypeCorrect == Spec => []TypeOK
<1>1. Init => TypeOK
  <2>1. [pc |-> "idle"] \in Request
    BY DEF Request
  <2> QED
    BY <2>1, EmptySeq DEF Init, TypeOK
<1> QED
  BY <1>1, TypeStep, PTL DEF Spec

-----------------------------------------------------------------------------
(* Single use, the attempt limit and whose code it was.                    *)

\* The row a verification has locked is an unredeemed code of its user.
HeldRowUnused ==
  \A p \in Procs : req[p].pc = "vfDecide" =>
    /\ req[p].otp \in Rows
    /\ ~otps[req[p].otp].consumed
    /\ otps[req[p].otp].user = req[p].user

\* No two verifications have the same row.
LockExclusive ==
  \A p, q \in Procs :
    req[p].pc = "vfDecide" /\ req[q].pc = "vfDecide" /\ req[p].otp = req[q].otp => p = q

\* The rows a verification waits for are codes of its user.
AwaitedRowsOwn ==
  \A p \in Procs : req[p].pc = "vfLock" =>
    \A i \in req[p].cands : i \in Rows /\ otps[i].user = req[p].user

\* A session's code is redeemed, and it was its user's.
SessionsRedeemed ==
  \A s \in 1..Len(sessions) :
    /\ sessions[s].otp \in Rows
    /\ otps[sessions[s].otp].consumed
    /\ otps[sessions[s].otp].user = sessions[s].user

\* The inductive invariant.  SingleUse alone is not inductive: it needs that the
\* row about to be redeemed is in no session yet, which the locks provide.
LoginInv ==
  /\ HeldRowUnused /\ LockExclusive /\ AwaitedRowsOwn /\ SessionsRedeemed
  /\ SingleUse /\ AttemptLimit

\* A step that only moves a request to a statement other than the two that
\* depend on rows.
LEMMA MoveKeepsLoginInv ==
  ASSUME TypeOK, LoginInv, NEW p \in Procs, NEW r, Become(p, r),
         r.pc \notin {"vfLock", "vfDecide"}, UNCHANGED <<otps, sessions>>
  PROVE  LoginInv'
BY DEF TypeOK, LoginInv, HeldRowUnused, LockExclusive, AwaitedRowsOwn, SessionsRedeemed,
       SingleUse, AttemptLimit, Become, Rows

\* The same for a request that ends.
LEMMA IdleKeepsLoginInv ==
  ASSUME TypeOK, LoginInv, NEW p \in Procs, Idle(p), UNCHANGED <<otps, sessions>>
  PROVE  LoginInv'
<1> DEFINE r == [pc |-> "idle"]
<1>1. Become(p, r) /\ r.pc \notin {"vfLock", "vfDecide"}
  BY DEF Idle
<1> QED
  BY <1>1, MoveKeepsLoginInv

\* A row is appended to auth_otps; what is known of the others stays.
LEMMA StoreKeepsLoginInv ==
  ASSUME TypeOK, LoginInv, NEW p \in Procs, StoreOTP(p)
  PROVE  LoginInv'
<1> USE OtpLoginAssumption
<1>1. PICK c \in Codes :
        otps' = Append(otps, [user |-> req[p].user, code |-> c, created |-> now,
                              expires |-> Expiry(now), attempts |-> 0, consumed |-> FALSE])
  BY DEF StoreOTP
<1> DEFINE row == [user |-> req[p].user, code |-> c, created |-> now,
                   expires |-> Expiry(now), attempts |-> 0, consumed |-> FALSE]
<1>2. req[p].user \in Users
  BY RequestFields DEF StoreOTP, TypeOK, RequestPC
<1>3. row \in OtpRow
  BY <1>2 DEF OtpRow, Expiry, TypeOK
<1>4. /\ Len(otps') = Len(otps) + 1 /\ Len(otps) \in Nat
      /\ \A i \in Rows : otps'[i] = otps[i]
      /\ otps'[Len(otps) + 1] = row
  BY <1>1, <1>3, AppendProperties, LenProperties DEF TypeOK, Rows
<1>5. Rows \subseteq Rows' /\ \A i \in Rows' : i \in Rows \/ otps'[i].consumed = FALSE
  BY <1>4 DEF Rows
<1>6. /\ UNCHANGED sessions
      /\ \A q \in Procs : q # p => req'[q] = req[q]
      /\ req'[p].pc = "rqSend"
  BY DEF StoreOTP, Become, TypeOK
<1>7. HeldRowUnused' /\ LockExclusive' /\ AwaitedRowsOwn'
  <2>1. HeldRowUnused'
    BY <1>4, <1>5, <1>6 DEF LoginInv, HeldRowUnused
  <2>2. LockExclusive'
    BY <1>6 DEF LoginInv, LockExclusive
  <2>3. AwaitedRowsOwn'
    BY <1>4, <1>5, <1>6 DEF LoginInv, AwaitedRowsOwn
  <2> QED
    BY <2>1, <2>2, <2>3
<1>8. SessionsRedeemed' /\ SingleUse'
  BY <1>4, <1>5, <1>6 DEF LoginInv, SessionsRedeemed, SingleUse
<1>9. AttemptLimit'
  BY <1>4, <1>5 DEF LoginInv, AttemptLimit
<1> QED
  BY <1>7, <1>8, <1>9 DEF LoginInv

\* A verification goes on to wait for its user's unredeemed rows.
LEMMA SelectKeepsLoginInv ==
  ASSUME TypeOK, LoginInv, NEW p \in Procs, SelectOTP(p)
  PROVE  LoginInv'
<1> DEFINE found == {i \in Rows : Usable(i, req[p].user, now)}
<1> DEFINE r == [pc |-> "vfLock", user |-> req[p].user, code |-> req[p].code,
                 seen |-> Len(otps), asked |-> now, cands |-> found]
<1>1. CASE found = {}
  BY <1>1, IdleKeepsLoginInv DEF SelectOTP
<1>2. CASE found # {}
  <2>1. req' = [req EXCEPT ![p] = r] /\ UNCHANGED <<otps, sessions>>
    BY <1>2 DEF SelectOTP, Become
  <2>2. \A i \in found : i \in Rows /\ otps[i].user = req[p].user
    BY DEF Usable
  <2>3. /\ req'[p].pc = "vfLock" /\ req'[p].user = req[p].user /\ req'[p].cands = found
        /\ \A q \in Procs : q # p => req'[q] = req[q]
    BY <2>1 DEF TypeOK
  <2>4. AwaitedRowsOwn'
    BY <2>1, <2>2, <2>3 DEF LoginInv, AwaitedRowsOwn, Rows
  <2>5. HeldRowUnused' /\ LockExclusive'
    BY <2>1, <2>3 DEF LoginInv, HeldRowUnused, LockExclusive, Rows
  <2> QED
    BY <2>1, <2>4, <2>5
    DEF LoginInv, SessionsRedeemed, SingleUse, AttemptLimit, Rows
<1> QED
  BY <1>1, <1>2

\* A lock is granted only on a free row that is still unredeemed.
LEMMA LockKeepsLoginInv ==
  ASSUME TypeOK, LoginInv, NEW p \in Procs, LockOTP(p)
  PROVE  LoginInv'
<1>1. PICK i \in req[p].cands : LockOTP(p)!2!(i)
  BY DEF LockOTP
<1>2. req[p].pc = "vfLock" /\ UNCHANGED <<otps, sessions>>
  BY DEF LockOTP
<1>3. i \in Rows /\ otps[i].user = req[p].user
  BY <1>1, <1>2 DEF LoginInv, AwaitedRowsOwn
<1>4. ASSUME ~otps[i].consumed,
             Become(p, [pc |-> "vfDecide", user |-> req[p].user, code |-> req[p].code,
                        seen |-> req[p].seen, asked |-> req[p].asked, otp |-> i])
      PROVE  LoginInv'
  <2>1. /\ req'[p].pc = "vfDecide" /\ req'[p].otp = i /\ req'[p].user = req[p].user
        /\ \A q \in Procs : q # p => req'[q] = req[q]
    BY <1>4 DEF Become, TypeOK
  <2>2. \A q \in Procs \ {p} : ~(req[q].pc = "vfDecide" /\ req[q].otp = i)
    BY <1>1 DEF Unlocked
  <2>3. HeldRowUnused'
    BY <1>2, <1>3, <1>4, <2>1 DEF LoginInv, HeldRowUnused, Rows
  <2>4. LockExclusive'
    BY <2>1, <2>2 DEF LoginInv, LockExclusive
  <2>5. AwaitedRowsOwn'
    BY <1>2, <2>1 DEF LoginInv, AwaitedRowsOwn, Rows
  <2> QED
    BY <1>2, <2>3, <2>4, <2>5
    DEF LoginInv, SessionsRedeemed, SingleUse, AttemptLimit, Rows
<1>5. ASSUME Become(p, [req[p] EXCEPT !.cands = req[p].cands \ {i}])
      PROVE  LoginInv'
  <2>1. req[p] \in [pc: {"vfLock"}, user: Users, code: Codes, seen: Nat, asked: Nat,
                    cands: SUBSET Nat]
    BY <1>2, RequestFields DEF TypeOK
  <2>2. /\ req'[p].pc = "vfLock" /\ req'[p].user = req[p].user
        /\ req'[p].cands = req[p].cands \ {i}
        /\ \A q \in Procs : q # p => req'[q] = req[q]
    BY <1>5, <2>1 DEF Become, TypeOK
  <2>3. AwaitedRowsOwn'
    BY <1>2, <2>2 DEF LoginInv, AwaitedRowsOwn, Rows
  <2>4. HeldRowUnused' /\ LockExclusive'
    BY <1>2, <2>2 DEF LoginInv, HeldRowUnused, LockExclusive, Rows
  <2> QED
    BY <1>2, <2>3, <2>4
    DEF LoginInv, SessionsRedeemed, SingleUse, AttemptLimit, Rows
<1>6. ASSUME Idle(p) PROVE LoginInv'
  BY <1>2, <1>6, IdleKeepsLoginInv
<1> QED
  BY <1>1, <1>4, <1>5, <1>6

\* An UPDATE of one row: the others, and their number, stay.
LEMMA UpdateRow ==
  ASSUME NEW S, NEW s \in Seq(S), NEW t, NEW k \in 1..Len(s), NEW e \in S,
         t = [s EXCEPT ![k] = e]
  PROVE  /\ Len(t) = Len(s)
         /\ \A j \in 1..Len(s) : j # k => t[j] = s[j]
         /\ t[k] = e
<1>1. Len(t) = Len(s)
  BY ExceptSeq
<1>2. \A j \in 1..Len(s) : t[j] = IF j = k THEN e ELSE s[j]
  BY ExceptSeq
<1> QED
  BY <1>1, <1>2

\* A refusal counts an attempt on an unredeemed row.
LEMMA RefuseKeepsLoginInv ==
  ASSUME TypeOK, LoginInv, NEW p \in Procs, Refuse(p)
  PROVE  LoginInv'
<1> DEFINE k == req[p].otp
<1>1. k \in Rows /\ ~otps[k].consumed
  BY DEF Refuse, LoginInv, HeldRowUnused
<1>2. CASE otps' = otps
  BY <1>2, IdleKeepsLoginInv DEF Refuse
<1>3. CASE otps[k].attempts < SmallintMax
  <2>1. otps' = [otps EXCEPT ![k].attempts = @ + 1] /\ UNCHANGED sessions
    BY <1>3 DEF Refuse
  <2>2. otps[k] \in OtpRow
    BY <1>1, ElementOfSeq DEF TypeOK, Rows
  <2>3. [otps[k] EXCEPT !.attempts = @ + 1] \in OtpRow
    BY <1>3, <2>2, OtpLoginAssumption DEF OtpRow
  <2>4. /\ Len(otps') = Len(otps)
        /\ \A j \in Rows : j # k => otps'[j] = otps[j]
        /\ otps'[k] = [otps[k] EXCEPT !.attempts = @ + 1]
    <3> DEFINE e == [otps[k] EXCEPT !.attempts = @ + 1]
    <3>1. otps' = [otps EXCEPT ![k] = e] /\ e \in OtpRow /\ k \in 1..Len(otps)
      BY <1>1, <2>1, <2>3 DEF Rows
    <3>2. otps \in Seq(OtpRow)
      BY DEF TypeOK
    <3> HIDE DEF e, k
    <3>3. /\ Len(otps') = Len(otps)
          /\ \A j \in 1..Len(otps) : j # k => otps'[j] = otps[j]
          /\ otps'[k] = e
      BY <3>1, <3>2, UpdateRow
    <3> QED
      BY <3>3 DEF Rows, e
  <2>5. Rows' = Rows
    BY <2>4 DEF Rows
  <2>6. \A j \in Rows : otps'[j].consumed = otps[j].consumed /\ otps'[j].user = otps[j].user
    BY <2>2, <2>4 DEF OtpRow
  <2>7. req'[p].pc = "idle" /\ \A q \in Procs : q # p => req'[q] = req[q]
    BY DEF Refuse, Idle, Become, TypeOK
  <2>8. HeldRowUnused' /\ LockExclusive' /\ AwaitedRowsOwn'
    BY <2>5, <2>6, <2>7 DEF LoginInv, HeldRowUnused, LockExclusive, AwaitedRowsOwn
  <2>9. SessionsRedeemed' /\ SingleUse'
    BY <2>1, <2>5, <2>6 DEF LoginInv, SessionsRedeemed, SingleUse
  <2>10. AttemptLimit'
    BY <1>1, <2>4, <2>5, <2>6 DEF LoginInv, AttemptLimit
  <2> QED
    BY <2>8, <2>9, <2>10 DEF LoginInv
<1> QED
  BY <1>2, <1>3 DEF Refuse

\* A code is redeemed by the one verification that has its row.
LEMMA AcceptKeepsLoginInv ==
  ASSUME TypeOK, LoginInv, NEW p \in Procs, Accept(p)
  PROVE  LoginInv'
<1> DEFINE k == req[p].otp
<1>1. k \in Rows /\ ~otps[k].consumed /\ otps[k].user = req[p].user
  BY DEF Accept, LoginInv, HeldRowUnused
<1>2. otps[k] \in OtpRow
  BY <1>1, ElementOfSeq DEF TypeOK, Rows
<1>3. [otps[k] EXCEPT !.consumed = TRUE] \in OtpRow
  BY <1>2 DEF OtpRow
<1>4. /\ Len(otps') = Len(otps)
      /\ \A j \in Rows : j # k => otps'[j] = otps[j]
      /\ otps'[k] = [otps[k] EXCEPT !.consumed = TRUE]
  <2> DEFINE e == [otps[k] EXCEPT !.consumed = TRUE]
  <2>1. otps' = [otps EXCEPT ![k] = e] /\ e \in OtpRow /\ k \in 1..Len(otps)
    BY <1>1, <1>3 DEF Accept, Rows
  <2>2. otps \in Seq(OtpRow)
    BY DEF TypeOK
  <2> HIDE DEF e, k
  <2>3. /\ Len(otps') = Len(otps)
        /\ \A j \in 1..Len(otps) : j # k => otps'[j] = otps[j]
        /\ otps'[k] = e
    BY <2>1, <2>2, UpdateRow
  <2> QED
    BY <2>3 DEF Rows, e
<1>5. Rows' = Rows
  BY <1>4 DEF Rows
<1>6. /\ \A j \in Rows : otps'[j].user = otps[j].user /\ otps'[j].attempts = otps[j].attempts
      /\ \A j \in Rows : otps[j].consumed => otps'[j].consumed
      /\ otps'[k].consumed
  BY <1>1, <1>2, <1>4 DEF OtpRow
<1>7. req'[p].pc = "idle" /\ \A q \in Procs : q # p => req'[q] = req[q]
  BY DEF Accept, Idle, Become, TypeOK
<1>8. HeldRowUnused'
  <2> SUFFICES ASSUME NEW q \in Procs, req'[q].pc = "vfDecide"
               PROVE  /\ req'[q].otp \in Rows'
                      /\ ~otps'[req'[q].otp].consumed
                      /\ otps'[req'[q].otp].user = req'[q].user
    BY DEF HeldRowUnused
  <2>1. q # p /\ req'[q] = req[q]
    BY <1>7
  <2>2. req[q].otp # k
    BY <2>1 DEF Accept, LoginInv, LockExclusive
  <2> QED
    BY <1>4, <1>5, <2>1, <2>2 DEF LoginInv, HeldRowUnused
<1>9. LockExclusive' /\ AwaitedRowsOwn'
  BY <1>5, <1>6, <1>7 DEF LoginInv, LockExclusive, AwaitedRowsOwn
<1>10. req[p].user \in Users /\ k \in Nat
  BY RequestFields DEF Accept, TypeOK
<1>11. /\ Len(sessions') = Len(sessions) + 1 /\ Len(sessions) \in Nat
       /\ \A s \in 1..Len(sessions) : sessions'[s] = sessions[s]
       /\ sessions'[Len(sessions) + 1] = [user |-> req[p].user, otp |-> k]
  BY <1>10, AppendProperties, LenProperties DEF Accept, TypeOK
<1>12. SessionsRedeemed'
  BY <1>1, <1>5, <1>6, <1>11 DEF LoginInv, SessionsRedeemed
<1>13. SingleUse'
  <2>1. \A s \in 1..Len(sessions) : sessions[s].otp # k
    BY <1>1 DEF LoginInv, SessionsRedeemed
  <2> QED
    BY <1>11, <2>1 DEF LoginInv, SingleUse
<1>14. AttemptLimit'
  BY <1>4, <1>5, <1>6 DEF Accept, CodeAccepted, LoginInv, AttemptLimit
<1> QED
  BY <1>8, <1>9, <1>12, <1>13, <1>14 DEF LoginInv

\* The invariant is inductive: one step per action.
LEMMA LoginInvStep == TypeOK /\ LoginInv /\ [Next]_vars => LoginInv'
<1> SUFFICES ASSUME TypeOK, LoginInv, [Next]_vars PROVE LoginInv'
  OBVIOUS
<1>1. ASSUME NEW p \in Procs, CountRequests(p) PROVE LoginInv'
  BY <1>1, IdleKeepsLoginInv, MoveKeepsLoginInv DEF CountRequests
<1>2. ASSUME NEW p \in Procs, SendOTP(p) \/ Abort(p) PROVE LoginInv'
  BY <1>2, IdleKeepsLoginInv DEF SendOTP, Abort
<1>3. ASSUME NEW p \in Procs, NEW u \in Users, BeginRequest(p, u) PROVE LoginInv'
  BY <1>3, MoveKeepsLoginInv DEF BeginRequest
<1>4. ASSUME NEW p \in Procs, NEW u \in Users, NEW c \in Codes, BeginVerify(p, u, c)
      PROVE  LoginInv'
  BY <1>4, MoveKeepsLoginInv DEF BeginVerify
<1>5. ASSUME UNCHANGED <<otps, sessions, req>> PROVE LoginInv'
  BY <1>5 DEF LoginInv, HeldRowUnused, LockExclusive, AwaitedRowsOwn, SessionsRedeemed,
              SingleUse, AttemptLimit, Rows
<1> QED
  BY <1>1, <1>2, <1>3, <1>4, <1>5, StoreKeepsLoginInv, SelectKeepsLoginInv, LockKeepsLoginInv,
     RefuseKeepsLoginInv, AcceptKeepsLoginInv
  DEF Next, Step, SetActive, Tick, vars

\* Every reachable state satisfies the invariant.
THEOREM LoginInvariant == Spec => []LoginInv
<1>1. Init => LoginInv
  BY DEF Init, LoginInv, HeldRowUnused, LockExclusive, AwaitedRowsOwn, SessionsRedeemed,
         SingleUse, AttemptLimit, Rows
<1> QED
  BY <1>1, TypeCorrect, LoginInvStep, PTL DEF Spec

\* A code logs in at most once, whatever verifications of it run together.
THEOREM CodesAreSingleUse == Spec => []SingleUse
<1>1. LoginInv => SingleUse
  BY DEF LoginInv
<1> QED
  BY <1>1, LoginInvariant, PTL

\* No code is redeemed that has used up its attempts.
THEOREM AttemptsAreLimited == Spec => []AttemptLimit
<1>1. LoginInv => AttemptLimit
  BY DEF LoginInv
<1> QED
  BY <1>1, LoginInvariant, PTL

\* A login opens a session of the user its code was sent to.
THEOREM SessionsAreOwn == Spec => []OwnCode
<1>1. LoginInv => OwnCode
  BY DEF LoginInv, SessionsRedeemed, OwnCode
<1> QED
  BY <1>1, LoginInvariant, PTL

-----------------------------------------------------------------------------
(* The limit on codes.                                                     *)

\* The requests for u that have been counted and have not inserted their code.
Counted(u) == {p \in Procs : req[p].pc = "rqStore" /\ req[p].user = u}

\* What the window holds and what is on its way into it, together: the count
\* that let the latest request through saw fewer than maxOTPRequests, and no
\* more than all requests can be on their way.
RateInv ==
  \A u \in Users :
    Cardinality(Recent(u)) + Cardinality(Counted(u)) <= maxOTPRequests - 1 + Cardinality(Procs)

\* Both sets are finite.
LEMMA RateFinite ==
  ASSUME TypeOK, NEW u
  PROVE  /\ IsFiniteSet(Recent(u)) /\ Cardinality(Recent(u)) \in Nat
         /\ IsFiniteSet(Counted(u)) /\ Cardinality(Counted(u)) \in Nat
         /\ Cardinality(Counted(u)) <= Cardinality(Procs)
         /\ Cardinality(Procs) \in Nat
<1>1. Len(otps) \in Nat
  BY LenProperties DEF TypeOK
<1>2. IsFiniteSet(1..Len(otps))
  BY <1>1, FS_Interval
<1>3. Recent(u) \subseteq 1..Len(otps) /\ Counted(u) \subseteq Procs
  BY DEF Recent, Rows, Counted
<1>4. IsFiniteSet(Recent(u)) /\ IsFiniteSet(Counted(u)) /\ Cardinality(Counted(u)) <= Cardinality(Procs)
  BY <1>2, <1>3, FS_Subset, OtpLoginAssumption
<1> QED
  BY <1>4, FS_CardinalityType, OtpLoginAssumption

\* The window and the requests on their way only lose members, or those on
\* their way are all there can be and the window is within the limit.
LEMMA RateKept ==
  ASSUME TypeOK, TypeOK', RateInv,
         \A u \in Users : Recent(u)' \subseteq Recent(u) /\ Counted(u)' \subseteq Counted(u)
  PROVE  RateInv'
<1> SUFFICES ASSUME NEW u \in Users
             PROVE  Cardinality(Recent(u)') + Cardinality(Counted(u)')
                      <= maxOTPRequests - 1 + Cardinality(Procs)
  BY DEF RateInv
<1>1. /\ Cardinality(Recent(u)') <= Cardinality(Recent(u))
      /\ Cardinality(Counted(u)') <= Cardinality(Counted(u))
  BY RateFinite, FS_Subset
<1>2. /\ Cardinality(Recent(u)') \in Nat /\ Cardinality(Counted(u)') \in Nat
  BY <1>1, RateFinite, FS_Subset, FS_CardinalityType
<1> QED
  BY <1>1, <1>2, RateFinite, OtpLoginAssumption DEF RateInv

\* The rows keep their users and the time they were made.
LEMMA RecentKept ==
  ASSUME TypeOK, Len(otps') = Len(otps), now' \in Nat, now' >= now,
         \A j \in Rows : otps'[j].user = otps[j].user /\ otps'[j].created = otps[j].created,
         NEW u \in Users
  PROVE  Recent(u)' \subseteq Recent(u)
<1>1. \A j \in Rows : otps[j].created \in Nat
  <2>1. \A j \in Rows : otps[j] \in OtpRow
    BY ElementOfSeq DEF TypeOK, Rows
  <2> QED
    BY <2>1 DEF OtpRow
<1>2. now \in Nat /\ RateWindow \in Nat
  BY OtpLoginAssumption DEF TypeOK
<1> QED
  BY <1>1, <1>2 DEF Recent, Rows

\* The count lets a request through only below the limit.
LEMMA CountKeepsRate ==
  ASSUME TypeOK, TypeOK', RateInv, NEW p \in Procs, CountRequests(p)
  PROVE  RateInv'
<1>1. \A u \in Users : Recent(u)' = Recent(u)
  BY DEF CountRequests, Recent, Rows
<1>2. \A u \in Users : u # req[p].user => Counted(u)' \subseteq Counted(u)
  BY DEF CountRequests, Idle, Become, Counted, TypeOK
<1>3. CASE WithinRateLimit(req[p].user)
  <2> SUFFICES ASSUME NEW u \in Users
               PROVE  Cardinality(Recent(u)') + Cardinality(Counted(u)')
                        <= maxOTPRequests - 1 + Cardinality(Procs)
    BY DEF RateInv
  <2>1. Cardinality(Counted(u)') \in Nat /\ Cardinality(Counted(u)') <= Cardinality(Procs)
    <3>1. Counted(u)' \subseteq Procs
      BY DEF Counted
    <3> QED
      BY <3>1, FS_Subset, FS_CardinalityType, OtpLoginAssumption
  <2>2. CASE u = req[p].user
    BY <1>1, <1>3, <2>1, <2>2, RateFinite, OtpLoginAssumption DEF WithinRateLimit
  <2>3. CASE u # req[p].user
    <3>1. Cardinality(Counted(u)') <= Cardinality(Counted(u))
      BY <1>2, <2>3, RateFinite, FS_Subset
    <3> QED
      BY <1>1, <2>1, <3>1, RateFinite, OtpLoginAssumption DEF RateInv
  <2> QED
    BY <2>2, <2>3
<1>4. CASE ~WithinRateLimit(req[p].user)
  <2>1. \A u \in Users : Counted(u)' \subseteq Counted(u)
    BY <1>4 DEF CountRequests, Idle, Become, Counted, TypeOK
  <2> QED
    BY <1>1, <2>1, RateKept
<1> QED
  BY <1>3, <1>4

\* The insert moves a request from those on their way into the window.
LEMMA StoreKeepsRate ==
  ASSUME TypeOK, TypeOK', RateInv, NEW p \in Procs, StoreOTP(p)
  PROVE  RateInv'
<1> USE OtpLoginAssumption
<1>1. req[p].pc = "rqStore" /\ req[p].user \in Users
  BY RequestFields DEF StoreOTP, TypeOK, RequestPC
<1>2. PICK c \in Codes :
        otps' = Append(otps, [user |-> req[p].user, code |-> c, created |-> now,
                              expires |-> Expiry(now), attempts |-> 0, consumed |-> FALSE])
  BY DEF StoreOTP
<1> DEFINE e == [user |-> req[p].user, code |-> c, created |-> now, expires |-> Expiry(now),
                 attempts |-> 0, consumed |-> FALSE]
<1>3. e \in OtpRow /\ e.user = req[p].user
  BY <1>1 DEF OtpRow, Expiry, TypeOK
<1> HIDE DEF e
<1>4. /\ Len(otps) \in Nat /\ Len(otps') = Len(otps) + 1
      /\ \A j \in 1..Len(otps) : otps'[j] = otps[j]
      /\ otps'[Len(otps) + 1] = e
  BY <1>2, <1>3, AppendProperties, LenProperties DEF TypeOK, e
<1>5. \A u \in Users : Recent(u)' \subseteq Recent(u) \cup {Len(otps) + 1}
  BY <1>4 DEF Recent, Rows, StoreOTP
<1>6. \A u \in Users : u # req[p].user => Recent(u)' \subseteq Recent(u)
  BY <1>3, <1>4 DEF Recent, Rows, StoreOTP
<1>7. /\ \A u \in Users : Counted(u)' \subseteq Counted(u)
      /\ \A u \in Users : Counted(u)' \subseteq Counted(u) \ {p}
      /\ p \in Counted(req[p].user)
  BY <1>1 DEF StoreOTP, Become, Counted, TypeOK
<1> SUFFICES ASSUME NEW u \in Users
             PROVE  Cardinality(Recent(u)') + Cardinality(Counted(u)')
                      <= maxOTPRequests - 1 + Cardinality(Procs)
  BY DEF RateInv
<1>8. Cardinality(Recent(u) \cup {Len(otps) + 1}) <= Cardinality(Recent(u)) + 1
  <2> DEFINE R == Recent(u)
             n == Len(otps) + 1
  <2>1. IsFiniteSet(R) /\ Cardinality(R) \in Nat
    BY RateFinite
  <2> HIDE DEF R, n
  <2>2. Cardinality(R \cup {n}) = IF n \in R THEN Cardinality(R) ELSE Cardinality(R) + 1
    BY <2>1, FS_AddElement
  <2>3. Cardinality(R \cup {n}) <= Cardinality(R) + 1
    BY <2>1, <2>2
  <2> QED
    BY <2>3 DEF R, n
<1>9. /\ Cardinality(Recent(u)') \in Nat
      /\ Cardinality(Recent(u)') <= Cardinality(Recent(u)) + 1
  <2>1. IsFiniteSet(Recent(u) \cup {Len(otps) + 1})
    BY RateFinite, FS_AddElement
  <2>2. /\ IsFiniteSet(Recent(u)')
        /\ Cardinality(Recent(u)') <= Cardinality(Recent(u) \cup {Len(otps) + 1})
    BY <1>5, <2>1, FS_Subset
  <2>3. /\ Cardinality(Recent(u)') \in Nat /\ Cardinality(Recent(u) \cup {Len(otps) + 1}) \in Nat
    BY <2>1, <2>2, FS_CardinalityType
  <2> QED
    BY <1>8, <2>2, <2>3, RateFinite
<1>10. CASE u = req[p].user
  <2>1. /\ IsFiniteSet(Counted(u) \ {p})
        /\ Cardinality(Counted(u) \ {p}) = Cardinality(Counted(u)) - 1
    BY <1>7, <1>10, RateFinite, FS_RemoveElement
  <2>2. /\ IsFiniteSet(Counted(u)') /\ Cardinality(Counted(u)') <= Cardinality(Counted(u)) - 1
    BY <1>7, <1>10, <2>1, FS_Subset
  <2>3. Cardinality(Counted(u)') \in Nat
    BY <2>2, FS_CardinalityType
  <2> QED
    BY <1>9, <2>2, <2>3, RateFinite DEF RateInv
<1>11. CASE u # req[p].user
  <2>1. /\ Cardinality(Recent(u)') <= Cardinality(Recent(u))
        /\ Cardinality(Counted(u)') <= Cardinality(Counted(u))
        /\ Cardinality(Counted(u)') \in Nat
    BY <1>6, <1>7, <1>11, RateFinite, FS_Subset, FS_CardinalityType
  <2> QED
    BY <1>9, <2>1, RateFinite DEF RateInv
<1> QED
  BY <1>10, <1>11

\* A verification, an end and the passing of time add nothing to either set.
LEMMA OthersKeepRate ==
  ASSUME TypeOK, TypeOK', RateInv, LoginInv, now' >= now,
         \/ UNCHANGED otps
         \/ \E p \in Procs : Refuse(p) \/ Accept(p),
         \/ UNCHANGED req
         \/ \E p \in Procs : \E r : Become(p, r) /\ r.pc # "rqStore"
  PROVE  RateInv'
<1>1. \A u \in Users : Counted(u)' \subseteq Counted(u)
  BY DEF Become, Counted, TypeOK
<1>2. /\ Len(otps') = Len(otps)
      /\ \A j \in Rows : otps'[j].user = otps[j].user /\ otps'[j].created = otps[j].created
  <2>1. ASSUME NEW p \in Procs, Refuse(p) \/ Accept(p)
        PROVE  /\ Len(otps') = Len(otps)
               /\ \A j \in Rows : otps'[j].user = otps[j].user /\ otps'[j].created = otps[j].created
    <3> USE OtpLoginAssumption
    <3> DEFINE k == req[p].otp
    <3>1. k \in Rows /\ otps[k] \in OtpRow
      BY <2>1, ElementOfSeq DEF Refuse, Accept, LoginInv, HeldRowUnused, TypeOK, Rows
    <3>2. PICK e : otps' = [otps EXCEPT ![k] = e] /\ e.user = otps[k].user
                                                 /\ e.created = otps[k].created
      <4>1. \/ otps' = otps
            \/ otps' = [otps EXCEPT ![k] = [otps[k] EXCEPT !.attempts = otps[k].attempts + 1]]
            \/ otps' = [otps EXCEPT ![k] = [otps[k] EXCEPT !.consumed = TRUE]]
        BY <2>1 DEF Refuse, Accept
      <4>2. otps = [otps EXCEPT ![k] = otps[k]]
        BY DEF TypeOK
      <4>3. \A x : /\ [otps[k] EXCEPT !.attempts = x].user = otps[k].user
                  /\ [otps[k] EXCEPT !.attempts = x].created = otps[k].created
        BY <3>1 DEF OtpRow
      <4>4. /\ [otps[k] EXCEPT !.consumed = TRUE].user = otps[k].user
            /\ [otps[k] EXCEPT !.consumed = TRUE].created = otps[k].created
        BY <3>1 DEF OtpRow
      <4>5. CASE otps' = otps
        BY <4>2, <4>5
      <4>6. CASE otps' = [otps EXCEPT ![k] = [otps[k] EXCEPT !.attempts = otps[k].attempts + 1]]
        BY <4>3, <4>6
      <4>7. CASE otps' = [otps EXCEPT ![k] = [otps[k] EXCEPT !.consumed = TRUE]]
        BY <4>4, <4>7
      <4> QED
        BY <4>1, <4>5, <4>6, <4>7
    <3>3. /\ Len(otps) \in Nat /\ DOMAIN otps = Rows
          /\ otps' \in Seq(OtpRow)
      BY LenProperties DEF TypeOK, Rows
    <3> HIDE DEF k
    <3>4. DOMAIN otps' = Rows
      BY <3>2, <3>3
    <3>5. Len(otps') \in Nat /\ DOMAIN otps' = 1..Len(otps')
      BY <3>3, LenProperties
    <3>6. Len(otps') = Len(otps)
      BY <3>3, <3>4, <3>5 DEF Rows
    <3>7. \A j \in Rows : otps'[j].user = otps[j].user /\ otps'[j].created = otps[j].created
      BY <3>1, <3>2, <3>3
    <3> QED
      BY <3>6, <3>7
  <2> QED
    BY <2>1
<1>3. \A u \in Users : Recent(u)' \subseteq Recent(u)
  BY <1>2, RecentKept DEF TypeOK
<1> QED
  BY <1>1, <1>3, RateKept

\* The invariant is inductive.
LEMMA RateStep == TypeOK /\ TypeOK' /\ LoginInv /\ RateInv /\ [Next]_vars => RateInv'
<1> SUFFICES ASSUME TypeOK, TypeOK', LoginInv, RateInv, [Next]_vars PROVE RateInv'
  OBVIOUS
<1>1. ASSUME NEW p \in Procs, CountRequests(p) \/ StoreOTP(p) PROVE RateInv'
  BY <1>1, CountKeepsRate, StoreKeepsRate
<1>2. ASSUME NEW p \in Procs,
             \/ SendOTP(p) \/ SelectOTP(p) \/ LockOTP(p) \/ Refuse(p) \/ Accept(p) \/ Abort(p)
             \/ \E u \in Users : BeginRequest(p, u)
             \/ \E u \in Users, c \in Codes : BeginVerify(p, u, c)
      PROVE  RateInv'
  <2>1. now' >= now
    <3>1. now' = now
      BY <1>2 DEF SendOTP, SelectOTP, LockOTP, Refuse, Accept, Abort, BeginRequest, BeginVerify
    <3> QED
      BY <3>1 DEF TypeOK
  <2>2. UNCHANGED otps \/ Refuse(p) \/ Accept(p)
    BY <1>2 DEF SendOTP, SelectOTP, LockOTP, Abort, BeginRequest, BeginVerify
  <2>3. \E r : Become(p, r) /\ r.pc # "rqStore"
    <3>1. CASE Idle(p)
      <4>1. Become(p, [pc |-> "idle"]) /\ [pc |-> "idle"].pc # "rqStore"
        BY <3>1 DEF Idle
      <4> QED
        BY <4>1
    <3>2. ASSUME NEW u \in Users, BeginRequest(p, u) PROVE \E r : Become(p, r) /\ r.pc # "rqStore"
      BY <3>2 DEF BeginRequest
    <3>3. ASSUME NEW u \in Users, NEW c \in Codes, BeginVerify(p, u, c)
          PROVE  \E r : Become(p, r) /\ r.pc # "rqStore"
      BY <3>3 DEF BeginVerify
    <3>4. CASE SelectOTP(p) /\ ~Idle(p)
      BY <3>4 DEF SelectOTP
    <3>5. CASE LockOTP(p) /\ ~Idle(p)
      <4>1. PICK i \in req[p].cands : LockOTP(p)!2!(i)
        BY <3>5 DEF LockOTP
      <4>2. [req[p] EXCEPT !.cands = req[p].cands \ {i}].pc = "vfLock"
        BY <3>5, RequestFields DEF LockOTP, TypeOK
      <4>3. CASE ~otps[i].consumed
        BY <4>1, <4>3
      <4>4. CASE otps[i].consumed
        BY <3>5, <4>1, <4>2, <4>4
      <4> QED
        BY <4>3, <4>4
    <3> QED
      BY <1>2, <3>1, <3>2, <3>3, <3>4, <3>5 DEF SendOTP, Refuse, Accept, Abort
  <2> QED
    BY <2>1, <2>2, <2>3, OthersKeepRate
<1>3. ASSUME UNCHANGED <<otps, req>>, now' >= now PROVE RateInv'
  BY <1>3, OthersKeepRate
<1>4. ASSUME (\E u \in Users : SetActive(u)) \/ Tick \/ UNCHANGED vars
      PROVE  UNCHANGED <<otps, req>> /\ now' >= now
  BY <1>4 DEF SetActive, Tick, vars, TypeOK
<1> QED
  BY <1>1, <1>2, <1>3, <1>4 DEF Next, Step

\* The count of the limit is taken in one statement and the code inserted in
\* another, so the codes of a window can exceed the limit, but by no more than
\* the other requests there can be.
THEOREM OverrunIsBounded == Spec => []RateOverrunBounded
<1>1. Init => RateInv
  <2> SUFFICES ASSUME Init, NEW u \in Users
               PROVE  Cardinality(Recent(u)) + Cardinality(Counted(u))
                        <= maxOTPRequests - 1 + Cardinality(Procs)
    BY DEF RateInv
  <2>1. Recent(u) = {} /\ Counted(u) = {}
    BY DEF Init, Recent, Rows, Counted
  <2>2. Cardinality(Procs) \in Nat
    BY OtpLoginAssumption, FS_CardinalityType
  <2> QED
    BY <2>1, <2>2, FS_EmptySet, OtpLoginAssumption
<1>2. TypeOK /\ RateInv => RateOverrunBounded
  BY RateFinite, OtpLoginAssumption DEF RateInv, RateOverrunBounded
<1> QED
  BY <1>1, <1>2, TypeCorrect, LoginInvariant, RateStep, PTL DEF Spec

-----------------------------------------------------------------------------
(* The newest code.                                                        *)

\* What the rows a verification's SELECT has seen are to it: while it waits, the
\* usable ones are among its candidates; when it holds one, no later one is usable.
Searched(r) ==
  /\ r.pc \in {"vfLock", "vfDecide"} => r.seen <= Len(otps)
  /\ r.pc = "vfLock" => \A j \in 1..r.seen : Usable(j, r.user, r.asked) => j \in r.cands
  /\ r.pc = "vfDecide" => \A j \in (r.otp + 1)..r.seen : ~Usable(j, r.user, r.asked)

SearchInv == \A p \in Procs : Searched(req[p])

\* Codes are added, never taken away, and no code becomes usable again.
RowsStay ==
  /\ Len(otps) \in Nat /\ Len(otps') \in Nat /\ Len(otps') >= Len(otps)
  /\ \A j \in Rows : /\ otps'[j].user = otps[j].user /\ otps'[j].expires = otps[j].expires
                     /\ otps[j].consumed => otps'[j].consumed

\* A row that is replaced by one that is no more usable leaves the others alone.
LEMMA ChangedRowStays ==
  ASSUME TypeOK, NEW k, NEW r, otps' = [otps EXCEPT ![k] = r],
         k \in Rows => /\ r.user = otps[k].user /\ r.expires = otps[k].expires
                       /\ otps[k].consumed => r.consumed
  PROVE  RowsStay
<1>1. Len(otps) \in Nat /\ Len(otps') = Len(otps)
  BY DEF TypeOK
<1>2. \A j \in Rows : otps'[j] = IF j = k THEN r ELSE otps[j]
  BY DEF TypeOK, Rows
<1> QED
  BY <1>1, <1>2 DEF RowsStay

\* Every step is such a step.
LEMMA RowsStayStep == TypeOK /\ [Next]_vars => RowsStay
<1> SUFFICES ASSUME TypeOK, [Next]_vars PROVE RowsStay
  OBVIOUS
<1>1. Len(otps) \in Nat
  BY DEF TypeOK
<1>2. UNCHANGED otps => RowsStay
  BY <1>1 DEF RowsStay
<1>3. ASSUME NEW p \in Procs, StoreOTP(p) PROVE RowsStay
  <2>1. PICK r : otps' = Append(otps, r)
    BY <1>3 DEF StoreOTP
  <2>2. Len(otps') = Len(otps) + 1 /\ \A j \in Rows : otps'[j] = otps[j]
    BY <1>1, <2>1, AppendProperties DEF TypeOK, Rows
  <2> QED
    BY <1>1, <2>2 DEF RowsStay
<1>4. ASSUME NEW p \in Procs, Refuse(p) PROVE RowsStay
  <2>1. PICK k : k = req[p].otp
    OBVIOUS
  <2>2. PICK r : r = [otps[k] EXCEPT !.attempts = @ + 1]
    OBVIOUS
  <2>3. k \in Rows => r.user = otps[k].user /\ r.expires = otps[k].expires /\ r.consumed = otps[k].consumed
    <3>1. k \in Rows => otps[k] \in OtpRow
      BY ElementOfSeq DEF TypeOK, Rows
    <3> QED
      BY <2>2, <3>1 DEF OtpRow
  <2>4. otps' = [otps EXCEPT ![k] = r] \/ otps' = otps
    BY <1>4, <2>1, <2>2 DEF Refuse
  <2> QED
    BY <1>2, <2>3, <2>4, ChangedRowStays
<1>5. ASSUME NEW p \in Procs, Accept(p) PROVE RowsStay
  <2>1. PICK k : k = req[p].otp
    OBVIOUS
  <2>2. PICK r : r = [otps[k] EXCEPT !.consumed = TRUE]
    OBVIOUS
  <2>3. k \in Rows => r.user = otps[k].user /\ r.expires = otps[k].expires /\ r.consumed
    <3>1. k \in Rows => otps[k] \in OtpRow
      BY ElementOfSeq DEF TypeOK, Rows
    <3> QED
      BY <2>2, <3>1 DEF OtpRow
  <2>4. otps' = [otps EXCEPT ![k] = r]
    BY <1>5, <2>1, <2>2 DEF Accept
  <2> QED
    BY <2>3, <2>4, ChangedRowStays
<1> QED
  BY <1>2, <1>3, <1>4, <1>5
  DEF Next, Step, CountRequests, SendOTP, SelectOTP, LockOTP, Abort, BeginRequest, BeginVerify,
      SetActive, Tick, vars

\* What a request has seen stays as it found it.
LEMMA SearchKept ==
  ASSUME RowsStay, NEW r \in Request, Searched(r)
  PROVE  (Searched(r))'
<1>1. Len(otps) \in Nat /\ Len(otps') \in Nat /\ Len(otps') >= Len(otps)
  BY DEF RowsStay
<1>2. CASE r.pc = "vfLock"
  <2>1. r.seen \in Nat /\ r.seen <= Len(otps)
    BY <1>2, RequestFields DEF Searched
  <2>2. ASSUME NEW j \in 1..r.seen, (Usable(j, r.user, r.asked))' PROVE Usable(j, r.user, r.asked)
    <3>1. j \in Rows
      BY <1>1, <2>1 DEF Rows
    <3> QED
      BY <2>2, <3>1 DEF RowsStay, Usable
  <2> QED
    BY <1>1, <1>2, <2>1, <2>2 DEF Searched
<1>3. CASE r.pc = "vfDecide"
  <2>1. r.seen \in Nat /\ r.seen <= Len(otps) /\ r.otp \in Nat
    BY <1>3, RequestFields DEF Searched
  <2>2. ASSUME NEW j \in (r.otp + 1)..r.seen, (Usable(j, r.user, r.asked))'
        PROVE  Usable(j, r.user, r.asked)
    <3>1. j \in Rows
      BY <1>1, <2>1 DEF Rows
    <3> QED
      BY <2>2, <3>1 DEF RowsStay, Usable
  <2> QED
    BY <1>1, <1>3, <2>1, <2>2 DEF Searched
<1> QED
  BY <1>2, <1>3 DEF Searched

\* A request that becomes another, having searched as it should.
LEMMA BecomeKeepsSearch ==
  ASSUME TypeOK, SearchInv, RowsStay, NEW p \in Procs, NEW r \in Request, Become(p, r), (Searched(r))'
  PROVE  SearchInv'
<1> SUFFICES ASSUME NEW q \in Procs PROVE (Searched(req[q]))'
  BY DEF SearchInv
<1>1. CASE q = p
  <2>1. req'[q] = r
    BY <1>1 DEF Become, TypeOK
  <2> QED
    BY <2>1 DEF Searched
<1>2. CASE q # p
  <2>1. PICK s \in Request : s = req[q]
    BY DEF TypeOK
  <2>2. req'[q] = s
    BY <1>2, <2>1 DEF Become, TypeOK
  <2>3. (Searched(s))'
    BY <2>1, SearchKept DEF SearchInv
  <2> QED
    BY <2>2, <2>3 DEF Searched
<1> QED
  BY <1>1, <1>2

\* A request that is not searching has nothing to keep.
LEMMA LeaveKeepsSearch ==
  ASSUME TypeOK, SearchInv, RowsStay, NEW p \in Procs, NEW r \in Request, Become(p, r),
         r.pc \notin {"vfLock", "vfDecide"}
  PROVE  SearchInv'
<1>1. (Searched(r))'
  BY DEF Searched
<1> QED
  BY <1>1, BecomeKeepsSearch

\* The end of a request is such a step.
LEMMA IdleKeepsSearch ==
  ASSUME TypeOK, SearchInv, RowsStay, NEW p \in Procs, Idle(p)
  PROVE  SearchInv'
<1>1. PICK r \in Request : r = [pc |-> "idle"]
  BY DEF Request
<1> QED
  BY <1>1, LeaveKeepsSearch DEF Idle

\* The snapshot has every usable row.
LEMMA SelectKeepsSearch ==
  ASSUME TypeOK, SearchInv, RowsStay, NEW p \in Procs, SelectOTP(p)
  PROVE  SearchInv'
<1>1. CASE Idle(p)
  BY <1>1, IdleKeepsSearch
<1>2. CASE ~Idle(p)
  <2> DEFINE found == {i \in Rows : Usable(i, req[p].user, now)}
             s == [pc |-> "vfLock", user |-> req[p].user, code |-> req[p].code,
                   seen |-> Len(otps), asked |-> now, cands |-> found]
  <2>1. req[p].user \in Users /\ req[p].code \in Codes
    BY RequestFields DEF SelectOTP, TypeOK
  <2>2. Len(otps) \in Nat /\ found \in SUBSET Nat
    BY LenProperties DEF TypeOK, Rows
  <2>3. s \in Request
    BY <2>1, <2>2 DEF TypeOK, Request
  <2>4. Become(p, s) /\ otps' = otps
    BY <1>2 DEF SelectOTP
  <2>5. /\ s.pc = "vfLock" /\ s.seen = Len(otps) /\ s.user = req[p].user /\ s.asked = now
        /\ s.cands = found
    OBVIOUS
  <2>6. \A j \in 1..Len(otps) : Usable(j, req[p].user, now) => j \in found
    BY DEF Rows
  <2> HIDE DEF found, s
  <2>7. PICK r \in Request : r = s
    BY <2>3
  <2>8. Searched(r)
    BY <2>2, <2>5, <2>6, <2>7 DEF Searched
  <2>9. (Searched(r))'
    BY <2>8, SearchKept
  <2> QED
    BY <2>4, <2>7, <2>9, BecomeKeepsSearch
<1> QED
  BY <1>1, <1>2

\* The row that is locked is the latest that is left, and those passed over were
\* consumed.
LEMMA LockKeepsSearch ==
  ASSUME TypeOK, SearchInv, RowsStay, NEW p \in Procs, LockOTP(p)
  PROVE  SearchInv'
<1>1. PICK i \in req[p].cands : LockOTP(p)!2!(i)
  BY DEF LockOTP
<1>2. PICK q \in Request : q = req[p]
  BY DEF TypeOK
<1>3. /\ q.pc = "vfLock"
      /\ q \in [pc: {"vfLock"}, user: Users, code: Codes, seen: Nat, asked: Nat, cands: SUBSET Nat]
      /\ q.user \in Users /\ q.code \in Codes
      /\ q.seen \in Nat /\ q.asked \in Nat /\ q.cands \in SUBSET Nat
      /\ Searched(q)
  BY <1>2, RequestFields DEF LockOTP, SearchInv
<1>4. i \in q.cands /\ i \in Nat /\ \A j \in q.cands : j <= i
  BY <1>1, <1>2, <1>3 DEF ComesFirst
<1>5. CASE /\ ~otps[i].consumed
           /\ Become(p, [pc |-> "vfDecide", user |-> q.user, code |-> q.code,
                         seen |-> q.seen, asked |-> q.asked, otp |-> i])
  <2>1. PICK r : r = [pc |-> "vfDecide", user |-> q.user, code |-> q.code,
                      seen |-> q.seen, asked |-> q.asked, otp |-> i]
    OBVIOUS
  <2>2. /\ r \in Request /\ r.pc = "vfDecide" /\ r.user = q.user /\ r.seen = q.seen
        /\ r.asked = q.asked /\ r.otp = i
    BY <1>3, <1>4, <2>1 DEF Request
  <2>3. \A j \in (i + 1)..q.seen : j \in 1..q.seen /\ j \notin q.cands
    BY <1>3, <1>4
  <2>4. Searched(r)
    BY <1>3, <2>2, <2>3 DEF Searched
  <2>5. (Searched(r))'
    BY <2>2, <2>4, SearchKept
  <2> QED
    BY <1>5, <2>1, <2>2, <2>5, BecomeKeepsSearch
<1>6. CASE otps[i].consumed /\ Become(p, [q EXCEPT !.cands = q.cands \ {i}])
  <2>1. PICK r : r = [q EXCEPT !.cands = q.cands \ {i}]
    OBVIOUS
  <2>2. /\ r \in Request /\ r.pc = "vfLock" /\ r.user = q.user /\ r.seen = q.seen
        /\ r.asked = q.asked /\ r.cands = q.cands \ {i}
    BY <1>3, <2>1 DEF Request
  <2>3. ~Usable(i, q.user, q.asked)
    BY <1>6 DEF Usable
  <2>4. Searched(r)
    BY <1>3, <2>2, <2>3 DEF Searched
  <2>5. (Searched(r))'
    BY <2>2, <2>4, SearchKept
  <2> QED
    BY <1>6, <2>1, <2>2, <2>5, BecomeKeepsSearch
<1>7. CASE Idle(p)
  BY <1>7, IdleKeepsSearch
<1> QED
  BY <1>1, <1>2, <1>5, <1>6, <1>7

\* One step per action.
LEMMA SearchStep == TypeOK /\ SearchInv /\ [Next]_vars => SearchInv'
<1> SUFFICES ASSUME TypeOK, SearchInv, [Next]_vars PROVE SearchInv'
  OBVIOUS
<1>1. RowsStay
  BY RowsStayStep
<1>2. ASSUME UNCHANGED req PROVE SearchInv'
  <2> SUFFICES ASSUME NEW q \in Procs PROVE (Searched(req[q]))'
    BY DEF SearchInv
  <2>1. PICK s \in Request : s = req[q]
    BY DEF TypeOK
  <2>2. (Searched(s))'
    BY <1>1, <2>1, SearchKept DEF SearchInv
  <2> QED
    BY <1>2, <2>1, <2>2 DEF Searched
<1>3. ASSUME NEW p \in Procs, SendOTP(p) \/ Refuse(p) \/ Accept(p) \/ Abort(p) PROVE SearchInv'
  BY <1>1, <1>3, IdleKeepsSearch DEF SendOTP, Refuse, Accept, Abort
<1>4. ASSUME NEW p \in Procs, CountRequests(p) PROVE SearchInv'
  <2>1. PICK r : r = [pc |-> "rqStore", user |-> req[p].user]
    OBVIOUS
  <2>2. r \in Request /\ r.pc = "rqStore"
    BY <1>4, <2>1, RequestFields DEF CountRequests, TypeOK, Request, RequestPC
  <2> QED
    BY <1>1, <1>4, <2>1, <2>2, LeaveKeepsSearch, IdleKeepsSearch DEF CountRequests
<1>5. ASSUME NEW p \in Procs, StoreOTP(p) PROVE SearchInv'
  <2>1. PICK r : r = [pc |-> "rqSend", user |-> req[p].user]
    OBVIOUS
  <2>2. r \in Request /\ r.pc = "rqSend"
    BY <1>5, <2>1, RequestFields DEF StoreOTP, TypeOK, Request, RequestPC
  <2> QED
    BY <1>1, <1>5, <2>1, <2>2, LeaveKeepsSearch DEF StoreOTP
<1>6. ASSUME NEW p \in Procs, NEW u \in Users, BeginRequest(p, u) PROVE SearchInv'
  <2>1. PICK r : r = [pc |-> "rqCount", user |-> u]
    OBVIOUS
  <2>2. r \in Request /\ r.pc = "rqCount"
    BY <2>1 DEF Request, RequestPC
  <2> QED
    BY <1>1, <1>6, <2>1, <2>2, LeaveKeepsSearch DEF BeginRequest
<1>7. ASSUME NEW p \in Procs, NEW u \in Users, NEW c \in Codes, BeginVerify(p, u, c) PROVE SearchInv'
  <2>1. PICK r : r = [pc |-> "vfSelect", user |-> u, code |-> c]
    OBVIOUS
  <2>2. r \in Request /\ r.pc = "vfSelect"
    BY <2>1 DEF Request
  <2> QED
    BY <1>1, <1>7, <2>1, <2>2, LeaveKeepsSearch DEF BeginVerify
<1> QED
  BY <1>1, <1>2, <1>3, <1>4, <1>5, <1>6, <1>7, SelectKeepsSearch, LockKeepsSearch
  DEF Next, Step, SetActive, Tick, vars

\* Every reachable state satisfies it.
LEMMA SearchInvariant == Spec => []SearchInv
<1>1. Init => SearchInv
  BY DEF Init, SearchInv, Searched
<1> QED
  BY <1>1, TypeCorrect, SearchStep, PTL DEF Spec

\* A login redeems the newest code its SELECT could see: VerifyOTP's ORDER BY
\* created_at DESC LIMIT 1 FOR UPDATE passes over rows that were consumed while
\* it waited, and over no other.
THEOREM NewestCodeFirst == Spec => NewestFirst
<1>1. SearchInv /\ [Next]_vars =>
        [\A p \in Procs : Accept(p) =>
           \A j \in (req[p].otp + 1)..req[p].seen :
             ~ Usable(j, req[p].user, req[p].asked)]_vars
  BY DEF SearchInv, Searched, Accept
<1> QED
  BY <1>1, SearchInvariant, PTL DEF Spec, NewestFirst
=============================================================================
