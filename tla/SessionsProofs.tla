--------------------------- MODULE SessionsProofs ---------------------------
(***************************************************************************)
(* Proofs about Sessions, for any number of users, goroutines and rows and  *)
(* any token lifetimes; at the end, that it implements TokenFamily: every   *)
(* transaction that commits is one step of the token families, and every    *)
(* other step changes nothing in them.                                      *)
(***************************************************************************)
EXTENDS Sessions, SequenceTheorems, FiniteSetTheorems, TLAPS

-----------------------------------------------------------------------------
(* Rows that are added and rows that are changed.                          *)

\* Sequences of rows have a length and rows up to it.
LEMMA RowAt ==
  ASSUME NEW s \in Seq(SessionRow)
  PROVE  Len(s) \in Nat /\ \A i \in 1..Len(s) : s[i] \in SessionRow
BY LenProperties, ElementOfSeq

\* An INSERT: one row more, the others as they were.
LEMMA InsertRow ==
  ASSUME NEW s \in Seq(SessionRow), NEW e \in SessionRow, NEW t, t = Append(s, e)
  PROVE  /\ t \in Seq(SessionRow)
         /\ Len(t) = Len(s) + 1
         /\ \A i \in 1..Len(s) : t[i] = s[i]
         /\ t[Len(s) + 1] = e
BY AppendProperties, LenProperties

\* An UPDATE: that row, and nothing else.
LEMMA UpdateRow ==
  ASSUME NEW s \in Seq(SessionRow), NEW k \in 1..Len(s), NEW e \in SessionRow,
         NEW t, t = [s EXCEPT ![k] = e]
  PROVE  /\ t \in Seq(SessionRow)
         /\ Len(t) = Len(s)
         /\ \A i \in 1..Len(s) : i # k => t[i] = s[i]
         /\ t[k] = e
<1>1. t \in Seq(SessionRow) /\ Len(t) = Len(s)
  BY ExceptSeq
<1>2. \A i \in 1..Len(s) : t[i] = IF i = k THEN e ELSE s[i]
  BY ExceptSeq
<1> QED
  BY <1>1, <1>2

-----------------------------------------------------------------------------
(* Type correctness.                                                       *)

\* Any request may go idle.
LEMMA IdleType ==
  ASSUME req \in [Procs -> Request], NEW p \in Procs, Idle(p)
  PROVE  req' \in [Procs -> Request]
BY DEF Idle, Become, Request

\* A request that is not idle names a row by a number.
LEMMA RequestRow ==
  ASSUME NEW r \in Request, r.pc # "idle"
  PROVE  r.row \in Nat
BY DEF Request

\* A new row is a row: its expiry times are numbers.
LEMMA NewRowType ==
  ASSUME now \in Nat, NEW u \in Users, NEW r \in Nat, NEW i \in Nat
  PROVE  NewRow(u, r, i) \in SessionRow
BY SessionsAssumption DEF NewRow, SessionRow, Expiry

\* What each step does to the table: nothing, a login, a rotation by a request
\* that had its row, or a revocation.
LoginRow(u) ==
  /\ Len(rows') = Len(rows) + 1
  /\ \A i \in Rows : rows'[i] = rows[i]
  /\ rows'[Len(rows) + 1] = NewRow(u, Len(rows) + 1, 0)

RotatedRow(i) ==
  /\ Len(rows') = Len(rows) + 1
  /\ \A j \in Rows : j # i => rows'[j] = rows[j]
  /\ rows'[i] = [rows[i] EXCEPT !.revoked = "rotated"]
  /\ rows'[Len(rows) + 1] = NewRow(rows[i].user, rows[i].root, i)

RevokedRow(i) ==
  /\ Len(rows') = Len(rows)
  /\ \A j \in Rows : j # i => rows'[j] = rows[j]
  /\ rows'[i] = IF rows[i].revoked = "no" THEN [rows[i] EXCEPT !.revoked = "loggedOut"]
                ELSE rows[i]

\* Requests name rows that there are.
RequestRows == \A p \in Procs : req[p].pc # "idle" => req[p].row \in Rows

\* A login adds a row that begins a family.
LEMMA LoginStep ==
  ASSUME TypeOK, NEW u \in Users, Login(u)
  PROVE  rows' \in Seq(SessionRow) /\ LoginRow(u)
<1>1. Len(rows) + 1 \in Nat /\ 0 \in Nat
  BY RowAt DEF TypeOK
<1>2. NewRow(u, Len(rows) + 1, 0) \in SessionRow
  BY <1>1, NewRowType DEF TypeOK
<1> QED
  BY <1>2, InsertRow DEF Login, TypeOK, LoginRow, Rows

\* Rotate revokes the row it holds and adds its successor.
LEMMA RotateStep ==
  ASSUME TypeOK, RequestRows, NEW p \in Procs, Rotate(p)
  PROVE  req[p].row \in Rows /\ rows' \in Seq(SessionRow) /\ RotatedRow(req[p].row)
<1> DEFINE i == req[p].row
           e == [rows[i] EXCEPT !.revoked = "rotated"]
           mid == [rows EXCEPT ![i] = e]
           new == NewRow(rows[i].user, rows[i].root, i)
<1>1. i \in Rows
  BY DEF Rotate, RequestRows
<1>2. i \in Nat /\ rows[i] \in SessionRow
  BY <1>1, RowAt DEF TypeOK, Rows
<1>3. rows[i].user \in Users /\ rows[i].root \in Nat /\ e \in SessionRow
  BY <1>2 DEF SessionRow
<1>4. new \in SessionRow
  BY <1>2, <1>3, NewRowType DEF TypeOK
<1>5. rows' = Append(mid, new)
  BY DEF Rotate
<1>6. rows \in Seq(SessionRow) /\ i \in 1..Len(rows)
  BY <1>1 DEF TypeOK, Rows
<1> HIDE DEF i, e, new
<1>7. /\ mid \in Seq(SessionRow)
      /\ Len(mid) = Len(rows)
      /\ \A j \in 1..Len(rows) : j # i => mid[j] = rows[j]
      /\ mid[i] = e
  BY <1>3, <1>6, UpdateRow
<1> HIDE DEF mid
<1>8. /\ rows' \in Seq(SessionRow)
      /\ Len(rows') = Len(mid) + 1
      /\ \A j \in 1..Len(mid) : rows'[j] = mid[j]
      /\ rows'[Len(mid) + 1] = new
  BY <1>4, <1>5, <1>7, InsertRow
<1>9. RotatedRow(i)
  BY <1>6, <1>7, <1>8 DEF RotatedRow, Rows, new, e
<1> QED
  BY <1>1, <1>8, <1>9 DEF i

\* Revoke sets revoked_at where it is not set.
LEMMA RevokeStep ==
  ASSUME TypeOK, RequestRows, NEW p \in Procs, Revoke(p)
  PROVE  req[p].row \in Rows /\ rows' \in Seq(SessionRow) /\ RevokedRow(req[p].row)
<1> DEFINE i == req[p].row
           e == IF rows[i].revoked = "no" THEN [rows[i] EXCEPT !.revoked = "loggedOut"]
                ELSE rows[i]
<1>1. i \in Rows
  BY DEF Revoke, RequestRows
<1>2. rows \in Seq(SessionRow) /\ i \in 1..Len(rows) /\ rows[i] \in SessionRow
  BY <1>1, RowAt DEF TypeOK, Rows
<1>3. e \in SessionRow
  BY <1>2 DEF SessionRow
<1>4. rows' = [rows EXCEPT ![i] = e]
  <2>1. e = [rows[i] EXCEPT !.revoked = IF @ = "no" THEN "loggedOut" ELSE @]
    BY <1>2 DEF SessionRow
  <2> QED
    BY <2>1 DEF Revoke
<1> HIDE DEF i, e
<1>5. /\ rows' \in Seq(SessionRow)
      /\ Len(rows') = Len(rows)
      /\ \A j \in 1..Len(rows) : j # i => rows'[j] = rows[j]
      /\ rows'[i] = e
  BY <1>2, <1>3, <1>4, UpdateRow
<1>6. RevokedRow(i)
  BY <1>5 DEF RevokedRow, Rows, e
<1> QED
  BY <1>1, <1>5, <1>6 DEF i

\* A request that begins, goes on or ends is a request, of a row that there is.
LEMMA RequestStep ==
  ASSUME TypeOK, RequestRows, NEW p \in Procs, NEW r, Become(p, r),
         r \in Request, r.pc # "idle" => r.row \in Rows, Len(rows) <= Len(rows'),
         rows' \in Seq(SessionRow)
  PROVE  req' \in [Procs -> Request] /\ RequestRows'
<1>1. /\ req' \in [Procs -> Request]
      /\ req'[p] = r
      /\ \A q \in Procs : q # p => req'[q] = req[q]
  BY DEF Become, TypeOK
<1>2. Rows \subseteq Rows'
  BY RowAt DEF Rows, TypeOK
<1> QED
  BY <1>1, <1>2 DEF RequestRows

\* The invariant of the types: they hold, and requests name existing rows.
TypeInv == TypeOK /\ RequestRows

LEMMA TypeStep ==
  ASSUME TypeInv, [Next]_vars
  PROVE  TypeInv'
<1> USE DEF TypeInv
<1>1. [pc |-> "idle"] \in Request
  BY DEF Request
<1>2. Len(rows) \in Nat /\ Rows \subseteq Nat
  BY RowAt DEF TypeOK, Rows
<1>3. ASSUME NEW p \in Procs, LockSession(p) \/ ReadUser(p) PROVE TypeInv'
  <2>1. UNCHANGED <<now, active, rows>> /\ req[p].pc \in Refreshing /\ req[p] \in Request
    BY <1>3 DEF LockSession, ReadUser, Refreshing, TypeOK
  <2>2. req[p].row \in Rows /\ req[p].row \in Nat
    BY <1>2, <2>1 DEF RequestRows, Refreshing
  <2>3. PICK r \in {[pc |-> "idle"], [pc |-> "rfUser", row |-> req[p].row],
                    [pc |-> "rfCommit", row |-> req[p].row]} : Become(p, r)
    BY <1>3 DEF LockSession, ReadUser, Idle
  <2>4. r \in Request /\ (r.pc # "idle" => r.row \in Rows)
    BY <2>2, <2>3 DEF Request
  <2>5. Len(rows) <= Len(rows') /\ rows' \in Seq(SessionRow)
    BY <1>2, <2>1 DEF TypeOK
  <2>6. req' \in [Procs -> Request] /\ RequestRows'
    BY <2>3, <2>4, <2>5, RequestStep
  <2> QED
    BY <2>1, <2>6 DEF TypeOK
<1>4. ASSUME NEW p \in Procs, Rotate(p) PROVE TypeInv'
  <2>1. rows' \in Seq(SessionRow) /\ Len(rows') = Len(rows) + 1
    BY <1>4, RotateStep DEF RotatedRow
  <2>2. UNCHANGED <<now, active>> /\ Become(p, [pc |-> "idle"])
    BY <1>4 DEF Rotate, Idle
  <2>3. req' \in [Procs -> Request] /\ RequestRows'
    BY <1>1, <1>2, <2>1, <2>2, RequestStep
  <2> QED
    BY <2>1, <2>2, <2>3 DEF TypeOK
<1>5. ASSUME NEW p \in Procs, Revoke(p) PROVE TypeInv'
  <2>1. rows' \in Seq(SessionRow) /\ Len(rows') = Len(rows)
    BY <1>5, RevokeStep DEF RevokedRow
  <2>2. UNCHANGED <<now, active>> /\ Become(p, [pc |-> "idle"])
    BY <1>5 DEF Revoke, Idle
  <2>3. req' \in [Procs -> Request] /\ RequestRows'
    BY <1>1, <1>2, <2>1, <2>2, RequestStep
  <2> QED
    BY <2>1, <2>2, <2>3 DEF TypeOK
<1>6. ASSUME NEW p \in Procs, Abort(p) PROVE TypeInv'
  <2>1. UNCHANGED <<now, active, rows>> /\ Become(p, [pc |-> "idle"])
    BY <1>6 DEF Abort, Idle
  <2>2. Len(rows) <= Len(rows') /\ rows' \in Seq(SessionRow)
    BY <1>2, <2>1 DEF TypeOK
  <2>3. req' \in [Procs -> Request] /\ RequestRows'
    BY <1>1, <2>1, <2>2, RequestStep
  <2> QED
    BY <2>1, <2>3 DEF TypeOK
<1>7. ASSUME NEW p \in Procs, NEW i \in Rows, BeginRefresh(p, i) \/ BeginLogout(p, i)
      PROVE  TypeInv'
  <2>1. UNCHANGED <<now, active, rows>> /\ i \in Nat /\ now \in Nat
    BY <1>2, <1>7 DEF BeginRefresh, BeginLogout, TypeOK
  <2>2. PICK r \in {[pc |-> "rfLock", row |-> i, asked |-> now],
                    [pc |-> "loUpdate", row |-> i]} : Become(p, r)
    BY <1>7 DEF BeginRefresh, BeginLogout
  <2>3. r \in Request /\ r.row \in Rows
    BY <2>1, <2>2 DEF Request
  <2>4. Len(rows) <= Len(rows') /\ rows' \in Seq(SessionRow)
    BY <1>2, <2>1 DEF TypeOK
  <2>5. req' \in [Procs -> Request] /\ RequestRows'
    BY <2>2, <2>3, <2>4, RequestStep
  <2> QED
    BY <2>1, <2>5 DEF TypeOK
<1>8. ASSUME NEW u \in Users, Login(u) PROVE TypeInv'
  <2>1. rows' \in Seq(SessionRow) /\ Len(rows') = Len(rows) + 1
    BY <1>8, LoginStep DEF LoginRow
  <2>2. UNCHANGED <<now, active, req>>
    BY <1>8 DEF Login
  <2>3. Rows \subseteq Rows'
    BY <1>2, <2>1 DEF Rows
  <2> QED
    BY <2>1, <2>2, <2>3 DEF TypeOK, RequestRows
<1>9. ASSUME UNCHANGED <<rows, req>>, now' \in Nat, active' \in [Users -> BOOLEAN]
      PROVE  TypeInv'
  BY <1>9 DEF TypeOK, RequestRows, Rows
<1>10. ASSUME NEW u \in Users, SetActive(u) PROVE TypeInv'
  <2>1. active' \in [Users -> BOOLEAN]
    BY <1>10, Zenon DEF SetActive, TypeOK
  <2> QED
    BY <1>9, <1>10, <2>1 DEF SetActive, TypeOK
<1>11. CASE Tick \/ UNCHANGED vars
  BY <1>9, <1>11 DEF Tick, vars, TypeOK
<1> QED
  BY <1>3, <1>4, <1>5, <1>6, <1>7, <1>8, <1>10, <1>11 DEF Next, Step

\* Sessions keeps its types: rows are only added whole, expiry times are
\* numbers, and a request names a row of the table.
THEOREM TypeCorrect == Spec => []TypeOK
<1>1. Init => TypeInv
  BY EmptySeq DEF Init, TypeInv, TypeOK, RequestRows, Request
<1>2. TypeInv /\ [Next]_vars => TypeInv'
  BY TypeStep
<1>3. TypeInv => TypeOK
  BY DEF TypeInv
<1> QED
  BY <1>1, <1>2, <1>3, PTL DEF Spec

-----------------------------------------------------------------------------
(* The families.  A family is the rows of one root.  Its table invariant    *)
(* says that at most one of them is valid and that a logout leaves none;    *)
(* the requests keep it, because the one that holds a row finds it valid    *)
(* until it commits.                                                       *)

\* Refreshes that hold a row: it is locked, and was found valid.
Holding == {p \in Procs : req[p].pc \in {"rfUser", "rfCommit"}}

HeldRowValid == \A p \in Holding : rows[req[p].row].revoked = "no"

HoldersApart == \A p, q \in Holding : req[p].row = req[q].row => p = q

\* A row that replaced another came when that one was revoked.
ParentsRevoked ==
  \A i \in Rows : rows[i].parent # 0 =>
    rows[i].parent \in Rows /\ rows[rows[i].parent].revoked # "no"

\* A family is named by the row of its login.
RootsExist ==
  \A i \in Rows : rows[i].root \in Rows /\ rows[rows[i].root].root = rows[i].root

OneValid ==
  \A i, j \in Rows :
    rows[i].root = rows[j].root /\ rows[i].revoked = "no" /\ rows[j].revoked = "no" => i = j

\* Where one row was logged out, none is valid.
Ended ==
  \A i, j \in Rows :
    rows[i].root = rows[j].root /\ rows[i].revoked = "loggedOut" => rows[j].revoked # "no"

TableInv == ParentsRevoked /\ RootsExist /\ OneValid /\ Ended /\ OneSuccessor

FamilyInv == TableInv /\ HeldRowValid /\ HoldersApart

\* A login begins a family of its own: every root so far is an older row.
LEMMA LoginKeepsTable ==
  ASSUME TypeOK, TableInv, NEW u \in Users, LoginRow(u)
  PROVE  TableInv'
<1> DEFINE n == Len(rows)
<1>1. n \in Nat /\ Rows = 1..n /\ Rows' = 1..(n + 1)
  BY RowAt DEF TypeOK, Rows, LoginRow
<1>2. /\ rows'[n + 1].root = n + 1
      /\ rows'[n + 1].parent = 0
      /\ rows'[n + 1].revoked = "no"
  BY DEF LoginRow, NewRow
<1>3. \A i \in 1..n : rows'[i] = rows[i] /\ rows[i].root \in 1..n
  BY <1>1 DEF LoginRow, TableInv, RootsExist
<1> HIDE DEF n
<1>4. ParentsRevoked'
  BY <1>1, <1>2, <1>3 DEF TableInv, ParentsRevoked
<1>5. RootsExist'
  BY <1>1, <1>2, <1>3 DEF TableInv, RootsExist
<1>6. OneValid' /\ Ended'
  BY <1>1, <1>2, <1>3 DEF TableInv, OneValid, Ended
<1>7. OneSuccessor'
  BY <1>1, <1>2, <1>3 DEF TableInv, OneSuccessor
<1> QED
  BY <1>4, <1>5, <1>6, <1>7 DEF TableInv

\* A rotation of a valid row: it has no successor yet, no other row of its
\* family is valid, and nobody logged the family out.
LEMMA RotationKeepsTable ==
  ASSUME TypeOK, TableInv, NEW k \in Rows, rows[k].revoked = "no", RotatedRow(k)
  PROVE  TableInv'
<1> DEFINE n == Len(rows)
<1>1. n \in Nat /\ Rows = 1..n /\ Rows' = 1..(n + 1) /\ k \in 1..n
  BY RowAt DEF TypeOK, Rows, RotatedRow
<1>2. /\ rows'[n + 1].root = rows[k].root
      /\ rows'[n + 1].parent = k
      /\ rows'[n + 1].revoked = "no"
  BY DEF RotatedRow, NewRow
<1>3. rows[k] \in SessionRow
  BY RowAt DEF TypeOK, Rows
<1>4. /\ rows'[k].root = rows[k].root
      /\ rows'[k].parent = rows[k].parent
      /\ rows'[k].revoked = "rotated"
  BY <1>3 DEF RotatedRow, SessionRow
<1>5. \A i \in 1..n :
        /\ rows'[i].root = rows[i].root
        /\ rows'[i].parent = rows[i].parent
        /\ i # k => rows'[i].revoked = rows[i].revoked
  BY <1>1, <1>4 DEF RotatedRow
<1> HIDE DEF n
<1>6. ParentsRevoked'
  BY <1>1, <1>2, <1>4, <1>5 DEF TableInv, ParentsRevoked
<1>7. RootsExist'
  BY <1>1, <1>2, <1>5 DEF TableInv, RootsExist
<1>8. OneValid'
  BY <1>1, <1>2, <1>4, <1>5 DEF TableInv, OneValid
<1>9. Ended'
  BY <1>1, <1>2, <1>4, <1>5 DEF TableInv, OneValid, Ended
<1>10. OneSuccessor'
  <2>1. \A i \in 1..n : rows[i].parent # k
    BY <1>1 DEF TableInv, ParentsRevoked
  <2> QED
    BY <1>1, <1>2, <1>5, <2>1 DEF TableInv, OneSuccessor
<1> QED
  BY <1>6, <1>7, <1>8, <1>9, <1>10 DEF TableInv

\* A logout ends a family only where it finds its one valid row.
LEMMA RevocationKeepsTable ==
  ASSUME TypeOK, TableInv, NEW k \in Rows, RevokedRow(k)
  PROVE  TableInv'
<1>1. Rows' = Rows
  BY DEF Rows, RevokedRow
<1>2. rows[k] \in SessionRow
  BY RowAt DEF TypeOK, Rows
<1>3. \A i \in Rows :
        /\ rows'[i].root = rows[i].root
        /\ rows'[i].parent = rows[i].parent
        /\ rows'[i].revoked # rows[i].revoked =>
             i = k /\ rows[k].revoked = "no" /\ rows'[k].revoked = "loggedOut"
  BY <1>2 DEF RevokedRow, SessionRow
<1>4. \A i \in Rows : rows'[i].revoked = "no" => rows[i].revoked = "no"
  BY <1>3
<1>5. ParentsRevoked' /\ RootsExist'
  BY <1>1, <1>3, <1>4 DEF TableInv, ParentsRevoked, RootsExist
<1>6. OneValid' /\ OneSuccessor'
  BY <1>1, <1>3, <1>4 DEF TableInv, OneValid, OneSuccessor
<1>7. Ended'
  <2> SUFFICES ASSUME NEW i \in Rows, NEW j \in Rows, rows[i].root = rows[j].root,
                      rows'[i].revoked = "loggedOut", rows'[j].revoked = "no"
               PROVE  FALSE
    BY <1>1, <1>3 DEF Ended
  <2>1. rows[j].revoked = "no"
    BY <1>4
  <2>2. CASE rows[i].revoked = "loggedOut"
    BY <2>1, <2>2 DEF TableInv, Ended
  <2>3. CASE rows[i].revoked # "loggedOut"
    <3>1. i = k /\ rows[i].revoked = "no"
      BY <1>3, <2>3
    <3>2. i = j
      BY <2>1, <3>1 DEF TableInv, OneValid
    <3> QED
      BY <3>2
  <2> QED
    BY <2>2, <2>3
<1> QED
  BY <1>5, <1>6, <1>7 DEF TableInv

\* A request lets its row go; the rows the others hold are as they were.
LEMMA ReleaseKeepsHeld ==
  ASSUME TypeInv, HeldRowValid, HoldersApart, NEW p \in Procs, Idle(p),
         \A q \in Holding \ {p} : rows'[req[q].row] = rows[req[q].row]
  PROVE  HeldRowValid' /\ HoldersApart'
<1>1. req'[p].pc = "idle" /\ \A q \in Procs : q # p => req'[q] = req[q]
  BY DEF Idle, Become, TypeInv, TypeOK
<1>2. Holding' \subseteq Holding \ {p}
  BY <1>1 DEF Holding
<1>3. \A q \in Holding' : req'[q] = req[q] /\ rows'[req'[q].row] = rows[req[q].row]
  BY <1>1, <1>2 DEF Holding
<1> QED
  BY <1>2, <1>3 DEF HeldRowValid, HoldersApart

\* A request that keeps its row, or that was granted a valid row nobody else
\* holds.
LEMMA GrantKeepsHeld ==
  ASSUME TypeInv, HeldRowValid, HoldersApart, NEW p \in Procs, NEW pc, NEW k,
         Become(p, [pc |-> pc, row |-> k]), UNCHANGED rows,
         rows[k].revoked = "no", \A q \in Holding \ {p} : req[q].row # k
  PROVE  HeldRowValid' /\ HoldersApart'
<1>1. req'[p].row = k /\ \A q \in Procs : q # p => req'[q] = req[q]
  BY DEF Become, TypeInv, TypeOK
<1>2. Holding' \subseteq Holding \cup {p}
  BY <1>1 DEF Holding
<1>3. \A q \in Holding' : q # p => q \in Holding /\ req'[q].row = req[q].row
  BY <1>1, <1>2 DEF Holding
<1>4. HeldRowValid'
  BY <1>1, <1>2, <1>3 DEF HeldRowValid
<1>5. HoldersApart'
  BY <1>1, <1>2, <1>3 DEF HoldersApart
<1> QED
  BY <1>4, <1>5

\* What a request that begins does not hold yet.
LEMMA BeginKeepsHeld ==
  ASSUME TypeInv, HeldRowValid, HoldersApart, NEW p \in Procs, NEW i \in Rows,
         BeginRefresh(p, i) \/ BeginLogout(p, i)
  PROVE  HeldRowValid' /\ HoldersApart'
<1>1. /\ UNCHANGED rows
      /\ req'[p].pc \in {"rfLock", "loUpdate"}
      /\ \A q \in Procs : q # p => req'[q] = req[q]
  BY DEF BeginRefresh, BeginLogout, Become, TypeInv, TypeOK
<1>2. Holding' \subseteq Holding \ {p}
  BY <1>1 DEF Holding
<1>3. \A q \in Holding' : req'[q] = req[q]
  BY <1>1, <1>2 DEF Holding
<1> QED
  BY <1>1, <1>2, <1>3 DEF HeldRowValid, HoldersApart

LEMMA FamilyStep ==
  ASSUME TypeInv, FamilyInv, [Next]_vars
  PROVE  FamilyInv'
<1> USE DEF FamilyInv
<1>1. ASSUME UNCHANGED rows PROVE TableInv'
  BY <1>1 DEF TableInv, ParentsRevoked, RootsExist, OneValid, Ended, OneSuccessor, Rows
<1>2. ASSUME NEW p \in Procs, LockSession(p) PROVE FamilyInv'
  <2>1. UNCHANGED rows
    BY <1>2 DEF LockSession
  <2>2. CASE Refreshable(req[p].row, req[p].asked)
    <3>1. Become(p, [pc |-> "rfUser", row |-> req[p].row])
      BY <1>2, <2>2 DEF LockSession
    <3>2. rows[req[p].row].revoked = "no"
      BY <2>2 DEF Refreshable
    <3>3. \A q \in Holding \ {p} : req[q].row # req[p].row
      BY <1>2 DEF LockSession, Unlocked, Holding
    <3>4. HeldRowValid' /\ HoldersApart'
      BY <2>1, <3>1, <3>2, <3>3, GrantKeepsHeld
    <3> QED
      BY <1>1, <2>1, <3>4
  <2>3. CASE ~Refreshable(req[p].row, req[p].asked)
    <3>1. Idle(p)
      BY <1>2, <2>3 DEF LockSession
    <3>2. HeldRowValid' /\ HoldersApart'
      BY <2>1, <3>1, ReleaseKeepsHeld
    <3> QED
      BY <1>1, <2>1, <3>2
  <2> QED
    BY <2>2, <2>3
<1>3. ASSUME NEW p \in Procs, ReadUser(p) PROVE FamilyInv'
  <2>1. UNCHANGED rows /\ p \in Holding
    BY <1>3 DEF ReadUser, Holding
  <2>2. CASE active[rows[req[p].row].user]
    <3>1. Become(p, [pc |-> "rfCommit", row |-> req[p].row])
      BY <1>3, <2>2 DEF ReadUser
    <3>2. rows[req[p].row].revoked = "no"
      BY <2>1 DEF HeldRowValid
    <3>3. \A q \in Holding \ {p} : req[q].row # req[p].row
      BY <2>1 DEF HoldersApart
    <3>4. HeldRowValid' /\ HoldersApart'
      BY <2>1, <3>1, <3>2, <3>3, GrantKeepsHeld
    <3> QED
      BY <1>1, <2>1, <3>4
  <2>3. CASE ~active[rows[req[p].row].user]
    <3>1. Idle(p)
      BY <1>3, <2>3 DEF ReadUser
    <3>2. HeldRowValid' /\ HoldersApart'
      BY <2>1, <3>1, ReleaseKeepsHeld
    <3> QED
      BY <1>1, <2>1, <3>2
  <2> QED
    BY <2>2, <2>3
<1>4. ASSUME NEW p \in Procs, Rotate(p) PROVE FamilyInv'
  <2>1. p \in Holding /\ Idle(p)
    BY <1>4 DEF Rotate, Holding
  <2>2. req[p].row \in Rows /\ RotatedRow(req[p].row)
    BY <1>4, RotateStep DEF TypeInv
  <2>3. TableInv'
    BY <2>1, <2>2, RotationKeepsTable DEF HeldRowValid, TypeInv
  <2>4. \A q \in Holding \ {p} : rows'[req[q].row] = rows[req[q].row]
    BY <2>1, <2>2 DEF HoldersApart, RotatedRow, TypeInv, RequestRows, Holding
  <2> QED
    BY <2>1, <2>3, <2>4, ReleaseKeepsHeld
<1>5. ASSUME NEW p \in Procs, Revoke(p) PROVE FamilyInv'
  <2>1. Idle(p) /\ \A q \in Holding \ {p} : req[q].row # req[p].row
    BY <1>5 DEF Revoke, Unlocked, Holding
  <2>2. req[p].row \in Rows /\ RevokedRow(req[p].row)
    BY <1>5, RevokeStep DEF TypeInv
  <2>3. TableInv'
    BY <2>2, RevocationKeepsTable DEF TypeInv
  <2>4. \A q \in Holding \ {p} : rows'[req[q].row] = rows[req[q].row]
    BY <2>1, <2>2 DEF RevokedRow, TypeInv, RequestRows, Holding
  <2> QED
    BY <2>1, <2>3, <2>4, ReleaseKeepsHeld
<1>6. ASSUME NEW p \in Procs, Abort(p) PROVE FamilyInv'
  <2>1. Idle(p) /\ UNCHANGED rows
    BY <1>6 DEF Abort
  <2>2. HeldRowValid' /\ HoldersApart'
    BY <2>1, ReleaseKeepsHeld
  <2> QED
    BY <1>1, <2>1, <2>2
<1>7. ASSUME NEW p \in Procs, NEW i \in Rows, BeginRefresh(p, i) \/ BeginLogout(p, i)
      PROVE  FamilyInv'
  <2>1. UNCHANGED rows
    BY <1>7 DEF BeginRefresh, BeginLogout
  <2>2. HeldRowValid' /\ HoldersApart'
    BY <1>7, BeginKeepsHeld
  <2> QED
    BY <1>1, <2>1, <2>2
<1>8. ASSUME NEW u \in Users, Login(u) PROVE FamilyInv'
  <2>1. LoginRow(u) /\ UNCHANGED req
    BY <1>8, LoginStep DEF Login, TypeInv
  <2>2. TableInv'
    BY <2>1, LoginKeepsTable DEF TypeInv
  <2>3. \A q \in Holding : rows'[req[q].row] = rows[req[q].row]
    BY <2>1 DEF LoginRow, TypeInv, RequestRows, Holding
  <2>4. HeldRowValid' /\ HoldersApart'
    BY <2>1, <2>3 DEF HeldRowValid, HoldersApart, Holding
  <2> QED
    BY <2>2, <2>4
<1>9. ASSUME UNCHANGED <<rows, req>> PROVE FamilyInv'
  BY <1>1, <1>9 DEF HeldRowValid, HoldersApart, Holding
<1>10. CASE (\E u \in Users : SetActive(u)) \/ Tick \/ UNCHANGED vars
  BY <1>9, <1>10 DEF SetActive, Tick, vars
<1> QED
  BY <1>2, <1>3, <1>4, <1>5, <1>6, <1>7, <1>8, <1>10 DEF Next, Step

\* The inductive invariant: the types, and the state of the families.
SessionInv == TypeInv /\ FamilyInv

\* In every state: a family has at most one valid row and none after a logout,
\* a row is replaced only once it is revoked, and a refresh that holds a row
\* is the only one that does and will find the row valid when it commits.
THEOREM FamilyInvariant == Spec => []SessionInv
<1>1. Init => SessionInv
  <2> SUFFICES ASSUME Init PROVE SessionInv
    OBVIOUS
  <2>1. Rows = {} /\ Holding = {}
    BY EmptySeq DEF Init, Rows, Holding
  <2>2. TypeInv
    BY EmptySeq DEF Init, TypeInv, TypeOK, RequestRows, Request
  <2>3. TableInv
    BY <2>1 DEF TableInv, ParentsRevoked, RootsExist, OneValid, Ended, OneSuccessor
  <2> QED
    BY <2>1, <2>2, <2>3 DEF SessionInv, FamilyInv, HeldRowValid, HoldersApart
<1>2. SessionInv /\ [Next]_vars => SessionInv'
  BY TypeStep, FamilyStep DEF SessionInv
<1> QED
  BY <1>1, <1>2, PTL DEF Spec

-----------------------------------------------------------------------------
(* The properties.                                                         *)

\* A refresh token is traded for a new pair at most once, whatever the number
\* of refreshes that present it together.
THEOREM RefreshTokensAreSingleUse == Spec => []OneSuccessor
<1>1. SessionInv => OneSuccessor
  BY DEF SessionInv, FamilyInv, TableInv
<1> QED
  BY <1>1, FamilyInvariant, PTL

\* At most one access token of a login's is let in at any time.
THEOREM AccessIsSingle == Spec => []OneAccess
<1>1. SessionInv => OneAccess
  BY DEF SessionInv, FamilyInv, TableInv, OneValid, OneAccess, Authenticated
<1> QED
  BY <1>1, FamilyInvariant, PTL

\* What a step does to the table, in the terms of the properties.
LEMMA TableStep ==
  ASSUME SessionInv, [Next]_vars
  PROVE  \/ Len(rows') = Len(rows) /\ \A i \in Rows : rows'[i] = rows[i]
         \/ \E u \in Users : LoginRow(u)
         \/ \E k \in Rows : rows[k].revoked = "no" /\ RotatedRow(k)
         \/ \E k \in Rows : RevokedRow(k)
<1> USE DEF SessionInv, FamilyInv, TypeInv
<1>1. ASSUME NEW p \in Procs, Rotate(p)
      PROVE  \E k \in Rows : rows[k].revoked = "no" /\ RotatedRow(k)
  <2>1. req[p].row \in Rows /\ RotatedRow(req[p].row)
    BY <1>1, RotateStep
  <2>2. rows[req[p].row].revoked = "no"
    BY <1>1 DEF Rotate, HeldRowValid, Holding
  <2> QED
    BY <2>1, <2>2
<1>2. ASSUME NEW p \in Procs, Revoke(p) PROVE \E k \in Rows : RevokedRow(k)
  BY <1>2, RevokeStep
<1>3. ASSUME NEW u \in Users, Login(u) PROVE LoginRow(u)
  BY <1>3, LoginStep
<1>4. ASSUME \/ \E p \in Procs : LockSession(p) \/ ReadUser(p) \/ Abort(p)
             \/ \E p \in Procs, i \in Rows : BeginRefresh(p, i) \/ BeginLogout(p, i)
             \/ \E u \in Users : SetActive(u)
             \/ Tick \/ UNCHANGED vars
      PROVE  UNCHANGED rows
  BY <1>4 DEF LockSession, ReadUser, Abort, BeginRefresh, BeginLogout, SetActive, Tick, vars
<1> QED
  BY <1>1, <1>2, <1>3, <1>4 DEF Next, Step

\* A logout that revoked a valid session (Logout, auth.go) is final: no later row
\* descends from the same login.
THEOREM LogoutsAreFinal == Spec => LogoutFinal
<1> DEFINE Final == \A i \in Rows : rows[i].revoked = "loggedOut" =>
                      \A j \in Len(rows) + 1..Len(rows') : rows'[j].root # rows[i].root
<1>1. SessionInv /\ [Next]_vars => Final
  <2> SUFFICES ASSUME SessionInv, [Next]_vars, NEW i \in Rows, rows[i].revoked = "loggedOut",
                      NEW j \in Len(rows) + 1..Len(rows'), rows'[j].root = rows[i].root
               PROVE  FALSE
    OBVIOUS
  <2>1. Len(rows) \in Nat /\ Rows = 1..Len(rows)
    BY RowAt DEF SessionInv, TypeInv, TypeOK, Rows
  <2>2. ASSUME NEW u \in Users, LoginRow(u) PROVE FALSE
    <3>1. j = Len(rows) + 1
      BY <2>1, <2>2 DEF LoginRow
    <3>2. rows'[j].root = Len(rows) + 1
      BY <2>2, <3>1 DEF LoginRow, NewRow
    <3>3. rows[i].root \in Rows
      BY DEF SessionInv, FamilyInv, TableInv, RootsExist
    <3> QED
      BY <2>1, <3>2, <3>3
  <2>3. ASSUME NEW k \in Rows, rows[k].revoked = "no", RotatedRow(k) PROVE FALSE
    <3>1. j = Len(rows) + 1
      BY <2>1, <2>3 DEF RotatedRow
    <3>2. rows'[j].root = rows[k].root
      BY <2>3, <3>1 DEF RotatedRow, NewRow
    <3> QED
      BY <2>3, <3>2 DEF SessionInv, FamilyInv, TableInv, Ended
  <2>4. Len(rows') # Len(rows)
    BY <2>1
  <2> QED
    BY <2>2, <2>3, <2>4, TableStep DEF RevokedRow
<1>2. SessionInv /\ [Next]_vars => [Final]_vars
  BY <1>1
<1> QED
  BY <1>2, FamilyInvariant, PTL DEF Spec, LogoutFinal

\* A revoked row stays as it is: neither a second logout nor a late refresh
\* moves revoked_at.
THEOREM RevocationsLast == Spec => RevokedForever
<1> DEFINE Lasting == \A i \in Rows : rows[i].revoked # "no" => rows'[i] = rows[i]
<1>1. SessionInv /\ [Next]_vars => Lasting
  <2> SUFFICES ASSUME SessionInv, [Next]_vars, NEW i \in Rows, rows[i].revoked # "no"
               PROVE  rows'[i] = rows[i]
    OBVIOUS
  <2> QED
    BY TableStep DEF LoginRow, RotatedRow, RevokedRow
<1>2. SessionInv /\ [Next]_vars => [Lasting]_vars
  BY <1>1
<1> QED
  BY <1>2, FamilyInvariant, PTL DEF Spec, RevokedForever

-----------------------------------------------------------------------------
(* Room: the rows stay within the tokens the abstract specification has.    *)

\* Refreshes under way: each may add a row.
Adding == {q \in Procs : req[q].pc \in Refreshing}

RoomInv == Len(rows) + Cardinality(Adding) <= MaxRows

\* A set of requests is finite, and its size is a number.
LEMMA AddingFinite ==
  IsFiniteSet(Adding) /\ Cardinality(Adding) \in Nat
BY SessionsAssumption, FS_Subset, FS_CardinalityType DEF Adding

\* Where no request joins them, the refreshes under way do not grow in number.
LEMMA NoneJoins ==
  ASSUME Adding' \subseteq Adding
  PROVE  Cardinality(Adding') \in Nat /\ Cardinality(Adding') <= Cardinality(Adding)
BY AddingFinite, FS_Subset, FS_CardinalityType

\* A refresh that ends is one less.
LEMMA OneLeaves ==
  ASSUME NEW p \in Adding, Adding' \subseteq Adding \ {p}
  PROVE  Cardinality(Adding') \in Nat /\ Cardinality(Adding') <= Cardinality(Adding) - 1
<1>1. IsFiniteSet(Adding \ {p}) /\ Cardinality(Adding \ {p}) = Cardinality(Adding) - 1
  BY AddingFinite, FS_RemoveElement
<1> QED
  BY <1>1, AddingFinite, FS_Subset, FS_CardinalityType

\* A refresh that begins is at most one more.
LEMMA OneJoins ==
  ASSUME NEW p, Adding' \subseteq Adding \cup {p}
  PROVE  Cardinality(Adding') \in Nat /\ Cardinality(Adding') <= Cardinality(Adding) + 1
<1>1. /\ IsFiniteSet(Adding \cup {p})
      /\ Cardinality(Adding \cup {p}) \in Nat
      /\ Cardinality(Adding \cup {p}) <= Cardinality(Adding) + 1
  <2>1. IsFiniteSet(Adding \cup {p})
    BY AddingFinite, FS_AddElement
  <2>2. Cardinality(Adding \cup {p}) =
          IF p \in Adding THEN Cardinality(Adding) ELSE Cardinality(Adding) + 1
    BY AddingFinite, FS_AddElement
  <2> HIDE DEF Adding
  <2> QED
    BY <2>1, <2>2, AddingFinite
<1>2. Adding' \in SUBSET (Adding \cup {p})
  OBVIOUS
<1>3. IsFiniteSet(Adding') /\ Cardinality(Adding') <= Cardinality(Adding \cup {p})
  BY <1>1, <1>2, FS_Subset
<1>4. Cardinality(Adding') \in Nat
  BY <1>3, FS_CardinalityType
<1> QED
  BY <1>1, <1>3, <1>4, AddingFinite

LEMMA RoomStep ==
  ASSUME TypeInv, RoomInv, [Next]_vars
  PROVE  RoomInv'
<1> USE DEF RoomInv
<1>1. Len(rows) \in Nat /\ Cardinality(Adding) \in Nat /\ MaxRows \in Nat
  BY RowAt, AddingFinite, SessionsAssumption DEF TypeInv, TypeOK
<1>2. ASSUME UNCHANGED rows, Adding' \subseteq Adding PROVE RoomInv'
  BY <1>1, <1>2, NoneJoins
<1>3. ASSUME NEW p \in Procs, LockSession(p) \/ ReadUser(p) \/ Abort(p) PROVE RoomInv'
  <2>1. \A q \in Procs : q # p => req'[q] = req[q]
    BY <1>3 DEF LockSession, ReadUser, Abort, Idle, Become, TypeInv, TypeOK
  <2>2. req'[p].pc \in Refreshing => req[p].pc \in Refreshing
    BY <1>3 DEF LockSession, ReadUser, Abort, Idle, Become, Refreshing, TypeInv, TypeOK
  <2>3. Adding' \subseteq Adding
    BY <2>1, <2>2 DEF Adding, Refreshing
  <2> QED
    BY <1>2, <1>3, <2>3 DEF LockSession, ReadUser, Abort
<1>4. ASSUME NEW p \in Procs, Rotate(p) PROVE RoomInv'
  <2>1. Len(rows') = Len(rows) + 1
    BY <1>4, RotateStep DEF RotatedRow, TypeInv
  <2>2. p \in Adding
    BY <1>4 DEF Rotate, Adding, Refreshing
  <2>3. req'[p].pc = "idle" /\ \A q \in Procs : q # p => req'[q] = req[q]
    BY <1>4 DEF Rotate, Idle, Become, TypeInv, TypeOK
  <2>4. Adding' \subseteq Adding \ {p}
    BY <2>3 DEF Adding, Refreshing
  <2> QED
    BY <1>1, <2>1, <2>2, <2>4, OneLeaves
<1>5. ASSUME NEW p \in Procs, Revoke(p) PROVE RoomInv'
  <2>1. Len(rows') = Len(rows)
    BY <1>5, RevokeStep DEF RevokedRow, TypeInv
  <2>2. req'[p].pc = "idle" /\ \A q \in Procs : q # p => req'[q] = req[q]
    BY <1>5 DEF Revoke, Idle, Become, TypeInv, TypeOK
  <2>3. Adding' \subseteq Adding
    BY <2>2 DEF Adding, Refreshing
  <2> QED
    BY <1>1, <2>1, <2>3, NoneJoins
<1>6. ASSUME NEW p \in Procs, NEW i \in Rows, BeginRefresh(p, i) PROVE RoomInv'
  <2>1. UNCHANGED rows /\ Len(rows) + Cardinality(Adding) < MaxRows
    BY <1>6 DEF BeginRefresh, Room, Adding
  <2>2. \A q \in Procs : q # p => req'[q] = req[q]
    BY <1>6 DEF BeginRefresh, Become, TypeInv, TypeOK
  <2>3. Adding' \subseteq Adding \cup {p}
    BY <2>2 DEF Adding
  <2>4. Cardinality(Adding') \in Nat /\ Cardinality(Adding') <= Cardinality(Adding) + 1
    BY <2>3, OneJoins
  <2> QED
    BY <1>1, <2>1, <2>4
<1>7. ASSUME NEW p \in Procs, NEW i \in Rows, BeginLogout(p, i) PROVE RoomInv'
  <2>1. req'[p].pc = "loUpdate" /\ \A q \in Procs : q # p => req'[q] = req[q]
    BY <1>7 DEF BeginLogout, Become, TypeInv, TypeOK
  <2>2. Adding' \subseteq Adding
    BY <2>1 DEF Adding, Refreshing
  <2> QED
    BY <1>2, <1>7, <2>2 DEF BeginLogout
<1>8. ASSUME NEW u \in Users, Login(u) PROVE RoomInv'
  <2>1. Len(rows') = Len(rows) + 1 /\ UNCHANGED req
    BY <1>8, LoginStep DEF LoginRow, Login, TypeInv
  <2>2. Len(rows) + Cardinality(Adding) < MaxRows
    BY <1>8 DEF Login, Room, Adding
  <2>3. Adding' = Adding
    BY <2>1 DEF Adding
  <2> QED
    BY <1>1, <2>1, <2>2, <2>3
<1>9. CASE (\E u \in Users : SetActive(u)) \/ Tick \/ UNCHANGED vars
  <2>1. UNCHANGED <<rows, req>>
    BY <1>9 DEF SetActive, Tick, vars
  <2>2. Adding' = Adding
    BY <2>1 DEF Adding
  <2> QED
    BY <1>2, <2>1, <2>2
<1> QED
  BY <1>3, <1>4, <1>5, <1>6, <1>7, <1>8, <1>9 DEF Next, Step

-----------------------------------------------------------------------------
(* What the steps do to the families.                                      *)

\* The logins, which name the families.
Roots == {i \in Rows : rows[i].root = i}

\* A token that is no row yet is in no family.
LEMMA NextIsFresh ==
  ASSUME NEW t, t \notin Rows
  PROVE  Families!Fresh(t)
BY DEF Families!Fresh, Family, SpentOf, LiveOf

\* The table as it was: the families as they were.
LEMMA SameFamilies ==
  ASSUME Rows' = Rows, \A i \in Rows : rows'[i] = rows[i]
  PROVE  Family' = Family
<1>1. Roots' = Roots
  BY DEF Roots
<1>2. \A r : SpentOf(r)' = SpentOf(r) /\ LiveOf(r)' = LiveOf(r)
  BY DEF SpentOf, LiveOf
<1>3. \A r \in Roots : rows'[r].user = rows[r].user
  BY DEF Roots
<1> QED
  BY <1>1, <1>2, <1>3 DEF Family, Roots

\* A login's row is a family of its own.
LEMMA LoginBegins ==
  ASSUME SessionInv, NEW u \in Users, LoginRow(u), Len(rows) + 1 <= MaxRows
  PROVE  Families!Next
<1>0. PICK t : t = Len(rows) + 1
  OBVIOUS
<1>1. t \in 1..MaxRows /\ t \notin Rows /\ Rows' = Rows \cup {t}
  BY <1>0, RowAt, SessionsAssumption DEF SessionInv, TypeInv, TypeOK, Rows, LoginRow
<1>2. /\ rows'[t].user = u
      /\ rows'[t].root = t
      /\ rows'[t].revoked = "no"
  BY <1>0 DEF LoginRow, NewRow
<1>3. \A i \in Rows : rows'[i] = rows[i] /\ rows[i].root \in Rows
  BY DEF LoginRow, SessionInv, FamilyInv, TableInv, RootsExist
<1>4. Roots' = Roots \cup {t} /\ t \notin Roots
  BY <1>1, <1>2, <1>3 DEF Roots
<1>5. \A r \in Roots : SpentOf(r)' = SpentOf(r) /\ LiveOf(r)' = LiveOf(r)
  BY <1>1, <1>2, <1>3 DEF Roots, SpentOf, LiveOf
<1>6. SpentOf(t)' = {} /\ LiveOf(t)' = {t}
  BY <1>1, <1>2, <1>3 DEF SpentOf, LiveOf
<1>7. \A r \in Roots : rows'[r].user = rows[r].user
  BY <1>3 DEF Roots
<1>8. Family' = [r \in Roots \cup {t} |->
                   IF r = t THEN [user |-> u, spent |-> {}, live |-> {t}] ELSE Family[r]]
  BY <1>2, <1>4, <1>5, <1>6, <1>7 DEF Family, Roots
<1>9. DOMAIN Family = Roots
  BY DEF Family, Roots
<1>10. Families!Login(u, t)
  BY <1>1, <1>8, <1>9, NextIsFresh DEF Families!Login
<1> QED
  BY <1>1, <1>10 DEF Families!Next

\* What an update of a family's live row does to the families: only that row's
\* family is concerned.
LEMMA OneFamily ==
  ASSUME NEW f \in Roots, NEW sp, NEW lv, Roots' = Roots,
         \A r \in Roots : rows'[r].user = rows[r].user,
         \A r \in Roots : r # f => SpentOf(r)' = SpentOf(r) /\ LiveOf(r)' = LiveOf(r),
         SpentOf(f)' = sp, LiveOf(f)' = lv
  PROVE  Family' = [Family EXCEPT ![f].spent = sp, ![f].live = lv]
<1>1. Family = [r \in Roots |-> [user |-> rows[r].user, spent |-> SpentOf(r), live |-> LiveOf(r)]]
  BY DEF Family, Roots
<1>2. Family' = [r \in Roots |-> [user |-> rows[r].user,
                                  spent |-> IF r = f THEN sp ELSE SpentOf(r),
                                  live |-> IF r = f THEN lv ELSE LiveOf(r)]]
  BY DEF Family, Roots
<1> QED
  BY <1>1, <1>2

\* A rotation trades a family's live row for the new one.
LEMMA RotationTrades ==
  ASSUME SessionInv, NEW k \in Rows, rows[k].revoked = "no", RotatedRow(k),
         Len(rows) + 1 <= MaxRows
  PROVE  Families!Next
<1>0. PICK t, f : t = Len(rows) + 1 /\ f = rows[k].root
  OBVIOUS
<1>1. /\ t \in 1..MaxRows /\ t \notin Rows /\ Rows' = Rows \cup {t}
      /\ k \in 1..MaxRows
  BY <1>0, RowAt, SessionsAssumption DEF SessionInv, TypeInv, TypeOK, Rows, RotatedRow
<1>2. /\ rows'[t].root = f
      /\ rows'[t].revoked = "no"
  BY <1>0 DEF RotatedRow, NewRow
<1>3. rows[k] \in SessionRow
  BY RowAt DEF SessionInv, TypeInv, TypeOK, Rows
<1>4. \A i \in Rows :
        /\ rows'[i].root = rows[i].root
        /\ rows'[i].user = rows[i].user
        /\ i # k => rows'[i].revoked = rows[i].revoked
  BY <1>3 DEF RotatedRow, SessionRow
<1>5. rows'[k].revoked = "rotated"
  BY <1>3 DEF RotatedRow, SessionRow
<1>6. f \in Roots /\ f \in Rows
  BY <1>0 DEF Roots, SessionInv, FamilyInv, TableInv, RootsExist
<1>7. \A i \in Rows : rows[i].root = f /\ rows[i].revoked = "no" => i = k
  BY <1>0 DEF SessionInv, FamilyInv, TableInv, OneValid
<1>8. Roots' = Roots
  BY <1>1, <1>2, <1>4, <1>6 DEF Roots
<1>9. \A r \in Roots : r # f => SpentOf(r)' = SpentOf(r) /\ LiveOf(r)' = LiveOf(r)
  BY <1>1, <1>2, <1>4, <1>0 DEF Roots, SpentOf, LiveOf
<1>10. SpentOf(f)' = SpentOf(f) \cup {k}
  BY <1>1, <1>2, <1>4, <1>5, <1>0 DEF SpentOf
<1>11. LiveOf(f)' = {t} /\ LiveOf(f) = {k}
  BY <1>1, <1>2, <1>4, <1>5, <1>7, <1>0 DEF LiveOf
<1>12. \A r \in Roots : rows'[r].user = rows[r].user
  BY <1>4 DEF Roots
<1>13. Family' = [Family EXCEPT ![f].spent = SpentOf(f) \cup {k}, ![f].live = {t}]
  BY <1>6, <1>8, <1>9, <1>10, <1>11, <1>12, OneFamily
<1>14. f \in DOMAIN Family /\ Family[f].spent = SpentOf(f) /\ Family[f].live = {k}
  BY <1>6, <1>11 DEF Family, Roots
<1>15. Families!Rotate(f, k, t)
  BY <1>1, <1>13, <1>14, NextIsFresh DEF Families!Rotate
<1> QED
  BY <1>1, <1>14, <1>15 DEF Families!Next

\* A logout that finds the valid row ends the family; any other changes nothing.
LEMMA RevocationEnds ==
  ASSUME SessionInv, Len(rows) <= MaxRows, NEW k \in Rows, RevokedRow(k)
  PROVE  Families!Next \/ Family' = Family
<1>1. Rows' = Rows /\ k \in 1..MaxRows
  BY RowAt, SessionsAssumption DEF SessionInv, TypeInv, TypeOK, Rows, RevokedRow
<1>2. CASE rows[k].revoked # "no"
  BY <1>1, <1>2, SameFamilies DEF RevokedRow
<1>3. CASE rows[k].revoked = "no"
  <2>1. rows[k] \in SessionRow
    BY RowAt DEF SessionInv, TypeInv, TypeOK, Rows
  <2>2. \A i \in Rows :
          /\ rows'[i].root = rows[i].root
          /\ rows'[i].user = rows[i].user
          /\ i # k => rows'[i].revoked = rows[i].revoked
    BY <1>3, <2>1 DEF RevokedRow, SessionRow
  <2>3. rows'[k].revoked = "loggedOut"
    BY <1>3, <2>1 DEF RevokedRow, SessionRow
  <2>4. PICK f : f = rows[k].root
    OBVIOUS
  <2>5. f \in Roots /\ \A i \in Rows : rows[i].root = f /\ rows[i].revoked = "no" => i = k
    BY <1>3, <2>4 DEF Roots, SessionInv, FamilyInv, TableInv, RootsExist, OneValid
  <2>6. Roots' = Roots
    BY <1>1, <2>2 DEF Roots
  <2>7. \A r \in Roots : r # f => SpentOf(r)' = SpentOf(r) /\ LiveOf(r)' = LiveOf(r)
    BY <1>1, <2>2, <2>4 DEF Roots, SpentOf, LiveOf
  <2>8. SpentOf(f)' = SpentOf(f) \cup {k}
    BY <1>1, <2>2, <2>3, <2>4 DEF SpentOf
  <2>9. LiveOf(f)' = {} /\ LiveOf(f) = {k}
    BY <1>1, <1>3, <2>2, <2>3, <2>5, <2>4 DEF LiveOf
  <2>10. \A r \in Roots : rows'[r].user = rows[r].user
    BY <2>2 DEF Roots
  <2>11. Family' = [Family EXCEPT ![f].spent = SpentOf(f) \cup {k}, ![f].live = {}]
    BY <2>5, <2>6, <2>7, <2>8, <2>9, <2>10, OneFamily
  <2>12. f \in DOMAIN Family /\ Family[f].spent = SpentOf(f) /\ Family[f].live = {k}
    BY <2>5, <2>9 DEF Family, Roots
  <2>13. Families!End(f, k)
    BY <2>11, <2>12 DEF Families!End
  <2> QED
    BY <1>1, <2>12, <2>13 DEF Families!Next
<1> QED
  BY <1>2, <1>3

-----------------------------------------------------------------------------

\* Sessions implements TokenFamily: whatever the interleaving, what the
\* requests commit is a history of token families, where the live token is
\* traded or ended and a family that lost it never gets another.
THEOREM SessionsImplementFamilies == Spec => ImplementsFamilies
<1>1. Init => Families!Init /\ RoomInv
  <2> SUFFICES ASSUME Init PROVE Families!Init /\ RoomInv
    OBVIOUS
  <2>1. Len(rows) = 0 /\ Rows = {} /\ Adding = {}
    BY EmptySeq DEF Init, Rows, Adding, Refreshing
  <2>2. DOMAIN Family = {}
    BY <2>1 DEF Family
  <2>3. RoomInv
    BY <2>1, FS_EmptySet, SessionsAssumption DEF RoomInv
  <2> QED
    BY <2>2, <2>3 DEF Families!Init
<1>2. SessionInv /\ RoomInv /\ [Next]_vars => RoomInv'
  BY RoomStep DEF SessionInv
<1>3. SessionInv /\ RoomInv /\ RoomInv' /\ [Next]_vars => [Families!Next]_Family
  <2> SUFFICES ASSUME SessionInv, RoomInv, RoomInv', [Next]_vars
               PROVE  Families!Next \/ Family' = Family
    OBVIOUS
  <2>1. Len(rows) <= MaxRows
    BY RowAt, AddingFinite, SessionsAssumption DEF SessionInv, TypeInv, TypeOK, RoomInv
  <2>2. Len(rows') <= MaxRows
    <3>1. TypeInv'
      BY TypeStep DEF SessionInv
    <3>2. Len(rows') \in Nat
      BY <3>1, LenProperties DEF TypeInv, TypeOK
    <3>3. Cardinality(Adding') \in Nat
      BY SessionsAssumption, FS_Subset, FS_CardinalityType DEF Adding
    <3> QED
      BY <3>2, <3>3, SessionsAssumption DEF RoomInv
  <2>3. ASSUME Len(rows') = Len(rows), \A i \in Rows : rows'[i] = rows[i]
        PROVE  Family' = Family
    BY <2>3, SameFamilies DEF Rows
  <2>4. ASSUME NEW u \in Users, LoginRow(u) PROVE Families!Next
    BY <2>2, <2>4, LoginBegins DEF LoginRow
  <2>5. ASSUME NEW k \in Rows, rows[k].revoked = "no", RotatedRow(k) PROVE Families!Next
    BY <2>2, <2>5, RotationTrades DEF RotatedRow
  <2>6. ASSUME NEW k \in Rows, RevokedRow(k) PROVE Families!Next \/ Family' = Family
    BY <2>1, <2>6, RevocationEnds
  <2> QED
    BY <2>3, <2>4, <2>5, <2>6, TableStep
<1> QED
  BY <1>1, <1>2, <1>3, FamilyInvariant, PTL DEF Spec, ImplementsFamilies, Families!Spec
=============================================================================
