---------------------------- MODULE BrowserProofs ----------------------------
(***************************************************************************)
(* Proofs about Browser, for any users, calls and bounds.                   *)
(***************************************************************************)
EXTENDS Browser, FiniteSetTheorems, TLAPS

-----------------------------------------------------------------------------
(* Counting.                                                               *)

\* A part of a finite set has no more members.
LEMMA PartOf ==
  ASSUME NEW T, IsFiniteSet(T), NEW S, S \subseteq T
  PROVE  /\ IsFiniteSet(S) /\ Cardinality(S) \in Nat /\ Cardinality(T) \in Nat
         /\ Cardinality(S) <= Cardinality(T)
BY FS_Subset, FS_CardinalityType

\* With one member more it has at most one more,
LEMMA OneMore ==
  ASSUME NEW T, IsFiniteSet(T), NEW x, NEW S, S \subseteq T \cup {x}
  PROVE  /\ IsFiniteSet(S) /\ Cardinality(S) \in Nat /\ Cardinality(T) \in Nat
         /\ Cardinality(S) <= Cardinality(T) + 1
<1>1. /\ IsFiniteSet(T \cup {x})
      /\ Cardinality(T \cup {x}) = IF x \in T THEN Cardinality(T) ELSE Cardinality(T) + 1
  BY FS_AddElement
<1>2. Cardinality(T) \in Nat
  BY FS_CardinalityType
<1>3. /\ IsFiniteSet(S) /\ Cardinality(S) \in Nat
      /\ Cardinality(S) <= Cardinality(T \cup {x})
  BY <1>1, PartOf
<1> QED
  BY <1>1, <1>2, <1>3

\* and without one of its members at least one less.
LEMMA OneLess ==
  ASSUME NEW T, IsFiniteSet(T), NEW x \in T, NEW S, S \subseteq T \ {x}
  PROVE  /\ IsFiniteSet(S) /\ Cardinality(S) \in Nat /\ Cardinality(T) \in Nat
         /\ Cardinality(S) <= Cardinality(T) - 1
<1>1. IsFiniteSet(T \ {x}) /\ Cardinality(T \ {x}) = Cardinality(T) - 1
  BY FS_RemoveElement
<1>2. Cardinality(T) \in Nat
  BY FS_CardinalityType
<1>3. /\ IsFiniteSet(S) /\ Cardinality(S) \in Nat
      /\ Cardinality(S) <= Cardinality(T \ {x})
  BY <1>1, PartOf
<1> QED
  BY <1>1, <1>2, <1>3

-----------------------------------------------------------------------------
(* The families of token pairs.                                            *)

Members(f) == family[f].spent \cup family[f].live

\* A family is named by a pair of its own, no pair is of two families, and the
\* pairs are numbered as they are issued.
FamilyInv ==
  /\ family \in [DOMAIN family -> [user: Users, spent: SUBSET Nat, live: SUBSET Nat]]
  /\ \A f \in DOMAIN family : f \in Members(f)
  /\ \A f, g \in DOMAIN family : f # g => Members(f) \cap Members(g) = {}
  /\ Cardinality(Issued) \in Nat
  /\ Issued = 1..Cardinality(Issued)

\* What UNION says, member by member.
LEMMA LiveAndIssued ==
  /\ \A t : t \in Live <=> \E f \in DOMAIN family : t \in family[f].live
  /\ \A t : t \in Issued <=> \E f \in DOMAIN family : t \in Members(f)
BY DEF Live, Issued, Members

LEMMA LiveAndIssuedNext ==
  /\ \A t : t \in Live' <=> \E f \in DOMAIN family' : t \in family'[f].live
  /\ \A t : t \in Issued' <=> \E f \in DOMAIN family' : t \in Members(f)'
BY DEF Live, Issued, Members

\* After a pair is issued, the pairs are numbered with one number more.
LEMMA NumberedOn ==
  ASSUME FamilyInv, Issued' = Issued \cup {NewToken}
  PROVE  /\ Cardinality(Issued') \in Nat
         /\ Cardinality(Issued') = Cardinality(Issued) + 1
         /\ Issued' = 1..Cardinality(Issued')
<1>1. PICK n \in Nat : n = Cardinality(Issued)
  BY DEF FamilyInv
<1>2. Issued = 1..n /\ NewToken = n + 1
  BY <1>1 DEF FamilyInv, NewToken
<1>3. Issued' = 1..(n + 1)
  BY <1>2
<1>4. Cardinality(1..(n + 1)) = n + 1
  BY FS_Interval
<1>5. Cardinality(Issued') = n + 1
  BY <1>3, <1>4, Zenon
<1>6. Issued' = 1..Cardinality(Issued')
  BY <1>3, <1>5, Zenon
<1>7. Cardinality(Issued') = Cardinality(Issued) + 1
  BY <1>1, <1>5, Zenon
<1>8. Cardinality(Issued') \in Nat
  <2>1. n + 1 \in Nat
    OBVIOUS
  <2> QED
    BY <1>5, <2>1, Zenon
<1> QED
  BY <1>6, <1>7, <1>8, Zenon

\* The number of the next pair is none of those issued.
LEMMA NewTokenIsNew == FamilyInv => NewToken \notin Issued /\ NewToken \in Nat
BY DEF FamilyInv, NewToken

\* A login adds a live pair.
LEMMA LoginEffect ==
  ASSUME FamilyInv, NEW u \in Users, Server!Login(u, NewToken)
  PROVE  /\ FamilyInv'
         /\ Live' = Live \cup {NewToken} /\ Issued' = Issued \cup {NewToken}
<1>0. PICK t : t = NewToken
  OBVIOUS
<1> DEFINE e == [user |-> u, spent |-> {}, live |-> {t}]
<1>1. t \notin Issued /\ t \in Nat
  BY <1>0, NewTokenIsNew
<1>2. t \notin DOMAIN family
  BY <1>1, LiveAndIssued DEF FamilyInv
<1>3. /\ DOMAIN family' = DOMAIN family \cup {t}
      /\ family' = [f \in DOMAIN family' |-> IF f = t THEN e ELSE family[f]]
  BY <1>0 DEF Server!Login
<1>4. family'[t] = e /\ \A f \in DOMAIN family : family'[f] = family[f]
  BY <1>2, <1>3
<1>5. e \in [user: Users, spent: SUBSET Nat, live: SUBSET Nat]
  BY <1>1
<1>6. family' \in [DOMAIN family' -> [user: Users, spent: SUBSET Nat, live: SUBSET Nat]]
  BY <1>3, <1>4, <1>5 DEF FamilyInv
<1>7. /\ Members(t)' = {t}
      /\ \A f \in DOMAIN family : Members(f)' = Members(f)
  BY <1>4 DEF Members
<1> HIDE DEF e
<1>8. Issued' = Issued \cup {t}
  BY <1>3, <1>7, LiveAndIssued, LiveAndIssuedNext
<1>9. Live' = Live \cup {t}
  <2>1. e.live = {t}
    BY DEF e
  <2> QED
    BY <1>3, <1>4, <2>1, LiveAndIssued, LiveAndIssuedNext
<1>10. \A f \in DOMAIN family' : f \in Members(f)'
  BY <1>3, <1>7 DEF FamilyInv
<1>11. \A f, g \in DOMAIN family' : f # g => Members(f)' \cap Members(g)' = {}
  <2>1. \A f \in DOMAIN family : t \notin Members(f)
    BY <1>1, LiveAndIssued
  <2> QED
    BY <1>3, <1>7, <2>1 DEF FamilyInv
<1> QED
  BY <1>6, <1>8, <1>9, <1>10, <1>11, <1>0, NumberedOn DEF FamilyInv

\* Trading a live pair for a new one, or for none, takes it from its family's
\* live pair to the spent ones.
LEMMA TradeEffect ==
  ASSUME FamilyInv, NEW f \in DOMAIN family, NEW old, family[f].live = {old},
         NEW new, new = {} \/ new = {NewToken},
         family' = [family EXCEPT ![f].spent = @ \cup {old}, ![f].live = new]
  PROVE  /\ FamilyInv'
         /\ Live' = (Live \ {old}) \cup new /\ Issued' = Issued \cup new
<1> DEFINE e == [family[f] EXCEPT !.spent = family[f].spent \cup {old}, !.live = new]
<1>1. new \cap Issued = {} /\ new \subseteq Nat
  BY NewTokenIsNew
<1>2. family[f] \in [user: Users, spent: SUBSET Nat, live: SUBSET Nat]
  BY DEF FamilyInv
<1>3. /\ e \in [user: Users, spent: SUBSET Nat, live: SUBSET Nat]
      /\ e.live = new /\ e.spent = family[f].spent \cup {old}
  BY <1>1, <1>2
<1>4. family' = [family EXCEPT ![f] = e]
  BY DEF FamilyInv
<1> HIDE DEF e
<1>5. /\ DOMAIN family' = DOMAIN family
      /\ family'[f] = e /\ \A g \in DOMAIN family : g # f => family'[g] = family[g]
  BY <1>4 DEF FamilyInv
<1>6. family' \in [DOMAIN family' -> [user: Users, spent: SUBSET Nat, live: SUBSET Nat]]
  BY <1>3, <1>4, <1>5 DEF FamilyInv
<1>7. /\ Members(f)' = Members(f) \cup new
      /\ \A g \in DOMAIN family : g # f => Members(g)' = Members(g)
  BY <1>3, <1>5 DEF Members
<1>8. Issued' = Issued \cup new
  BY <1>5, <1>7, LiveAndIssued, LiveAndIssuedNext
<1>9. Live' = (Live \ {old}) \cup new
  <2>1. \A g \in DOMAIN family : g # f => old \notin family[g].live
    BY DEF FamilyInv, Members
  <2> QED
    BY <1>1, <1>3, <1>5, <2>1, LiveAndIssued, LiveAndIssuedNext
<1>10. \A g \in DOMAIN family' : g \in Members(g)'
  BY <1>5, <1>7 DEF FamilyInv
<1>11. \A g, h \in DOMAIN family' : g # h => Members(g)' \cap Members(h)' = {}
  <2>1. \A g \in DOMAIN family : new \cap Members(g) = {}
    BY <1>1, LiveAndIssued
  <2> QED
    BY <1>5, <1>7, <2>1 DEF FamilyInv
<1>12. Cardinality(Issued') \in Nat /\ Issued' = 1..Cardinality(Issued')
  <2>1. CASE new = {}
    <3>1. Issued' = Issued
      BY <1>8, <2>1
    <3>2. Cardinality(Issued') = Cardinality(Issued)
      BY <3>1, Zenon
    <3> QED
      BY <3>1, <3>2 DEF FamilyInv
  <2>2. CASE new = {NewToken}
    BY <1>8, <2>2, NumberedOn
  <2> QED
    BY <2>1, <2>2
<1> QED
  BY <1>6, <1>8, <1>9, <1>10, <1>11, <1>12 DEF FamilyInv

\* A rotation.
LEMMA RotationEffect ==
  ASSUME FamilyInv, NEW t, Rotation(t)
  PROVE  /\ FamilyInv'
         /\ Live' = (Live \ {t}) \cup {NewToken} /\ Issued' = Issued \cup {NewToken}
<1>1. PICK f \in DOMAIN family : Server!Rotate(f, t, NewToken)
  BY DEF Rotation
<1>0. PICK new : new = {NewToken}
  OBVIOUS
<1>2. /\ family[f].live = {t} /\ new = {NewToken}
      /\ family' = [family EXCEPT ![f].spent = @ \cup {t}, ![f].live = new]
  BY <1>0, <1>1 DEF Server!Rotate
<1>3. /\ FamilyInv'
      /\ Live' = (Live \ {t}) \cup new /\ Issued' = Issued \cup new
  BY <1>2, TradeEffect
<1> QED
  BY <1>0, <1>3

\* The end of a session, or none of one that has ended.
LEMMA RevocationEffect ==
  ASSUME FamilyInv, NEW t, Revocation(t)
  PROVE  FamilyInv' /\ Live' = Live \ {t} /\ Issued' = Issued
<1>1. CASE t \in Live
  <2>1. PICK f \in DOMAIN family : Server!End(f, t)
    BY <1>1 DEF Revocation
  <2>0. PICK new : new = {}
    OBVIOUS
  <2>2. /\ family[f].live = {t} /\ new = {}
        /\ family' = [family EXCEPT ![f].spent = @ \cup {t}, ![f].live = new]
    BY <2>0, <2>1 DEF Server!End
  <2>3. /\ FamilyInv'
        /\ Live' = (Live \ {t}) \cup new /\ Issued' = Issued \cup new
    BY <2>2, TradeEffect
  <2> QED
    BY <2>0, <2>3
<1>2. CASE t \notin Live
  BY <1>2 DEF Revocation, FamilyInv, Live, Issued, Members
<1> QED
  BY <1>1, <1>2

\* Nothing happens to the families.
LEMMA FamilyKept ==
  FamilyInv /\ UNCHANGED family => FamilyInv' /\ Live' = Live /\ Issued' = Issued
BY DEF FamilyInv, Live, Issued, Members
-----------------------------------------------------------------------------
(* The calls.                                                              *)

Serving(p) == p \in UnderWay /\ call[p].answer = "waiting"

\* The pair a request uses up.
Presents(p) ==
  CASE call[p].op = "verify"  -> None
    [] call[p].op = "refresh" -> call[p].refresh
    [] call[p].op = "logout"  -> call[p].access

\* A refresh without its cookie does nothing, there or to the jar.
Unable(p) == call[p].op = "refresh" /\ call[p].refresh = None

\* The requests that may be given a new pair.
Pending == {p \in Calls : Serving(p) /\ call[p].op # "logout"}

\* The jar holds issued pairs, an answer that sets the cookies has one, and
\* there is room for those that may still be issued.
CallsInv ==
  /\ jar \in [access: Issued \cup {None}, refresh: Issued \cup {None}]
  /\ IsFiniteSet(UnderWay)
  /\ Cardinality(Issued) + Cardinality(Pending) <= MaxTokens
  /\ \A p \in UnderWay :
       /\ call[p].pair # None => call[p].answer = "set"
       /\ call[p].answer = "set" => call[p].pair \in Issued
       /\ Unable(p) => call[p].answer \in {"waiting", "keep"}

StructInv == TypeOK /\ FamilyInv /\ CallsInv

\* What a call under way consists of.
LEMMA CallAt ==
  ASSUME TypeOK, NEW p \in UnderWay
  PROVE  /\ p \in Calls /\ call[p] \in Call /\ call[p] # NoCall
         /\ call[p].op \in Operations
         /\ call[p].access \in Tokens \cup {None} /\ call[p].refresh \in Tokens \cup {None}
         /\ call[p].answer \in {"waiting", "set", "clear", "keep"}
         /\ call[p].pair \in Tokens \cup {None}
         /\ call[p].op = "verify"  => Presents(p) = None
         /\ call[p].op = "refresh" => Presents(p) = call[p].refresh
         /\ call[p].op = "logout"  => Presents(p) = call[p].access
<1>1. p \in Calls /\ call[p] \in Call /\ call[p] # NoCall
  BY DEF UnderWay, TypeOK
<1> QED
  BY <1>1 DEF Call, Operations, Presents

\* No request is neither none nor one of the operations.
LEMMA NoCallIsNone == NoCall \notin Call
BY DEF NoCall, Call, Operations

\* Pairs issued are within the bound, and None is none of them.
LEMMA IssuedBounds ==
  ASSUME StructInv
  PROVE  /\ Issued \subseteq Tokens /\ None \notin Issued /\ Live \subseteq Issued
         /\ IsFiniteSet(Issued) /\ Cardinality(Issued) \in Nat
         /\ IsFiniteSet(Pending) /\ Cardinality(Pending) \in Nat
<1>1. Pending \subseteq UnderWay
  BY DEF Pending, Serving
<1>2. IsFiniteSet(Pending) /\ Cardinality(Pending) \in Nat
  BY <1>1, PartOf DEF StructInv, CallsInv
<1>3. PICK n \in Nat : n = Cardinality(Issued) /\ Issued = 1..n /\ n <= MaxTokens
  BY <1>2, BrowserAssumption DEF StructInv, CallsInv, FamilyInv
<1>4. IsFiniteSet(Issued)
  BY <1>3, FS_Interval
<1>5. Issued \subseteq Tokens /\ None \notin Issued
  <2>1. \A t \in 1..n : t \in 1..MaxTokens /\ t # 0
    BY <1>3, BrowserAssumption
  <2> QED
    BY <1>3, <2>1 DEF Tokens, None
<1>6. Live \subseteq Issued
  BY LiveAndIssued DEF Members
<1> QED
  BY <1>2, <1>3, <1>4, <1>5, <1>6

\* The step of an answer, once it is said what else it does.
Answered(p, a, t) ==
  /\ call' = [call EXCEPT ![p] = [call[p] EXCEPT !.answer = a, !.pair = t]]
  /\ UNCHANGED <<age, active, proxied, jar>>

\* The answer is all that changes in the calls.
LEMMA AnsweredCall ==
  ASSUME TypeOK, NEW p \in UnderWay, NEW a \in {"set", "clear", "keep"},
         NEW t \in Tokens \cup {None}, Answered(p, a, t)
  PROVE  /\ call' \in [Calls -> Call \cup {NoCall}]
         /\ UnderWay' = UnderWay
         /\ call'[p].answer = a /\ call'[p].pair = t /\ call'[p] # NoCall
         /\ call'[p].op = call[p].op /\ call'[p].access = call[p].access
         /\ call'[p].refresh = call[p].refresh
         /\ \A q \in Calls : q # p => call'[q] = call[q]
<1>1. p \in Calls /\ call[p] \in Call
  BY CallAt
<1>2. PICK c : c = [call[p] EXCEPT !.answer = a, !.pair = t]
  OBVIOUS
<1>3. /\ c \in Call /\ c.answer = a /\ c.pair = t /\ c.op = call[p].op
      /\ c.access = call[p].access /\ c.refresh = call[p].refresh
  BY <1>1, <1>2 DEF Call
<1>4. c # NoCall
  BY <1>3, NoCallIsNone
<1>5. call' = [call EXCEPT ![p] = c]
  BY <1>2 DEF Answered
<1>6. /\ call' \in [Calls -> Call \cup {NoCall}]
      /\ call'[p] = c /\ \A q \in Calls : q # p => call'[q] = call[q]
  BY <1>1, <1>3, <1>5 DEF TypeOK
<1>7. UnderWay' = UnderWay
  BY <1>4, <1>6 DEF UnderWay
<1> QED
  BY <1>3, <1>4, <1>6, <1>7

-----------------------------------------------------------------------------
(* What a request can come to.                                             *)

\* The pair it presented is no longer live, and got is.
Takes(p, got) == Live' = (Live \ {Presents(p)}) \cup got /\ Issued' = Issued \cup got

\* It does what was asked, or there is nothing left to do.
Settles(p) ==
  /\ mishaps' = mishaps
  /\ ~Unable(p)
  /\ \/ Takes(p, {}) /\ Answered(p, "clear", None)
     \/ call[p].op # "logout" /\ Takes(p, {NewToken}) /\ Answered(p, "set", NewToken)

\* It leaves the jar alone.
Keeps(p) ==
  /\ Answered(p, "keep", None)
  /\ Issued' = Issued
  /\ \/ mishaps' = mishaps /\ Live' = Live
     \/ mishaps' = mishaps + 1 /\ Live' \subseteq Live

\* It clears the jar although nothing happened, or a pair was issued.
Fails(p) ==
  /\ mishaps' = mishaps + 1
  /\ ~Unable(p)
  /\ Answered(p, "clear", None)
  /\ \/ Live' = Live /\ Issued' = Issued
     \/ call[p].op # "logout" /\ Takes(p, {NewToken})

\* With an answer that gives no pair, the pair stays None.
LEMMA AnswerIs ==
  ASSUME StructInv, NEW p, Serving(p), NEW a, Answer(p, a), UNCHANGED <<age, active, proxied, jar>>
  PROVE  Answered(p, a, None)
<1>1. call[p] \in Call /\ call[p].pair = None /\ p \in Calls
  BY CallAt DEF StructInv, CallsInv, Serving
<1>2. [call[p] EXCEPT !.answer = a] = [call[p] EXCEPT !.answer = a, !.pair = None]
  BY <1>1 DEF Call
<1> QED
  BY <1>2 DEF Answer, Answered

LEMMA AnswerPairIs ==
  ASSUME StructInv, NEW p, Serving(p), AnswerPair(p, NewToken),
         UNCHANGED <<age, active, proxied, jar>>
  PROVE  Answered(p, "set", NewToken)
BY CallAt DEF StructInv, Serving, AnswerPair, Answered, TypeOK

\* Each request comes to one of these.
LEMMA ServeKind ==
  ASSUME StructInv, NEW p \in Calls, Serve(p)
  PROVE  /\ Serving(p) /\ FamilyInv' /\ mishaps' \in 0..MaxMishaps
         /\ Settles(p) \/ Keeps(p) \/ Fails(p)
<1>1. TypeOK /\ FamilyInv /\ mishaps \in 0..MaxMishaps
  BY DEF StructInv, TypeOK
<1>2. \A op \in Operations : Asked(p, op) => Serving(p) /\ call[p].op = op
  BY DEF Asked, Serving, UnderWay
<1>3. \A h \in BOOLEAN : Mishap(h) => /\ mishaps' \in 0..MaxMishaps
                                      /\ mishaps' = IF h THEN mishaps + 1 ELSE mishaps
  BY <1>1, BrowserAssumption DEF Mishap
<1>4. None \notin Live
  BY IssuedBounds
<1>5. ASSUME NEW u \in Users, Verify(p, u)
      PROVE  Serving(p) /\ FamilyInv' /\ mishaps' \in 0..MaxMishaps /\ Settles(p)
  <2>1. Serving(p) /\ call[p].op = "verify" /\ Presents(p) = None
    BY <1>1, <1>2, <1>5, CallAt DEF Verify, Operations, Serving
  <2>2. /\ FamilyInv'
        /\ Live' = Live \cup {NewToken} /\ Issued' = Issued \cup {NewToken}
    BY <1>1, <1>5, LoginEffect DEF Verify
  <2>3. Answered(p, "set", NewToken)
    BY <1>5, <2>1, AnswerPairIs DEF Verify
  <2> QED
    BY <1>1, <1>4, <1>5, <2>1, <2>2, <2>3 DEF Verify, Settles, Takes, Unable
<1>6. ASSUME VerifyFails(p) \/ RefreshWithoutCookie(p)
      PROVE  Serving(p) /\ FamilyInv' /\ mishaps' \in 0..MaxMishaps /\ Keeps(p)
  <2>1. Serving(p)
    BY <1>2, <1>6 DEF VerifyFails, RefreshWithoutCookie, Operations
  <2>2. Answered(p, "keep", None)
    BY <1>6, <2>1, AnswerIs DEF VerifyFails, RefreshWithoutCookie
  <2>3. FamilyInv' /\ Live' = Live /\ Issued' = Issued /\ mishaps' = mishaps
    BY <1>1, <1>6, FamilyKept DEF VerifyFails, RefreshWithoutCookie
  <2> QED
    BY <1>1, <2>1, <2>2, <2>3 DEF Keeps
<1>7. ASSUME Refresh(p)
      PROVE  Serving(p) /\ FamilyInv' /\ mishaps' \in 0..MaxMishaps /\ Settles(p)
  <2>1. Serving(p) /\ call[p].op = "refresh" /\ Presents(p) = call[p].refresh
    BY <1>1, <1>2, <1>7, CallAt DEF Refresh, Operations, Serving
  <2>2. FamilyInv' /\ Takes(p, {NewToken})
    BY <1>1, <1>7, <2>1, RotationEffect DEF Refresh, Takes
  <2>3. Answered(p, "set", NewToken)
    BY <1>7, <2>1, AnswerPairIs DEF Refresh
  <2> QED
    BY <1>1, <1>7, <2>1, <2>2, <2>3 DEF Refresh, Settles, Unable
<1>8. ASSUME RefreshRefused(p)
      PROVE  /\ Serving(p) /\ FamilyInv' /\ mishaps' \in 0..MaxMishaps
             /\ Settles(p) \/ Fails(p)
  <2>1. Serving(p) /\ call[p].op = "refresh" /\ Presents(p) = call[p].refresh
    BY <1>1, <1>2, <1>8, CallAt DEF RefreshRefused, Operations, Serving
  <2>2. FamilyInv' /\ Live' = Live /\ Issued' = Issued
    BY <1>1, <1>8, FamilyKept DEF RefreshRefused
  <2>3. Answered(p, "clear", None) /\ ~Unable(p)
    BY <1>8, <2>1, AnswerIs DEF RefreshRefused, Unable
  <2>4. /\ mishaps' \in 0..MaxMishaps
        /\ mishaps' = IF Presents(p) \in Live THEN mishaps + 1 ELSE mishaps
    BY <1>1, <1>8, <2>1, BrowserAssumption DEF RefreshRefused, Mishap
  <2> QED
    BY <2>1, <2>2, <2>3, <2>4 DEF Settles, Fails, Takes
<1>9. ASSUME RefreshFails(p)
      PROVE  Serving(p) /\ FamilyInv' /\ mishaps' \in 0..MaxMishaps /\ Fails(p)
  <2>1. Serving(p) /\ call[p].op = "refresh" /\ Presents(p) = call[p].refresh
    BY <1>1, <1>2, <1>9, CallAt DEF RefreshFails, Operations, Serving
  <2>2. /\ FamilyInv'
        /\ (Live' = Live /\ Issued' = Issued) \/ Takes(p, {NewToken})
    BY <1>1, <1>9, <2>1, FamilyKept, RotationEffect DEF RefreshFails, Takes
  <2>3. Answered(p, "clear", None) /\ ~Unable(p)
    BY <1>9, <2>1, AnswerIs DEF RefreshFails, Unable
  <2>4. mishaps' \in 0..MaxMishaps /\ mishaps' = mishaps + 1
    BY <1>3, <1>9 DEF RefreshFails
  <2> QED
    BY <2>1, <2>2, <2>3, <2>4 DEF Fails
<1>10. ASSUME Logout(p)
       PROVE  Serving(p) /\ FamilyInv' /\ mishaps' \in 0..MaxMishaps /\ Settles(p)
  <2>1. Serving(p) /\ call[p].op = "logout" /\ Presents(p) = call[p].access
    BY <1>1, <1>2, <1>10, CallAt DEF Logout, Operations, Serving
  <2>2. FamilyInv' /\ Takes(p, {})
    BY <1>1, <1>4, <1>10, <2>1, FamilyKept, RevocationEffect DEF Logout, Takes
  <2>3. Answered(p, "clear", None) /\ ~Unable(p)
    BY <1>10, <2>1, AnswerIs DEF Logout, Unable
  <2> QED
    BY <1>1, <1>10, <2>1, <2>2, <2>3 DEF Logout, Settles
<1>11. ASSUME LogoutFails(p)
       PROVE  Serving(p) /\ FamilyInv' /\ mishaps' \in 0..MaxMishaps /\ Keeps(p)
  <2>1. Serving(p)
    BY <1>2, <1>11 DEF LogoutFails, Operations
  <2>2. FamilyInv' /\ Live' \subseteq Live /\ Issued' = Issued
    BY <1>1, <1>11, FamilyKept, RevocationEffect DEF LogoutFails
  <2>3. Answered(p, "keep", None)
    BY <1>11, <2>1, AnswerIs DEF LogoutFails
  <2>4. mishaps' \in 0..MaxMishaps /\ mishaps' = mishaps + 1
    BY <1>3, <1>11 DEF LogoutFails
  <2> QED
    BY <2>1, <2>2, <2>3, <2>4 DEF Keeps
<1> QED
  BY <1>5, <1>6, <1>7, <1>8, <1>9, <1>10, <1>11 DEF Serve
-----------------------------------------------------------------------------
(* Types.                                                                  *)

\* Where the families, the ages and the calls stay, only the jar matters.
LEMMA QuietKeepsStruct ==
  ASSUME StructInv, UNCHANGED <<family, age, call>>,
         active' \in [Users -> BOOLEAN], mishaps' \in 0..MaxMishaps,
         jar' \in [access: Issued \cup {None}, refresh: Issued \cup {None}],
         jar'.access \in {jar'.refresh, None}
  PROVE  StructInv'
<1>1. FamilyInv' /\ Live' = Live /\ Issued' = Issued
  BY FamilyKept DEF StructInv
<1>2. UnderWay' = UnderWay /\ Pending' = Pending
  BY DEF UnderWay, Pending, Serving
<1>3. Cardinality(Issued') = Cardinality(Issued) /\ Cardinality(Pending') = Cardinality(Pending)
  BY <1>1, <1>2, Zenon
<1>4. TypeOK'
  BY <1>1 DEF StructInv, TypeOK, FamilyInv
<1>5. CallsInv'
  BY <1>1, <1>2, <1>3 DEF StructInv, CallsInv, Unable
<1> QED
  BY <1>1, <1>4, <1>5 DEF StructInv

\* The answer to a request.
LEMMA ServeKeepsStruct ==
  ASSUME StructInv, NEW p \in Calls, Serve(p)
  PROVE  StructInv'
<1>1. /\ Serving(p) /\ FamilyInv' /\ mishaps' \in 0..MaxMishaps
      /\ Settles(p) \/ Keeps(p) \/ Fails(p)
  BY ServeKind
<1>2. p \in UnderWay /\ TypeOK /\ FamilyInv
  BY <1>1 DEF Serving, StructInv
<1>3. PICK a \in {"set", "clear", "keep"}, t \in Nat :
        /\ Answered(p, a, t)
        /\ t = None \/ (t = NewToken /\ a = "set" /\ call[p].op # "logout" /\ Issued' = Issued \cup {t})
        /\ a = "set" => t # None
        /\ Unable(p) => a = "keep"
        /\ \/ Issued' = Issued
           \/ Issued' = Issued \cup {NewToken} /\ call[p].op # "logout"
  <2>1. None \in Nat /\ NewToken \in Nat /\ NewToken # None
    BY <1>2, NewTokenIsNew DEF None, NewToken, FamilyInv
  <2>2. CASE Settles(p)
    BY <2>1, <2>2 DEF Settles, Takes
  <2>3. CASE Keeps(p)
    BY <2>1, <2>3 DEF Keeps
  <2>4. CASE Fails(p)
    BY <2>1, <2>4 DEF Fails, Takes
  <2> QED
    BY <1>1, <2>2, <2>3, <2>4
<1>4. Cardinality(Issued') \in Nat /\ Issued' = 1..Cardinality(Issued')
  BY <1>1 DEF FamilyInv
<1>5. /\ Cardinality(Issued') + Cardinality(Pending \ {p}) <= MaxTokens
      /\ Issued \subseteq Issued'
  <2>1. IsFiniteSet(Pending) /\ Cardinality(Pending) \in Nat /\ Cardinality(Issued) \in Nat
        /\ Cardinality(Issued) + Cardinality(Pending) <= MaxTokens
    BY IssuedBounds DEF StructInv, CallsInv
  <2>2. CASE Issued' = Issued
    <3>1. /\ Cardinality(Pending \ {p}) <= Cardinality(Pending)
          /\ Cardinality(Pending \ {p}) \in Nat
      BY <2>1, PartOf
    <3>2. Cardinality(Issued') = Cardinality(Issued)
      BY <2>2, Zenon
    <3> QED
      BY <2>1, <2>2, <3>1, <3>2, BrowserAssumption
  <2>3. CASE Issued' = Issued \cup {NewToken} /\ call[p].op # "logout"
    <3>1. p \in Pending
      BY <1>1, <2>3, CallAt DEF Pending, StructInv, Serving
    <3>2. /\ Cardinality(Pending \ {p}) <= Cardinality(Pending) - 1
          /\ Cardinality(Pending \ {p}) \in Nat
      BY <2>1, <3>1, OneLess
    <3>3. Cardinality(Issued') = Cardinality(Issued) + 1
      BY <1>2, <2>3, NumberedOn
    <3> QED
      BY <2>1, <2>3, <3>2, <3>3, BrowserAssumption
  <2> QED
    BY <1>3, <2>2, <2>3
<1>6. /\ IsFiniteSet(Pending \ {p}) /\ Cardinality(Pending \ {p}) \in Nat
  BY IssuedBounds, PartOf
<1>7. Issued' \subseteq Tokens
  BY <1>4, <1>5, <1>6, BrowserAssumption DEF Tokens
<1>8. t \in Tokens \cup {None}
  BY <1>3, <1>7
<1>9. /\ call' \in [Calls -> Call \cup {NoCall}]
      /\ UnderWay' = UnderWay
      /\ call'[p].answer = a /\ call'[p].pair = t /\ call'[p].op = call[p].op
      /\ call'[p].refresh = call[p].refresh
      /\ \A q \in Calls : q # p => call'[q] = call[q]
  BY <1>2, <1>3, <1>8, AnsweredCall
<1>10. UNCHANGED <<age, active, jar>>
  BY <1>3 DEF Answered
<1>11. Pending' \subseteq Pending \ {p}
  BY <1>9 DEF Pending, Serving
<1>12. Cardinality(Issued') + Cardinality(Pending') <= MaxTokens
  <2>1. Cardinality(Pending') \in Nat /\ Cardinality(Pending') <= Cardinality(Pending \ {p})
    BY <1>6, <1>11, PartOf
  <2> QED
    BY <1>4, <1>5, <1>6, <2>1, BrowserAssumption
<1>13. \A q \in UnderWay' :
         /\ call'[q].pair # None => call'[q].answer = "set"
         /\ call'[q].answer = "set" => call'[q].pair \in Issued'
         /\ Unable(q)' => call'[q].answer \in {"waiting", "keep"}
  <2> SUFFICES ASSUME NEW q \in UnderWay'
               PROVE  /\ call'[q].pair # None => call'[q].answer = "set"
                      /\ call'[q].answer = "set" => call'[q].pair \in Issued'
                      /\ Unable(q)' => call'[q].answer \in {"waiting", "keep"}
    OBVIOUS
  <2>1. CASE q = p
    BY <1>3, <1>9, <2>1 DEF Unable
  <2>2. CASE q # p
    <3>1. q \in UnderWay /\ q \in Calls /\ call'[q] = call[q]
      BY <1>9, <2>2 DEF UnderWay
    <3> QED
      BY <1>5, <3>1 DEF StructInv, CallsInv, Unable
  <2> QED
    BY <2>1, <2>2
<1>14. CallsInv'
  BY <1>5, <1>9, <1>10, <1>12, <1>13 DEF StructInv, CallsInv
<1>15. TypeOK'
  BY <1>1, <1>4, <1>5, <1>9, <1>10 DEF StructInv, TypeOK
<1> QED
  BY <1>1, <1>14, <1>15 DEF StructInv

\* A call is sent.
LEMMA SendKeepsStruct ==
  ASSUME StructInv, NEW p \in Calls, NEW op \in Operations, Send(p, op)
  PROVE  StructInv'
<1> DEFINE c == [op |-> op, access |-> jar.access, refresh |-> RefreshCookieOn,
                 answer |-> "waiting", pair |-> None]
<1>1. FamilyInv' /\ Live' = Live /\ Issued' = Issued
  BY FamilyKept DEF StructInv, Send
<1>2. c \in Call /\ c.answer = "waiting" /\ c.pair = None /\ c.op = op
  <2>1. jar.access \in Tokens \cup {None} /\ jar.refresh \in Tokens \cup {None}
    BY IssuedBounds DEF StructInv, CallsInv
  <2> QED
    BY <2>1 DEF Call, RefreshCookieOn
<1>3. call' = [call EXCEPT ![p] = c] /\ call[p] = NoCall
  BY DEF Send
<1> HIDE DEF c
<1>4. c # NoCall
  BY <1>2, NoCallIsNone
<1>5. /\ call' \in [Calls -> Call \cup {NoCall}]
      /\ call'[p] = c /\ \A q \in Calls : q # p => call'[q] = call[q]
  BY <1>2, <1>3 DEF StructInv, TypeOK
<1>6. UnderWay' = UnderWay \cup {p} /\ p \notin UnderWay
  BY <1>3, <1>4, <1>5 DEF UnderWay
<1>7. IsFiniteSet(UnderWay')
  BY <1>6, FS_AddElement DEF StructInv, CallsInv
<1>8. Cardinality(Issued') + Cardinality(Pending') <= MaxTokens
  <2>1. Cardinality(Issued') = Cardinality(Issued)
    BY <1>1, Zenon
  <2>2. CASE op = "logout"
    <3>1. Pending' \subseteq Pending
      BY <1>2, <1>5, <1>6, <2>2 DEF Pending, Serving
    <3>2. Cardinality(Pending') \in Nat /\ Cardinality(Pending') <= Cardinality(Pending)
      BY <3>1, IssuedBounds, PartOf
    <3> QED
      BY <2>1, <3>2, IssuedBounds, BrowserAssumption DEF StructInv, CallsInv
  <2>3. CASE op # "logout"
    <3> DEFINE W == {q \in Calls : call[q] # NoCall /\ call[q].answer = "waiting"}
    <3>1. Cardinality(Issued) + Cardinality(W) < MaxTokens
      BY <2>3 DEF Send
    <3>2. W \subseteq UnderWay
      BY DEF UnderWay
    <3>3. IsFiniteSet(W) /\ Cardinality(W) \in Nat
      BY <3>2, PartOf DEF StructInv, CallsInv
    <3>4. Pending' \subseteq W \cup {p}
      BY <1>5, <1>6 DEF Pending, Serving, UnderWay
    <3> HIDE DEF W
    <3>5. Cardinality(Pending') \in Nat /\ Cardinality(Pending') <= Cardinality(W) + 1
      BY <3>3, <3>4, OneMore
    <3> QED
      BY <2>1, <3>1, <3>3, <3>5, IssuedBounds, BrowserAssumption
  <2> QED
    BY <2>2, <2>3
<1>9. \A q \in UnderWay' :
         /\ call'[q].pair # None => call'[q].answer = "set"
         /\ call'[q].answer = "set" => call'[q].pair \in Issued'
         /\ Unable(q)' => call'[q].answer \in {"waiting", "keep"}
  <2> SUFFICES ASSUME NEW q \in UnderWay'
               PROVE  /\ call'[q].pair # None => call'[q].answer = "set"
                      /\ call'[q].answer = "set" => call'[q].pair \in Issued'
                      /\ Unable(q)' => call'[q].answer \in {"waiting", "keep"}
    OBVIOUS
  <2>1. CASE q = p
    BY <1>2, <1>5, <2>1
  <2>2. CASE q # p
    <3>1. q \in UnderWay /\ q \in Calls /\ call'[q] = call[q]
      BY <1>5, <1>6, <2>2 DEF UnderWay
    <3> QED
      BY <1>1, <3>1 DEF StructInv, CallsInv, Unable
  <2> QED
    BY <2>1, <2>2
<1>10. CallsInv'
  BY <1>1, <1>7, <1>8, <1>9 DEF Send, StructInv, CallsInv
<1>11. mishaps' \in 0..MaxMishaps
  BY BrowserAssumption DEF Send, Mishap, StructInv, TypeOK
<1>12. TypeOK'
  BY <1>1, <1>5, <1>11 DEF Send, StructInv, TypeOK, FamilyInv
<1> QED
  BY <1>1, <1>10, <1>12 DEF StructInv

\* A call ends; the jar may have changed.
LEMMA EndKeepsStruct ==
  ASSUME StructInv, NEW p \in UnderWay, call' = [call EXCEPT ![p] = NoCall],
         UNCHANGED <<family, age, active>>, mishaps' \in 0..MaxMishaps,
         jar' \in [access: Issued \cup {None}, refresh: Issued \cup {None}],
         jar'.access \in {jar'.refresh, None}
  PROVE  StructInv'
<1>1. FamilyInv' /\ Live' = Live /\ Issued' = Issued
  BY FamilyKept DEF StructInv
<1>2. /\ call' \in [Calls -> Call \cup {NoCall}] /\ call'[p] = NoCall
      /\ \A q \in Calls : q # p => call'[q] = call[q]
  BY DEF StructInv, TypeOK, UnderWay
<1>3. UnderWay' = UnderWay \ {p} /\ Pending' \subseteq Pending
  BY <1>2 DEF UnderWay, Pending, Serving
<1>4. IsFiniteSet(UnderWay')
  BY <1>3, PartOf DEF StructInv, CallsInv
<1>5. Cardinality(Issued') + Cardinality(Pending') <= MaxTokens
  <2>1. Cardinality(Issued') = Cardinality(Issued)
    BY <1>1, Zenon
  <2>2. Cardinality(Pending') \in Nat /\ Cardinality(Pending') <= Cardinality(Pending)
    BY <1>3, IssuedBounds, PartOf
  <2> QED
    BY <2>1, <2>2, IssuedBounds, BrowserAssumption DEF StructInv, CallsInv
<1>6. \A q \in UnderWay' : q \in UnderWay /\ call'[q] = call[q]
  BY <1>2, <1>3 DEF UnderWay
<1>7. CallsInv'
  BY <1>1, <1>4, <1>5, <1>6 DEF StructInv, CallsInv, Unable
<1>8. TypeOK'
  BY <1>1, <1>2 DEF StructInv, TypeOK, FamilyInv
<1> QED
  BY <1>1, <1>7, <1>8 DEF StructInv

\* Delivery is such an end.
LEMMA DeliverKeepsStruct ==
  ASSUME StructInv, NEW p \in Calls, Deliver(p)
  PROVE  /\ StructInv' /\ p \in UnderWay
         /\ jar' = IF call[p].answer = "set" THEN SetCookies(call[p].pair)
                   ELSE IF call[p].answer = "clear" THEN ClearedCookies ELSE jar
<1>1. p \in UnderWay /\ call[p].answer \in {"set", "clear", "keep"}
  BY CallAt DEF Deliver, StructInv
<1>2. jar' = IF call[p].answer = "set" THEN SetCookies(call[p].pair)
             ELSE IF call[p].answer = "clear" THEN ClearedCookies ELSE jar
  BY <1>1 DEF Deliver
<1>3. /\ jar' \in [access: Issued \cup {None}, refresh: Issued \cup {None}]
      /\ jar'.access \in {jar'.refresh, None}
  <2>1. CASE call[p].answer = "set"
    BY <1>1, <1>2, <2>1 DEF StructInv, CallsInv, SetCookies
  <2>2. CASE call[p].answer = "clear"
    BY <1>2, <2>2 DEF ClearedCookies
  <2>3. CASE call[p].answer = "keep"
    BY <1>2, <2>3 DEF StructInv, CallsInv, TypeOK
  <2> QED
    BY <1>1, <2>1, <2>2, <2>3
<1>4. mishaps' \in 0..MaxMishaps
  BY DEF StructInv, TypeOK, Deliver
<1> QED
  BY <1>1, <1>2, <1>3, <1>4, EndKeepsStruct DEF Deliver

\* One step per action.
LEMMA StructStep == StructInv /\ [Next]_vars => StructInv'
<1> SUFFICES ASSUME StructInv, [Next]_vars PROVE StructInv'
  OBVIOUS
<1>1. /\ jar \in [access: Issued \cup {None}, refresh: Issued \cup {None}]
      /\ jar.access \in {jar.refresh, None}
      /\ active \in [Users -> BOOLEAN] /\ mishaps \in 0..MaxMishaps
      /\ age \in [Tokens -> 0..2]
  BY DEF StructInv, TypeOK, CallsInv
<1>2. ASSUME NEW p \in Calls, Lose(p) PROVE StructInv'
  <2>1. mishaps' \in 0..MaxMishaps
    BY <1>1, <1>2, BrowserAssumption DEF Lose, Mishap
  <2> QED
    BY <1>1, <1>2, <2>1, EndKeepsStruct DEF Lose
<1>3. ASSUME DropAccess \/ DropRefresh PROVE StructInv'
  <2>1. /\ jar' \in [access: Issued \cup {None}, refresh: Issued \cup {None}]
        /\ jar'.access \in {jar'.refresh, None}
    BY <1>1, <1>3 DEF DropAccess, DropRefresh, ClearedCookies
  <2> QED
    BY <1>1, <1>3, <2>1, QuietKeepsStruct DEF DropAccess, DropRefresh
<1>4. ASSUME NEW t \in Tokens, Age(t) PROVE StructInv'
  <2>1. age' \in [Tokens -> 0..2]
    BY <1>1, <1>4 DEF Age
  <2>2. FamilyInv' /\ Live' = Live /\ Issued' = Issued
    BY <1>4, FamilyKept DEF StructInv, Age
  <2>3. UnderWay' = UnderWay /\ Pending' = Pending
    BY <1>4 DEF UnderWay, Pending, Serving, Age
  <2>4. Cardinality(Issued') = Cardinality(Issued) /\ Cardinality(Pending') = Cardinality(Pending)
    BY <2>2, <2>3, Zenon
  <2>5. CallsInv'
    BY <1>4, <2>2, <2>3, <2>4 DEF StructInv, CallsInv, Unable, Age
  <2>6. TypeOK'
    BY <1>4, <2>1, <2>2 DEF StructInv, TypeOK, FamilyInv, Age
  <2> QED
    BY <2>2, <2>5, <2>6 DEF StructInv
<1>5. ASSUME NEW u \in Users, SetActive(u) PROVE StructInv'
  <2>1. active' \in [Users -> BOOLEAN]
    BY <1>1, <1>5 DEF SetActive
  <2> QED
    BY <1>1, <1>5, <2>1, QuietKeepsStruct DEF SetActive
<1>6. ASSUME UNCHANGED vars PROVE StructInv'
  BY <1>1, <1>6, QuietKeepsStruct DEF vars
<1> QED
  BY <1>2, <1>3, <1>4, <1>5, <1>6, ServeKeepsStruct, SendKeepsStruct, DeliverKeepsStruct
  DEF Next
-----------------------------------------------------------------------------
(* Pairs that nobody holds.                                                *)

\* Pairs that are worth something.
Sound == {t \in Live : age[t] < 2}

\* The calls whose answer may change the jar.
Armed == {p \in UnderWay : call[p].answer # "keep" /\ ~Unable(p)}

\* When every answer that comes leaves one pair behind, there are enough
\* mishaps.
Covered == Cardinality(Orphans) + Cardinality(Armed) <= mishaps

\* There is one too few, but p's answer leaves none: it finds no pair of worth
\* in the jar, or uses up the one that is there.
First(p) ==
  /\ Cardinality(Orphans) + Cardinality(Armed) <= mishaps + 1
  /\ jar.refresh \in Sound => Serving(p) /\ Presents(p) = jar.refresh

\* Another answer came before p's, but p uses up the pair this left behind.
Overtaken(p) ==
  Serving(p) /\ Cardinality(Orphans \ {Presents(p)}) + Cardinality(Armed) <= mishaps

OrphansInv == Covered \/ \E p \in Armed : First(p) \/ Overtaken(p)

\* All of this is finite, and a set has at most one member that is t.
CountsOK ==
  /\ mishaps \in Nat
  /\ IsFiniteSet(Orphans) /\ Cardinality(Orphans) \in Nat
  /\ IsFiniteSet(Armed) /\ Cardinality(Armed) \in Nat
  /\ \A t : /\ IsFiniteSet(Orphans \ {t}) /\ Cardinality(Orphans \ {t}) \in Nat
            /\ Cardinality(Orphans) <= Cardinality(Orphans \ {t}) + 1
            /\ Cardinality(Orphans \ {t}) <= Cardinality(Orphans)

LEMMA Counts == StructInv => CountsOK
<1> SUFFICES ASSUME StructInv PROVE CountsOK
  OBVIOUS
<1>1. Orphans \subseteq Issued /\ Armed \subseteq UnderWay
  BY IssuedBounds DEF Orphans, Armed
<1>2. /\ IsFiniteSet(Orphans) /\ Cardinality(Orphans) \in Nat
      /\ IsFiniteSet(Armed) /\ Cardinality(Armed) \in Nat
  BY <1>1, IssuedBounds, PartOf DEF StructInv, CallsInv
<1>3. \A t : /\ IsFiniteSet(Orphans \ {t}) /\ Cardinality(Orphans \ {t}) \in Nat
             /\ Cardinality(Orphans) <= Cardinality(Orphans \ {t}) + 1
             /\ Cardinality(Orphans \ {t}) <= Cardinality(Orphans)
  <2> TAKE t
  <2>1. /\ IsFiniteSet(Orphans \ {t}) /\ Cardinality(Orphans \ {t}) \in Nat
        /\ Cardinality(Orphans \ {t}) <= Cardinality(Orphans)
    BY <1>2, PartOf
  <2>2. Orphans \subseteq (Orphans \ {t}) \cup {t}
    OBVIOUS
  <2>3. Cardinality(Orphans) <= Cardinality(Orphans \ {t}) + 1
    BY <2>1, <2>2, OneMore
  <2> QED
    BY <2>1, <2>3
<1>4. mishaps \in Nat
  BY BrowserAssumption DEF StructInv, TypeOK
<1> QED
  BY <1>2, <1>3, <1>4 DEF CountsOK

LEMMA CountsNext == StructInv' => CountsOK'
BY Counts, PTL

\* A step that adds no more than it takes: a pair left behind is paid for by an
\* answer that has come or by a mishap, an answer to come by a mishap.
Balanced ==
  /\ Cardinality(Orphans') + Cardinality(Armed') + mishaps
       <= Cardinality(Orphans) + Cardinality(Armed) + mishaps'
  /\ \A t : Cardinality(Orphans' \ {t}) + Cardinality(Armed') + mishaps
              <= Cardinality(Orphans \ {t}) + Cardinality(Armed) + mishaps'

LEMMA Balance ==
  ASSUME CountsOK, CountsOK', NEW x, NEW p,
         \/ Orphans' \subseteq Orphans /\ Armed' \subseteq Armed /\ mishaps' >= mishaps
         \/ /\ Orphans' \subseteq Orphans \cup {x} /\ p \in Armed /\ Armed' \subseteq Armed \ {p}
            /\ mishaps' >= mishaps
         \/ Orphans' \subseteq Orphans \cup {x} /\ Armed' \subseteq Armed /\ mishaps' >= mishaps + 1
         \/ /\ Orphans' \subseteq Orphans /\ Armed' \subseteq Armed \cup {p}
            /\ mishaps' >= mishaps + 1
  PROVE  Balanced
<1>1. /\ IsFiniteSet(Orphans) /\ IsFiniteSet(Armed)
      /\ \A t : /\ IsFiniteSet(Orphans \ {t}) /\ Cardinality(Orphans \ {t}) \in Nat
                /\ Cardinality(Orphans' \ {t}) \in Nat
  BY DEF CountsOK
<1>2. PICK o \in Nat, a \in Nat, m \in Nat :
        o = Cardinality(Orphans) /\ a = Cardinality(Armed) /\ m = mishaps
  BY DEF CountsOK
<1>3. PICK o1 \in Nat, a1 \in Nat, m1 \in Nat :
        o1 = Cardinality(Orphans') /\ a1 = Cardinality(Armed') /\ m1 = mishaps'
  BY DEF CountsOK
<1>4. ASSUME Orphans' \subseteq Orphans
      PROVE  /\ o1 <= o
             /\ \A t : Cardinality(Orphans' \ {t}) <= Cardinality(Orphans \ {t})
  <2>1. o1 <= o
    BY <1>1, <1>2, <1>3, <1>4, PartOf
  <2>2. ASSUME NEW t PROVE Cardinality(Orphans' \ {t}) <= Cardinality(Orphans \ {t})
    <3>1. Orphans' \ {t} \subseteq Orphans \ {t}
      BY <1>4
    <3> QED
      BY <1>1, <3>1, PartOf
  <2> QED
    BY <2>1, <2>2
<1>5. ASSUME Orphans' \subseteq Orphans \cup {x}
      PROVE  /\ o1 <= o + 1
             /\ \A t : Cardinality(Orphans' \ {t}) <= Cardinality(Orphans \ {t}) + 1
  <2>1. o1 <= o + 1
    BY <1>1, <1>2, <1>3, <1>5, OneMore
  <2>2. ASSUME NEW t PROVE Cardinality(Orphans' \ {t}) <= Cardinality(Orphans \ {t}) + 1
    <3>1. Orphans' \ {t} \subseteq (Orphans \ {t}) \cup {x}
      BY <1>5
    <3> QED
      BY <1>1, <3>1, OneMore
  <2> QED
    BY <2>1, <2>2
<1>6. /\ Armed' \subseteq Armed => a1 <= a
      /\ p \in Armed /\ Armed' \subseteq Armed \ {p} => a1 <= a - 1
      /\ Armed' \subseteq Armed \cup {p} => a1 <= a + 1
  BY <1>1, <1>2, <1>3, PartOf, OneLess, OneMore
<1>7. \/ Orphans' \subseteq Orphans /\ a1 + m <= a + m1
      \/ Orphans' \subseteq Orphans \cup {x} /\ a1 + m + 1 <= a + m1
  BY <1>2, <1>3, <1>6
<1>8. o1 + a1 + m <= o + a + m1
  BY <1>4, <1>5, <1>7
<1>9. ASSUME NEW t
      PROVE  Cardinality(Orphans' \ {t}) + a1 + m <= Cardinality(Orphans \ {t}) + a + m1
  <2>1. PICK k \in Nat, k1 \in Nat : k = Cardinality(Orphans \ {t}) /\ k1 = Cardinality(Orphans' \ {t})
    BY <1>1
  <2>2. /\ Orphans' \subseteq Orphans => k1 <= k
        /\ Orphans' \subseteq Orphans \cup {x} => k1 <= k + 1
    BY <1>4, <1>5, <2>1, Zenon
  <2>3. k1 + a1 + m <= k + a + m1
    BY <1>7, <2>2
  <2> QED
    BY <2>1, <2>3, Zenon
<1> QED
  BY <1>2, <1>3, <1>8, <1>9, Zenon DEF Balanced

\* What is covered stays covered in a balanced step.
LEMMA CoveredGoesOn ==
  ASSUME CountsOK, CountsOK', Balanced, Covered
  PROVE  Covered'
<1>1. /\ mishaps \in Nat /\ mishaps' \in Nat
      /\ Cardinality(Armed) \in Nat /\ Cardinality(Armed') \in Nat
      /\ Cardinality(Orphans) \in Nat /\ Cardinality(Orphans') \in Nat
  BY DEF CountsOK
<1> QED
  BY <1>1 DEF Covered, Balanced

\* What has a call q meant goes on, when the step is balanced and does not
\* change what q is about to do.
LEMMA OthersGoOn ==
  ASSUME CountsOK, CountsOK', Balanced, NEW q,
         (Serving(q))' = Serving(q), (Presents(q))' = Presents(q)
  PROVE  /\ Overtaken(q) => (Overtaken(q))'
         /\ /\ First(q)
            /\ jar'.refresh \in Sound' => jar'.refresh = jar.refresh /\ jar.refresh \in Sound
            => (First(q))'
<1>1. /\ mishaps \in Nat /\ mishaps' \in Nat
      /\ Cardinality(Armed) \in Nat /\ Cardinality(Armed') \in Nat
      /\ Cardinality(Orphans) \in Nat /\ Cardinality(Orphans') \in Nat
  BY DEF CountsOK
<1>2. Overtaken(q) => (Overtaken(q))'
  <2>1. PICK d : d = Presents(q)
    OBVIOUS
  <2>2. Cardinality(Orphans \ {d}) \in Nat /\ Cardinality(Orphans' \ {d}) \in Nat
    BY DEF CountsOK
  <2>3. Cardinality(Orphans' \ {d}) + Cardinality(Armed') + mishaps
              <= Cardinality(Orphans \ {d}) + Cardinality(Armed) + mishaps'
    BY DEF Balanced
  <2>4. ASSUME Overtaken(q) PROVE (Overtaken(q))'
    <3>1. Serving(q) /\ Cardinality(Orphans \ {d}) + Cardinality(Armed) <= mishaps
      BY <2>1, <2>4 DEF Overtaken
    <3>2. Cardinality(Orphans' \ {d}) + Cardinality(Armed') <= mishaps'
      BY <1>1, <2>2, <2>3, <3>1
    <3> QED
      BY <2>1, <3>1, <3>2 DEF Overtaken
  <2> QED
    BY <2>4
<1>3. ASSUME First(q),
             jar'.refresh \in Sound' => jar'.refresh = jar.refresh /\ jar.refresh \in Sound
      PROVE  (First(q))'
  <2>1. Cardinality(Orphans') + Cardinality(Armed') <= mishaps' + 1
    BY <1>1, <1>3 DEF First, Balanced
  <2> QED
    BY <1>3, <2>1 DEF First
<1> QED
  BY <1>2, <1>3

\* After a step too, pairs issued are within the bound.
IssuedOK == Issued \subseteq Tokens /\ None \notin Issued /\ Live \subseteq Issued

LEMMA IssuedNext == StructInv' => IssuedOK'
<1>1. StructInv => IssuedOK
  BY IssuedBounds DEF IssuedOK
<1> QED
  BY <1>1, PTL

\* A step between calls that leaves no pair of worth behind.
LEMMA QuietKeepsOrphans ==
  ASSUME StructInv, StructInv', OrphansInv, UNCHANGED <<call, mishaps>>,
         Orphans' \subseteq Orphans,
         jar'.refresh \in Sound' => jar'.refresh = jar.refresh /\ jar.refresh \in Sound
  PROVE  OrphansInv'
<1>1. CountsOK /\ CountsOK'
  BY Counts, CountsNext
<1>2. Armed' = Armed /\ \A q : (Serving(q))' = Serving(q) /\ (Presents(q))' = Presents(q)
  BY DEF Armed, Serving, Presents, UnderWay, Unable
<1>3. Balanced
  <2>1. PICK x : x = None
    OBVIOUS
  <2>2. mishaps' >= mishaps /\ Armed' \subseteq Armed
    BY <1>1, <1>2 DEF CountsOK
  <2> QED
    BY <1>1, <2>1, <2>2, Balance
<1>4. CASE Covered
  BY <1>1, <1>3, <1>4, CoveredGoesOn DEF OrphansInv
<1>5. ASSUME NEW q \in Armed, First(q) \/ Overtaken(q) PROVE OrphansInv'
  BY <1>1, <1>2, <1>3, <1>5, OthersGoOn DEF OrphansInv
<1> QED
  BY <1>4, <1>5 DEF OrphansInv

\* An answer leaves no pair behind but one that was issued and is not given.
LEMMA ServeKeepsOrphans ==
  ASSUME StructInv, StructInv', OrphansInv, NEW p \in Calls, Serve(p)
  PROVE  OrphansInv'
<1>1. /\ Serving(p)
      /\ Settles(p) \/ Keeps(p) \/ Fails(p)
      /\ CountsOK /\ CountsOK'
  BY ServeKind, Counts, CountsNext
<1>2. p \in UnderWay /\ TypeOK /\ FamilyInv /\ call[p].answer = "waiting" /\ call[p].pair = None
  BY <1>1 DEF Serving, StructInv, CallsInv
<1>3. PICK d : d = Presents(p)
  OBVIOUS
<1>4. PICK a \in {"set", "clear", "keep"}, t \in Tokens \cup {None} :
        /\ Answered(p, a, t)
        /\ t = None \/ t = NewToken
        /\ a # "keep" => ~Unable(p)
        /\ \/ a # "keep" /\ mishaps' = mishaps /\ Live' \subseteq (Live \ {d}) \cup {t}
           \/ a = "keep" /\ mishaps' >= mishaps /\ Live' \subseteq Live
           \/ mishaps' = mishaps + 1 /\ Live' \subseteq Live
           \/ mishaps' = mishaps + 1 /\ Live' \subseteq (Live \ {d}) \cup {NewToken}
  <2>1. mishaps \in Nat
    BY <1>1 DEF CountsOK
  <2>2. CASE Settles(p)
    <3>1. Takes(p, {NewToken}) => NewToken \in Tokens
      BY IssuedNext DEF IssuedOK, Takes
    <3> QED
      BY <1>3, <2>2, <3>1 DEF Settles, Takes
  <2>3. CASE Keeps(p)
    BY <2>1, <2>3 DEF Keeps
  <2>4. CASE Fails(p)
    BY <1>3, <2>4 DEF Fails, Takes
  <2> QED
    BY <1>1, <2>2, <2>3, <2>4
<1>5. /\ UnderWay' = UnderWay
      /\ call'[p].answer = a /\ call'[p].pair = t /\ call'[p].op = call[p].op
      /\ call'[p].access = call[p].access /\ call'[p].refresh = call[p].refresh
      /\ \A q \in Calls : q # p => call'[q] = call[q]
  BY <1>2, <1>4, AnsweredCall
<1>6. UNCHANGED <<age, jar>> /\ UnderWay \subseteq Calls
  BY <1>4 DEF Answered, UnderWay
<1>7. /\ \A q \in Armed : q \in Armed' \/ (q = p /\ a = "keep")
      /\ Armed' \subseteq Armed
      /\ a = "keep" => Armed' \subseteq Armed \ {p}
  <2>1. \A q \in UnderWay : (Unable(q))' = Unable(q)
    BY <1>5, <1>6 DEF Unable
  <2> QED
    BY <1>2, <1>5, <1>6, <2>1 DEF Armed
<1>8. \A q \in Armed : q # p => (Serving(q))' = Serving(q) /\ (Presents(q))' = Presents(q)
  BY <1>5, <1>6 DEF Armed, Serving, Presents
<1>9. /\ Live \subseteq Issued /\ None \notin Issued /\ NewToken \notin Issued
      /\ None \notin Live'
      /\ jar.refresh \in Issued \cup {None}
  BY <1>2, IssuedBounds, IssuedNext, NewTokenIsNew DEF IssuedOK, StructInv, CallsInv
<1>10. /\ Live' \subseteq Live => Orphans' \subseteq Orphans
       /\ Live' \subseteq (Live \ {d}) \cup {t} => Orphans' \subseteq Orphans \ {d}
       /\ Live' \subseteq (Live \ {d}) \cup {NewToken} => Orphans' \subseteq (Orphans \ {d}) \cup {NewToken}
  <2>1. \A s \in Orphans' : /\ s \in Live' /\ s # t
                            /\ s \in Live => s \in Orphans
    <3> SUFFICES ASSUME NEW s \in Orphans' PROVE s \in Live' /\ s # t /\ (s \in Live => s \in Orphans)
      OBVIOUS
    <3>1. s \in Live' /\ age[s] < 2 /\ jar.refresh # s /\ \A q \in UnderWay : call'[q].pair # s
      BY <1>5, <1>6 DEF Orphans
    <3>2. s # t
      BY <1>2, <1>5, <3>1
    <3>3. \A q \in UnderWay : s \in Live => call[q].pair # s
      BY <1>2, <1>5, <1>6, <1>9, <3>1
    <3> QED
      BY <3>1, <3>2, <3>3 DEF Orphans
  <2>2. \A s \in Orphans : s \in Live
    BY DEF Orphans
  <2> QED
    BY <2>1, <2>2
<1>11. /\ jar'.refresh \in Sound' => jar'.refresh = jar.refresh /\ jar.refresh \in Sound
       /\ /\ jar.refresh \in Sound'
          /\ Live' \subseteq (Live \ {d}) \cup {t} \/ Live' \subseteq (Live \ {d}) \cup {NewToken}
          => jar.refresh # d
  <2>1. jar'.refresh = jar.refresh /\ (jar.refresh \in Sound' => jar.refresh \in Live' /\ age[jar.refresh] < 2)
    BY <1>6 DEF Sound
  <2>2. \/ Live' \subseteq Live
        \/ Live' \subseteq (Live \ {d}) \cup {t}
        \/ Live' \subseteq (Live \ {d}) \cup {NewToken}
    BY <1>4
  <2>3. jar.refresh \in Live' => jar.refresh \in Live
    BY <1>4, <1>9, <2>2
  <2>4. /\ jar.refresh \in Live'
        /\ Live' \subseteq (Live \ {d}) \cup {t} \/ Live' \subseteq (Live \ {d}) \cup {NewToken}
        => jar.refresh # d
    BY <1>4, <1>9
  <2> QED
    BY <2>1, <2>3, <2>4 DEF Sound
<1>12. Balanced
  <2>1. mishaps \in Nat /\ mishaps' \in Nat
    BY <1>1 DEF CountsOK
  <2>2. CASE Orphans' \subseteq Orphans /\ mishaps' >= mishaps
    BY <1>1, <1>7, <2>2, Balance
  <2>3. CASE Orphans' \subseteq Orphans \cup {NewToken} /\ mishaps' >= mishaps + 1
    <3>1. PICK x : x = NewToken
      OBVIOUS
    <3> QED
      BY <1>1, <1>7, <2>3, <3>1, Balance
  <2> QED
    BY <1>4, <1>10, <2>1, <2>2, <2>3
<1>13. CASE Covered
  BY <1>1, <1>12, <1>13, CoveredGoesOn DEF OrphansInv
<1>14. ASSUME NEW q \in Armed, q # p, First(q) \/ Overtaken(q) PROVE OrphansInv'
  <2>1. q \in Armed' /\ (Serving(q))' = Serving(q) /\ (Presents(q))' = Presents(q)
    BY <1>7, <1>8, <1>14
  <2>2. (First(q))' \/ (Overtaken(q))'
    BY <1>1, <1>11, <1>12, <1>14, <2>1, OthersGoOn
  <2> QED
    BY <2>1, <2>2 DEF OrphansInv
<1>15. /\ mishaps \in Nat /\ mishaps' \in Nat
       /\ Cardinality(Armed) \in Nat /\ Cardinality(Armed') \in Nat
       /\ Cardinality(Orphans) \in Nat /\ Cardinality(Orphans') \in Nat
       /\ Cardinality(Orphans \ {d}) \in Nat
       /\ Cardinality(Orphans) <= Cardinality(Orphans \ {d}) + 1
       /\ IsFiniteSet(Orphans) /\ IsFiniteSet(Orphans \ {d}) /\ IsFiniteSet(Armed)
  BY <1>1 DEF CountsOK
<1>16. Cardinality(Armed') <= Cardinality(Armed)
  BY <1>7, <1>15, PartOf
<1>17. ASSUME p \in Armed, First(p) PROVE OrphansInv'
  <2>1. /\ Cardinality(Orphans) + Cardinality(Armed) <= mishaps + 1
        /\ jar.refresh \in Sound => jar.refresh = d
    BY <1>3, <1>17 DEF First
  <2>2. CASE a = "keep" /\ Live' \subseteq Live
    <3>1. Cardinality(Armed') <= Cardinality(Armed) - 1
      BY <1>7, <1>15, <1>17, <2>2, OneLess
    <3>2. Cardinality(Orphans') <= Cardinality(Orphans)
      BY <1>10, <1>15, <2>2, PartOf
    <3>3. mishaps' >= mishaps
      BY <1>4, <1>15
    <3> QED
      BY <1>15, <2>1, <3>1, <3>2, <3>3 DEF OrphansInv, Covered
  <2>3. CASE mishaps' = mishaps + 1 /\ Live' \subseteq Live
    <3>1. Cardinality(Orphans') <= Cardinality(Orphans)
      BY <1>10, <1>15, <2>3, PartOf
    <3> QED
      BY <1>15, <1>16, <2>1, <2>3, <3>1 DEF OrphansInv, Covered
  <2>4. CASE /\ a # "keep"
             /\ Live' \subseteq (Live \ {d}) \cup {t} \/ Live' \subseteq (Live \ {d}) \cup {NewToken}
    <3>1. p \in Armed'
      BY <1>7, <1>17, <2>4
    <3>2. jar'.refresh \notin Sound'
      BY <1>6, <1>11, <2>1, <2>4
    <3>3. Cardinality(Orphans') + Cardinality(Armed') <= mishaps' + 1
      BY <1>12, <1>15, <2>1 DEF Balanced
    <3>4. (First(p))'
      BY <3>2, <3>3 DEF First
    <3> QED
      BY <3>1, <3>4 DEF OrphansInv
  <2>5. CASE a = "keep" /\ Live' \subseteq (Live \ {d}) \cup {NewToken} /\ mishaps' = mishaps + 1
    <3>1. Cardinality(Armed') <= Cardinality(Armed) - 1
      BY <1>7, <1>15, <1>17, <2>5, OneLess
    <3>2. Orphans' \subseteq Orphans \cup {NewToken}
      BY <1>10, <2>5
    <3>3. PICK x : x = NewToken
      OBVIOUS
    <3>4. Cardinality(Orphans') <= Cardinality(Orphans) + 1
      BY <1>15, <3>2, <3>3, OneMore
    <3> QED
      BY <1>15, <2>1, <2>5, <3>1, <3>4 DEF OrphansInv, Covered
  <2> QED
    BY <1>4, <2>2, <2>3, <2>4, <2>5
<1>18. ASSUME p \in Armed, Overtaken(p) PROVE OrphansInv'
  <2>1. Cardinality(Orphans \ {d}) + Cardinality(Armed) <= mishaps
    BY <1>3, <1>18 DEF Overtaken
  <2>2. CASE a = "keep" /\ Live' \subseteq Live
    <3>1. Cardinality(Armed') <= Cardinality(Armed) - 1
      BY <1>7, <1>15, <1>18, <2>2, OneLess
    <3>2. Cardinality(Orphans') <= Cardinality(Orphans)
      BY <1>10, <1>15, <2>2, PartOf
    <3>3. mishaps' >= mishaps
      BY <1>4, <1>15
    <3> QED
      BY <1>15, <2>1, <3>1, <3>2, <3>3 DEF OrphansInv, Covered
  <2>3. CASE mishaps' = mishaps + 1 /\ Live' \subseteq Live
    <3>1. Cardinality(Orphans') <= Cardinality(Orphans)
      BY <1>10, <1>15, <2>3, PartOf
    <3> QED
      BY <1>15, <1>16, <2>1, <2>3, <3>1 DEF OrphansInv, Covered
  <2>4. CASE mishaps' = mishaps /\ Live' \subseteq (Live \ {d}) \cup {t}
    <3>1. Cardinality(Orphans') <= Cardinality(Orphans \ {d})
      BY <1>10, <1>15, <2>4, PartOf
    <3> QED
      BY <1>15, <1>16, <2>1, <2>4, <3>1 DEF OrphansInv, Covered
  <2>5. CASE mishaps' = mishaps + 1 /\ Live' \subseteq (Live \ {d}) \cup {NewToken}
    <3>1. PICK x : x = NewToken
      OBVIOUS
    <3>2. Orphans' \subseteq (Orphans \ {d}) \cup {x}
      BY <1>10, <2>5, <3>1
    <3>3. Cardinality(Orphans') <= Cardinality(Orphans \ {d}) + 1
      BY <1>15, <3>2, OneMore
    <3> QED
      BY <1>15, <1>16, <2>1, <2>5, <3>3 DEF OrphansInv, Covered
  <2> QED
    BY <1>4, <2>2, <2>3, <2>4, <2>5
<1> QED
  BY <1>13, <1>14, <1>17, <1>18 DEF OrphansInv
\* The answer arrives.  It may leave the pair behind that the jar held.
LEMMA DeliverKeepsOrphans ==
  ASSUME StructInv, StructInv', OrphansInv, NEW p \in Calls, Deliver(p)
  PROVE  OrphansInv'
<1>1. CountsOK /\ CountsOK' /\ mishaps' = mishaps /\ mishaps \in Nat
  BY Counts, CountsNext DEF CountsOK, Deliver
<1>2. /\ p \in UnderWay /\ call[p].answer # "waiting"
      /\ call[p].answer \in {"set", "clear", "keep"}
      /\ jar' = IF call[p].answer = "set" THEN SetCookies(call[p].pair)
                ELSE IF call[p].answer = "clear" THEN ClearedCookies ELSE jar
  BY DeliverKeepsStruct, CallAt DEF Deliver, StructInv
<1>3. /\ \A q \in Calls : q # p => call'[q] = call[q]
      /\ call'[p] = NoCall /\ UnderWay \subseteq Calls
  BY DEF Deliver, StructInv, TypeOK, UnderWay
<1>4. UnderWay' = UnderWay \ {p} /\ Live' = Live /\ age' = age
  BY <1>3 DEF UnderWay, Deliver, Live
<1>5. Armed' = Armed \ {p}
  BY <1>3, <1>4 DEF Armed, Unable
<1>6. \A q \in Armed : q # p => (Serving(q))' = Serving(q) /\ (Presents(q))' = Presents(q)
  BY <1>3, <1>4 DEF Armed, Serving, Presents
<1>7. None \notin Live
  BY IssuedBounds
<1>8. call[p].answer = "keep" \/ p \in Armed
  BY <1>2 DEF StructInv, CallsInv, Armed
<1>9. /\ call[p].answer # "set" => call[p].pair = None
      /\ call[p].answer = "set" => jar'.refresh = call[p].pair
      /\ call[p].answer = "clear" => jar'.refresh = None
      /\ call[p].answer = "keep" => jar' = jar
  BY <1>2 DEF StructInv, CallsInv, SetCookies, ClearedCookies
<1>10. \A t \in Orphans' : /\ t \in Live /\ age[t] < 2
                           /\ \A q \in UnderWay : call[q].pair # t
                           /\ t # jar'.refresh
  <2> SUFFICES ASSUME NEW t \in Orphans'
               PROVE  /\ t \in Live /\ age[t] < 2
                      /\ \A q \in UnderWay : call[q].pair # t
                      /\ t # jar'.refresh
    OBVIOUS
  <2>1. /\ t \in Live /\ age[t] < 2 /\ t # jar'.refresh
        /\ \A q \in UnderWay : q # p => call'[q].pair # t
    BY <1>4 DEF Orphans
  <2>2. call[p].pair # t
    BY <1>7, <1>9, <2>1
  <2>3. \A q \in UnderWay : q # p => call'[q] = call[q]
    BY <1>3
  <2> QED
    BY <2>1, <2>2, <2>3
<1>11. Orphans' \subseteq Orphans \cup {jar.refresh}
  BY <1>10 DEF Orphans
<1>12. jar.refresh \notin Sound \/ jar' = jar => Orphans' \subseteq Orphans
  BY <1>10 DEF Orphans, Sound
<1>13. CASE call[p].answer = "keep"
  <2>1. Armed' = Armed /\ jar' = jar /\ Orphans' \subseteq Orphans /\ p \notin Armed
    BY <1>5, <1>9, <1>12, <1>13 DEF Armed
  <2>2. Balanced
    <3>1. PICK x : x = None
      OBVIOUS
    <3> QED
      BY <1>1, <2>1, <3>1, Balance
  <2>3. jar'.refresh \in Sound' => jar'.refresh = jar.refresh /\ jar.refresh \in Sound
    BY <1>4, <2>1 DEF Sound
  <2>4. Covered => Covered'
    BY <1>1, <2>2, CoveredGoesOn
  <2>5. ASSUME NEW q \in Armed, First(q) \/ Overtaken(q) PROVE OrphansInv'
    <3>1. q \in Armed' /\ (Serving(q))' = Serving(q) /\ (Presents(q))' = Presents(q)
      BY <1>6, <2>1
    <3>2. (First(q))' \/ (Overtaken(q))'
      BY <1>1, <2>2, <2>3, <2>5, <3>1, OthersGoOn
    <3> QED
      BY <3>1, <3>2 DEF OrphansInv
  <2> QED
    BY <2>4, <2>5 DEF OrphansInv
<1>14. CASE p \in Armed
  <2>1. PICK x : x = jar.refresh
    OBVIOUS
  <2>2. Balanced
    BY <1>1, <1>5, <1>11, <1>14, <2>1, Balance
  <2>3. /\ Cardinality(Armed) \in Nat /\ Cardinality(Armed') \in Nat
        /\ Cardinality(Orphans) \in Nat /\ Cardinality(Orphans') \in Nat
        /\ Cardinality(Armed') <= Cardinality(Armed) - 1
        /\ IsFiniteSet(Orphans)
    BY <1>1, <1>5, <1>14, OneLess DEF CountsOK
  <2>4. Covered => Covered'
    BY <1>1, <2>2, <2>3 DEF Covered, Balanced
  <2>5. ASSUME jar.refresh \notin Sound, NEW q, First(q) PROVE Covered'
    <3>1. Cardinality(Orphans') <= Cardinality(Orphans)
      BY <1>12, <2>3, <2>5, PartOf
    <3> QED
      BY <1>1, <2>3, <2>5, <3>1 DEF First, Covered
  <2>6. ASSUME jar.refresh \in Sound, NEW q \in Armed, First(q) PROVE OrphansInv'
    <3>1. Serving(q) /\ Presents(q) = x /\ q # p
      BY <1>2, <2>1, <2>6 DEF First, Serving
    <3>2. q \in Armed' /\ (Serving(q))' /\ (Presents(q))' = x
      BY <1>5, <1>6, <2>6, <3>1
    <3>3. Orphans' \ {x} \subseteq Orphans
      BY <1>11, <2>1
    <3>4. Cardinality(Orphans' \ {x}) \in Nat /\ Cardinality(Orphans' \ {x}) <= Cardinality(Orphans)
      BY <2>3, <3>3, PartOf
    <3>5. Cardinality(Orphans' \ {x}) + Cardinality(Armed') <= mishaps'
      BY <1>1, <2>3, <2>6, <3>4 DEF First
    <3>6. (Overtaken(q))'
      BY <3>2, <3>5 DEF Overtaken
    <3> QED
      BY <3>2, <3>6 DEF OrphansInv
  <2>7. ASSUME NEW q \in Armed, Overtaken(q) PROVE OrphansInv'
    <3>1. Serving(q) /\ q # p
      BY <1>2, <2>7 DEF Overtaken, Serving
    <3>2. q \in Armed' /\ (Serving(q))' = Serving(q) /\ (Presents(q))' = Presents(q)
      BY <1>5, <1>6, <3>1
    <3>3. (Overtaken(q))'
      BY <1>1, <2>2, <2>7, <3>2, OthersGoOn
    <3> QED
      BY <3>2, <3>3 DEF OrphansInv
  <2> QED
    BY <2>4, <2>5, <2>6, <2>7 DEF OrphansInv
<1> QED
  BY <1>8, <1>13, <1>14

\* A call is lost.  The pair in its answer is left behind, by a mishap.
LEMMA LoseKeepsOrphans ==
  ASSUME StructInv, StructInv', OrphansInv, NEW p \in Calls, Lose(p)
  PROVE  OrphansInv'
<1>1. CountsOK /\ CountsOK' /\ mishaps' = mishaps + 1 /\ mishaps \in Nat
  BY Counts, CountsNext DEF CountsOK, Lose, Mishap
<1>2. /\ \A q \in Calls : q # p => call'[q] = call[q]
      /\ call'[p] = NoCall /\ UnderWay \subseteq Calls
      /\ Live' = Live /\ UNCHANGED <<age, jar>>
  BY DEF Lose, StructInv, TypeOK, UnderWay, Live
<1>3. UnderWay' = UnderWay \ {p}
  BY <1>2 DEF UnderWay
<1>4. Armed' = Armed \ {p}
  BY <1>2, <1>3 DEF Armed, Unable
<1>5. \A q \in Armed : q # p => (Serving(q))' = Serving(q) /\ (Presents(q))' = Presents(q)
  BY <1>2, <1>3 DEF Armed, Serving, Presents
<1>6. jar'.refresh \in Sound' => jar'.refresh = jar.refresh /\ jar.refresh \in Sound
  BY <1>2 DEF Sound
<1>7. PICK x : x = call[p].pair
  OBVIOUS
<1>8. Orphans' \subseteq Orphans \cup {x}
  <2> SUFFICES ASSUME NEW t \in Orphans', t # x PROVE t \in Orphans
    OBVIOUS
  <2>1. /\ t \in Live /\ age[t] < 2 /\ jar.refresh # t
        /\ \A q \in UnderWay : q # p => call'[q].pair # t
    BY <1>2, <1>3 DEF Orphans
  <2>2. \A q \in UnderWay : call[q].pair # t
    BY <1>2, <1>7, <2>1
  <2> QED
    BY <2>1, <2>2 DEF Orphans
<1>9. Balanced
  <2>1. mishaps' >= mishaps + 1 /\ Armed' \subseteq Armed
    BY <1>1, <1>4
  <2> QED
    BY <1>1, <1>8, <2>1, Balance
<1>10. CASE Covered
  BY <1>1, <1>9, <1>10, CoveredGoesOn DEF OrphansInv
<1>11. ASSUME NEW q \in Armed, q # p, First(q) \/ Overtaken(q) PROVE OrphansInv'
  <2>1. q \in Armed' /\ (Serving(q))' = Serving(q) /\ (Presents(q))' = Presents(q)
    BY <1>4, <1>5, <1>11
  <2>2. (First(q))' \/ (Overtaken(q))'
    BY <1>1, <1>6, <1>9, <1>11, <2>1, OthersGoOn
  <2> QED
    BY <2>1, <2>2 DEF OrphansInv
<1>12. ASSUME p \in Armed, First(p) \/ Overtaken(p) PROVE OrphansInv'
  <2>1. PICK d : d = Presents(p)
    OBVIOUS
  <2>2. /\ Cardinality(Armed) \in Nat /\ Cardinality(Armed') \in Nat
        /\ Cardinality(Orphans) \in Nat /\ Cardinality(Orphans') \in Nat
        /\ Cardinality(Armed') <= Cardinality(Armed) - 1
        /\ Cardinality(Orphans') <= Cardinality(Orphans) + 1
        /\ Cardinality(Orphans \ {d}) \in Nat
        /\ Cardinality(Orphans) <= Cardinality(Orphans \ {d}) + 1
    BY <1>1, <1>4, <1>8, <1>12, OneLess, OneMore DEF CountsOK
  <2>3. \/ Cardinality(Orphans) + Cardinality(Armed) <= mishaps + 1
        \/ Cardinality(Orphans \ {d}) + Cardinality(Armed) <= mishaps
    BY <1>12, <2>1 DEF First, Overtaken
  <2>4. Covered'
    BY <1>1, <2>2, <2>3 DEF Covered
  <2> QED
    BY <2>4 DEF OrphansInv
<1> QED
  BY <1>10, <1>11, <1>12 DEF OrphansInv

\* A call that is sent alone, and neither on top of another session nor without
\* its cookie, leaves nothing behind; any other is a mishap.
LEMMA SendKeepsOrphans ==
  ASSUME StructInv, StructInv', OrphansInv, NEW p \in Calls, NEW op \in Operations, Send(p, op)
  PROVE  OrphansInv'
<1> DEFINE c == [op |-> op, access |-> jar.access, refresh |-> RefreshCookieOn,
                 answer |-> "waiting", pair |-> None]
<1>1. /\ c.op = op /\ c.access = jar.access /\ c.refresh = RefreshCookieOn
      /\ c.answer = "waiting" /\ c.pair = None /\ c # NoCall
  <2>1. jar.access \in Tokens \cup {None} /\ jar.refresh \in Tokens \cup {None}
    BY IssuedBounds DEF StructInv, CallsInv
  <2>2. c \in Call
    BY <2>1 DEF Call, RefreshCookieOn
  <2> QED
    BY <2>2, NoCallIsNone
<1>2. call' = [call EXCEPT ![p] = c] /\ call[p] = NoCall
  BY DEF Send
<1> HIDE DEF c
<1>3. /\ call'[p] = c /\ \A q \in Calls : q # p => call'[q] = call[q]
      /\ Live' = Live /\ UNCHANGED <<age, jar>> /\ UnderWay \subseteq Calls
  BY <1>2 DEF Send, StructInv, TypeOK, Live, UnderWay
<1>4. UnderWay' = UnderWay \cup {p} /\ p \notin UnderWay
  BY <1>1, <1>2, <1>3 DEF UnderWay
<1>5. CountsOK /\ CountsOK' /\ mishaps \in Nat /\ None \notin Live
  BY Counts, CountsNext, IssuedBounds DEF CountsOK
<1>6. Armed \subseteq Armed' /\ Armed' \subseteq Armed \cup {p}
  <2>1. \A q \in UnderWay : q # p /\ call'[q] = call[q] /\ (Unable(q))' = Unable(q)
    BY <1>3, <1>4 DEF Unable
  <2> QED
    BY <1>4, <2>1 DEF Armed
<1>7. \A q \in Armed : (Serving(q))' = Serving(q) /\ (Presents(q))' = Presents(q)
  BY <1>3, <1>4 DEF Armed, Serving, Presents
<1>8. Orphans' \subseteq Orphans
  <2>1. \A q \in UnderWay : q # p /\ call'[q] = call[q]
    BY <1>3, <1>4
  <2> QED
    BY <1>3, <1>4, <2>1 DEF Orphans
<1>9. jar'.refresh \in Sound' => jar'.refresh = jar.refresh /\ jar.refresh \in Sound
  BY <1>3 DEF Sound
<1>10. CASE Risky(op)
  <2>1. mishaps' = mishaps + 1
    BY <1>10 DEF Send, Mishap
  <2>2. Balanced
    <3>1. PICK x : x = None
      OBVIOUS
    <3>2. mishaps' >= mishaps + 1
      BY <1>5, <2>1
    <3> QED
      BY <1>5, <1>6, <1>8, <3>1, <3>2, Balance
  <2>3. CASE Covered
    BY <1>5, <2>2, <2>3, CoveredGoesOn DEF OrphansInv
  <2>4. ASSUME NEW q \in Armed, First(q) \/ Overtaken(q) PROVE OrphansInv'
    <3>1. q \in Armed' /\ (Serving(q))' = Serving(q) /\ (Presents(q))' = Presents(q)
      BY <1>6, <1>7
    <3>2. (First(q))' \/ (Overtaken(q))'
      BY <1>5, <1>9, <2>2, <2>4, <3>1, OthersGoOn
    <3> QED
      BY <3>1, <3>2 DEF OrphansInv
  <2> QED
    BY <2>3, <2>4 DEF OrphansInv
<1>11. CASE ~Risky(op)
  <2>1. /\ mishaps' = mishaps /\ Armed = {} /\ Covered
        /\ op = "verify" => jar.refresh = None
        /\ op = "logout" => jar.access # None
    BY <1>11 DEF Send, Mishap, Risky, Armed, OrphansInv
  <2>2. /\ Cardinality(Orphans') \in Nat /\ Cardinality(Orphans) \in Nat
        /\ Cardinality(Orphans') <= Cardinality(Orphans)
        /\ Cardinality(Armed) = 0
    BY <1>5, <1>8, <2>1, PartOf, FS_EmptySet DEF CountsOK
  <2>3. Cardinality(Orphans') <= mishaps
    BY <1>5, <2>1, <2>2 DEF Covered
  <2>4. CASE p \in Armed'
    <3>1. Cardinality(Armed') \in Nat /\ Cardinality(Armed') <= 1
      <4>1. Armed' \subseteq {p} /\ IsFiniteSet({p}) /\ Cardinality({p}) = 1
        BY <1>6, <2>1, FS_Singleton
      <4> QED
        BY <4>1, PartOf
    <3>2. Cardinality(Orphans') + Cardinality(Armed') <= mishaps' + 1
      BY <1>5, <2>1, <2>2, <2>3, <3>1
    <3>3. (Serving(p))'
      BY <1>1, <1>3, <1>4 DEF Serving
    <3>4. jar'.refresh \in Sound' => (Presents(p))' = jar'.refresh
      <4> SUFFICES ASSUME jar.refresh \in Sound PROVE (Presents(p))' = jar.refresh
        BY <1>3, <1>9
      <4>1. jar.refresh # None
        BY <1>5 DEF Sound
      <4>2. CASE op = "verify"
        BY <2>1, <4>1, <4>2
      <4>3. CASE op = "refresh"
        <5>1. (Presents(p))' = RefreshCookieOn
          BY <1>1, <1>3, <4>3 DEF Presents
        <5>2. RefreshCookieOn # None
          BY <1>1, <1>3, <2>4, <4>3 DEF Armed, Unable
        <5> QED
          BY <5>1, <5>2 DEF RefreshCookieOn
      <4>4. CASE op = "logout"
        <5>1. (Presents(p))' = jar.access
          BY <1>1, <1>3, <4>4 DEF Presents
        <5> QED
          BY <2>1, <4>4, <5>1 DEF StructInv, TypeOK
      <4> QED
        BY <4>2, <4>3, <4>4 DEF Operations
    <3>5. (First(p))'
      BY <3>2, <3>3, <3>4 DEF First
    <3> QED
      BY <2>4, <3>5 DEF OrphansInv
  <2>5. CASE p \notin Armed'
    <3>1. Armed' = {}
      BY <1>6, <2>1, <2>5
    <3>2. Cardinality(Armed') = 0
      BY <3>1, FS_EmptySet, Zenon
    <3>3. Covered'
      BY <1>5, <2>1, <2>2, <2>3, <3>2 DEF Covered
    <3> QED
      BY <3>3 DEF OrphansInv
  <2> QED
    BY <2>4, <2>5
<1> QED
  BY <1>10, <1>11

\* One step per action.
LEMMA OrphansStep == StructInv /\ StructInv' /\ OrphansInv /\ [Next]_vars => OrphansInv'
<1> SUFFICES ASSUME StructInv, StructInv', OrphansInv, [Next]_vars PROVE OrphansInv'
  OBVIOUS
<1>1. /\ None \notin Live /\ Live \subseteq Tokens
      /\ age \in [Tokens -> 0..2] /\ jar \in [access: Issued \cup {None}, refresh: Issued \cup {None}]
  BY IssuedBounds DEF StructInv, TypeOK, CallsInv
<1>2. ASSUME UNCHANGED <<family, age, call, mishaps, jar>> PROVE OrphansInv'
  <2>1. Orphans' = Orphans /\ Sound' = Sound
    BY <1>2 DEF Orphans, Sound, Live, UnderWay
  <2> QED
    BY <1>2, <2>1, QuietKeepsOrphans
<1>3. ASSUME DropAccess PROVE OrphansInv'
  <2>1. jar'.refresh = jar.refresh
    BY <1>1, <1>3 DEF DropAccess
  <2>2. Orphans' = Orphans /\ Sound' = Sound
    BY <1>3, <2>1 DEF DropAccess, Orphans, Sound, Live, UnderWay
  <2> QED
    BY <1>3, <2>1, <2>2, QuietKeepsOrphans DEF DropAccess
<1>4. ASSUME DropRefresh PROVE OrphansInv'
  <2>1. jar'.refresh = None /\ age[jar.refresh] = 2 /\ UNCHANGED <<family, age, call, mishaps>>
    BY <1>4 DEF DropRefresh, ClearedCookies
  <2>2. Live' = Live /\ Sound' = Sound /\ UnderWay' = UnderWay
    BY <2>1 DEF Live, Sound, UnderWay
  <2>3. Orphans' \subseteq Orphans
    BY <2>1, <2>2 DEF Orphans
  <2>4. None \notin Sound
    BY <1>1 DEF Sound
  <2> QED
    BY <2>1, <2>2, <2>3, <2>4, QuietKeepsOrphans
<1>5. ASSUME NEW t \in Tokens, Age(t) PROVE OrphansInv'
  <2>1. UNCHANGED <<family, call, mishaps, jar>> /\ age' = [age EXCEPT ![t] = age[t] + 1]
    BY <1>5 DEF Age
  <2>2. \A s \in Tokens : age'[s] < 2 => age[s] < 2
    BY <1>1, <2>1
  <2>3. Live' = Live /\ UnderWay' = UnderWay
    BY <2>1 DEF Live, UnderWay
  <2>4. Orphans' \subseteq Orphans /\ Sound' \subseteq Sound
    BY <1>1, <2>1, <2>2, <2>3 DEF Orphans, Sound
  <2> QED
    BY <2>1, <2>4, QuietKeepsOrphans
<1> QED
  BY <1>2, <1>3, <1>4, <1>5, ServeKeepsOrphans, SendKeepsOrphans, DeliverKeepsOrphans,
     LoseKeepsOrphans
  DEF Next, SetActive, vars

-----------------------------------------------------------------------------
(* Without a mishap.                                                       *)

\* What the jar holds is live.
JarLive == jar.refresh # None => jar.refresh \in Live

\* As long as nothing has gone wrong there is one call at most; until it is
\* answered the jar's pair is live, then the pair that it brings.
AloneInv ==
  mishaps = 0 =>
    /\ \A p, q \in UnderWay : p = q
    /\ UnderWay = {} => JarLive
    /\ \A p \in UnderWay : /\ call[p].answer \in {"waiting", "keep"} => JarLive
                           /\ call[p].answer = "set" => call[p].pair \in Live

LEMMA AloneStep == StructInv /\ AloneInv /\ [Next]_vars => AloneInv'
<1> SUFFICES ASSUME StructInv, AloneInv, [Next]_vars, mishaps' = 0
             PROVE  /\ \A p, q \in UnderWay' : p = q
                    /\ UnderWay' = {} => JarLive'
                    /\ \A p \in UnderWay' :
                         /\ call'[p].answer \in {"waiting", "keep"} => JarLive'
                         /\ call'[p].answer = "set" => call'[p].pair \in Live'
  BY DEF AloneInv
<1>1. mishaps \in Nat /\ mishaps' = 0 /\ UnderWay \subseteq Calls /\ TypeOK
  BY Counts DEF CountsOK, UnderWay, StructInv
<1>2. ASSUME UNCHANGED <<family, call, mishaps>>, JarLive => JarLive' PROVE AloneInv'
  BY <1>2 DEF AloneInv, UnderWay, Live
<1>3. ASSUME DropAccess \/ DropRefresh PROVE AloneInv'
  <2>1. JarLive => JarLive'
    BY <1>3 DEF DropAccess, DropRefresh, ClearedCookies, JarLive, Live, StructInv, CallsInv
  <2> QED
    BY <1>2, <1>3, <2>1 DEF DropAccess, DropRefresh
<1>4. ASSUME (\E t \in Tokens : Age(t)) \/ (\E u \in Users : SetActive(u)) \/ UNCHANGED vars
      PROVE  AloneInv'
  BY <1>2, <1>4 DEF Age, SetActive, vars, JarLive, Live
<1>5. ASSUME NEW p \in Calls, Lose(p) PROVE FALSE
  BY <1>1, <1>5 DEF Lose, Mishap
<1>6. ASSUME NEW p \in Calls, NEW op \in Operations, Send(p, op) PROVE AloneInv'
  <2>1. mishaps = 0 /\ UnderWay = {}
    BY <1>1, <1>6 DEF Send, Mishap, Risky
  <2>2. UnderWay' \subseteq {p} /\ call'[p].answer = "waiting"
    BY <1>1, <1>6, <2>1 DEF Send, UnderWay, TypeOK
  <2>3. JarLive'
    BY <1>6, <2>1 DEF Send, AloneInv, JarLive, Live
  <2> QED
    BY <2>2, <2>3 DEF AloneInv
<1>7. ASSUME NEW p \in Calls, Deliver(p) PROVE AloneInv'
  <2>1. mishaps = 0 /\ p \in UnderWay /\ Live' = Live
    BY <1>1, <1>7 DEF Deliver, Live
  <2>2. UnderWay' = {}
    BY <1>1, <1>7, <2>1 DEF Deliver, UnderWay, TypeOK, AloneInv
  <2>3. jar' = IF call[p].answer = "set" THEN SetCookies(call[p].pair)
               ELSE IF call[p].answer = "clear" THEN ClearedCookies ELSE jar
    BY <1>7, DeliverKeepsStruct
  <2>4. call[p].answer \in {"set", "clear", "keep"}
    BY <1>1, <1>7, <2>1, CallAt DEF Deliver
  <2>5. CASE call[p].answer = "set"
    BY <2>1, <2>2, <2>3, <2>5 DEF AloneInv, JarLive, SetCookies
  <2>6. CASE call[p].answer = "clear"
    BY <2>2, <2>3, <2>6 DEF AloneInv, JarLive, ClearedCookies
  <2>7. CASE call[p].answer = "keep"
    BY <2>1, <2>2, <2>3, <2>7 DEF AloneInv, JarLive
  <2> QED
    BY <2>4, <2>5, <2>6, <2>7
<1>8. ASSUME NEW p \in Calls, Serve(p) PROVE AloneInv'
  <2>1. /\ Serving(p) /\ FamilyInv'
        /\ Settles(p) \/ Keeps(p) \/ Fails(p)
    BY <1>8, ServeKind
  <2>2. p \in UnderWay /\ call[p].answer = "waiting"
    BY <2>1 DEF Serving
  <2>3. ~Fails(p)
    BY <1>1 DEF Fails
  <2>4. mishaps = 0 /\ JarLive
    BY <1>1, <2>1, <2>2, <2>3 DEF Settles, Keeps, AloneInv
  <2>5. \A q \in UnderWay : q = p
    BY <2>2, <2>4 DEF AloneInv
  <2>6. CASE Keeps(p)
    <3>1. Live' = Live /\ Answered(p, "keep", None)
      BY <1>1, <2>4, <2>6 DEF Keeps
    <3>2. UnderWay' = UnderWay /\ call'[p].answer = "keep" /\ jar' = jar
      BY <1>1, <2>2, <3>1, AnsweredCall DEF Answered
    <3> QED
      BY <2>4, <2>5, <3>1, <3>2 DEF AloneInv, JarLive
  <2>7. CASE Settles(p) /\ Answered(p, "clear", None)
    <3>1. UnderWay' = UnderWay /\ call'[p].answer = "clear"
      BY <1>1, <2>2, <2>7, AnsweredCall
    <3> QED
      BY <2>2, <2>5, <3>1 DEF AloneInv
  <2>8. CASE Settles(p) /\ Takes(p, {NewToken}) /\ Answered(p, "set", NewToken)
    <3>1. NewToken \in Tokens /\ NewToken \in Live'
      <4>1. StructInv'
        BY <1>8, ServeKeepsStruct
      <4> QED
        BY <2>8, <4>1, IssuedNext DEF IssuedOK, Takes
    <3>2. UnderWay' = UnderWay /\ call'[p].answer = "set" /\ call'[p].pair = NewToken
      BY <1>1, <2>2, <2>8, <3>1, AnsweredCall
    <3> QED
      BY <2>2, <2>5, <3>1, <3>2 DEF AloneInv
  <2> QED
    BY <2>1, <2>3, <2>6, <2>7, <2>8 DEF Settles
<1>9. AloneInv'
  BY <1>3, <1>4, <1>5, <1>6, <1>7, <1>8 DEF Next
<1> QED
  BY <1>9 DEF AloneInv

-----------------------------------------------------------------------------
(* The theorems.                                                           *)

\* In a browser that has no call and no cookie all of this holds.
LEMMA BrowserInit == Init => StructInv /\ OrphansInv /\ AloneInv
<1> SUFFICES ASSUME Init PROVE StructInv /\ OrphansInv /\ AloneInv
  OBVIOUS
<1>1. DOMAIN family = {} /\ Live = {} /\ Issued = {} /\ UnderWay = {}
  BY DEF Init, Live, Issued, UnderWay
<1>2. Pending = {} /\ Armed = {} /\ Orphans = {}
  BY <1>1 DEF Pending, Armed, Orphans, Serving
<1>3. IsFiniteSet({}) /\ Cardinality({}) = 0
  BY FS_EmptySet
<1>4. /\ Cardinality(Issued) = 0 /\ Cardinality(Pending) = 0
      /\ Cardinality(Armed) = 0 /\ Cardinality(Orphans) = 0
  BY <1>1, <1>2, <1>3, Zenon
<1>5. Issued = 1..Cardinality(Issued) /\ Cardinality(Issued) \in Nat
  BY <1>1, <1>4
<1>6. FamilyInv
  BY <1>1, <1>5 DEF FamilyInv, Init
<1>7. CallsInv
  BY <1>1, <1>3, <1>4, BrowserAssumption DEF Init, CallsInv
<1>8. TypeOK
  BY <1>5, BrowserAssumption DEF Init, TypeOK
<1>9. OrphansInv
  BY <1>4 DEF Init, OrphansInv, Covered
<1>10. AloneInv
  BY <1>1 DEF Init, AloneInv, JarLive
<1> QED
  BY <1>6, <1>7, <1>8, <1>9, <1>10 DEF StructInv

\* The inductive invariant: types, the numbering of the pairs and the families
\* apart; pairs left behind and answers to come against mishaps; one call at a
\* time while there was none.
THEOREM BrowserInvariant == Spec => [](StructInv /\ OrphansInv /\ AloneInv)
<1>1. StructInv /\ OrphansInv /\ AloneInv /\ [Next]_vars => (StructInv /\ OrphansInv /\ AloneInv)'
  BY StructStep, OrphansStep, AloneStep
<1> QED
  BY BrowserInit, <1>1, PTL DEF Spec

\* Browser keeps its types, and the access cookie is never in the jar without
\* its refresh cookie.
THEOREM TypeCorrect == Spec => []TypeOK
<1>1. StructInv => TypeOK
  BY DEF StructInv
<1> QED
  BY <1>1, BrowserInvariant, PTL

\* Every valid pair that nobody holds is the trace of a mishap of its own.
THEOREM MishapsCoverOrphans == Spec => []OrphansCounted
<1>1. StructInv /\ OrphansInv => OrphansCounted
  <2> SUFFICES ASSUME StructInv, OrphansInv PROVE Cardinality(Orphans) <= mishaps
    BY DEF OrphansCounted
  <2>1. /\ mishaps \in Nat /\ IsFiniteSet(Armed) /\ Cardinality(Armed) \in Nat
        /\ Cardinality(Orphans) \in Nat
    BY Counts DEF CountsOK
  <2>2. CASE Covered
    BY <2>1, <2>2 DEF Covered
  <2>3. ASSUME NEW p \in Armed, First(p) \/ Overtaken(p) PROVE Cardinality(Orphans) <= mishaps
    <3>1. PICK d : d = Presents(p)
      OBVIOUS
    <3>2. Cardinality(Armed) >= 1
      BY <2>1, FS_EmptySet
    <3>3. /\ Cardinality(Orphans \ {d}) \in Nat
          /\ Cardinality(Orphans) <= Cardinality(Orphans \ {d}) + 1
      BY Counts DEF CountsOK
    <3>4. \/ Cardinality(Orphans) + Cardinality(Armed) <= mishaps + 1
          \/ Cardinality(Orphans \ {d}) + Cardinality(Armed) <= mishaps
      BY <2>3, <3>1 DEF First, Overtaken
    <3> QED
      BY <2>1, <3>2, <3>3, <3>4
  <2> QED
    BY <2>2, <2>3 DEF OrphansInv
<1> QED
  BY <1>1, BrowserInvariant, PTL

\* Without a mishap nobody is signed out unasked: when no call is under way the
\* pair in the jar is a valid one.
THEOREM NobodySignedOut == Spec => []HeldIsLive
<1>1. AloneInv => HeldIsLive
  BY DEF AloneInv, JarLive, HeldIsLive
<1> QED
  BY <1>1, BrowserInvariant, PTL
=============================================================================
