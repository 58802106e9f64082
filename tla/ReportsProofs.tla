--------------------------- MODULE ReportsProofs ---------------------------
(***************************************************************************)
(* Proofs about Reports and Pay, for any workers, rates, working times,     *)
(* zones and days, and for quotients of any scale where none is named.      *)
(***************************************************************************)
EXTENDS Reports, FiniteSetTheorems, SequenceTheorems,
  WellFoundedInduction, TLAPS

-----------------------------------------------------------------------------
(* Division.                                                               *)

\* A quotient is cut towards minus infinity.
LEMMA DivBounds ==
  ASSUME NEW x \in Int, NEW n \in Nat \ {0}
  PROVE  /\ x \div n \in Int
         /\ n * (x \div n) <= x
         /\ x < n * (x \div n) + n
OBVIOUS

\* A quotient reaches an integer when the dividend reaches so many divisors.
LEMMA DivAtLeast ==
  ASSUME NEW x \in Int, NEW n \in Nat \ {0}, NEW d \in Int
  PROVE  x \div n >= d <=> x >= d * n
<1>1. PICK q \in Int : q = x \div n
  OBVIOUS
<1>2. n * q <= x /\ x < n * q + n
  BY <1>1, DivBounds
<1>3. ASSUME q >= d PROVE x >= d * n
  <2>1. n * d <= n * q
    BY <1>3
  <2> QED
    BY <1>2, <2>1
<1>4. ASSUME q < d PROVE x < d * n
  <2>1. n * (q + 1) <= n * d
    BY <1>4
  <2>2. n * (q + 1) = n * q + n
    OBVIOUS
  <2> QED
    BY <1>2, <2>1, <2>2
<1> QED
  BY <1>1, <1>3, <1>4

-----------------------------------------------------------------------------
(* Pay.                                                                    *)

\* What is rounded is a natural number.
LEMMA RoundDivType ==
  ASSUME NEW m \in Nat, NEW n \in Nat \ {0}
  PROVE  RoundDiv(m, n) \in Nat
<1>1. 2 * m + n \in Int /\ 2 * n \in Nat \ {0} /\ 2 * m + n >= 0 * (2 * n)
  OBVIOUS
<1>2. (2 * m + n) \div (2 * n) >= 0
  BY <1>1, DivAtLeast
<1> QED
  BY <1>1, <1>2, DivBounds DEF RoundDiv

\* More is not rounded to less.
LEMMA RoundDivGrows ==
  ASSUME NEW k \in Nat, NEW m \in Nat, k <= m, NEW n \in Nat \ {0}
  PROVE  RoundDiv(k, n) <= RoundDiv(m, n)
<1>1. PICK q \in Int : q = (2 * k + n) \div (2 * n)
  OBVIOUS
<1>2. 2 * k + n \in Int /\ 2 * m + n \in Int /\ 2 * n \in Nat \ {0}
  OBVIOUS
<1>3. 2 * k + n >= q * (2 * n)
  BY <1>1, <1>2, DivAtLeast
<1>4. (2 * m + n) \div (2 * n) >= q
  <2>1. 2 * m + n >= q * (2 * n)
    BY <1>2, <1>3
  <2> QED
    BY <1>2, <2>1, DivAtLeast
<1> QED
  BY <1>1, <1>4 DEF RoundDiv

\* Pay is a natural number of cents.
LEMMA AmountType ==
  ASSUME NEW s \in Nat, NEW r \in Nat
  PROVE  Amount(s, r) \in Nat
<1>1. DivScale \in Nat \ {0} /\ HourSeconds \in Nat \ {0}
  BY PayAssumption DEF HourSeconds
<1>2. RoundDiv(s * DivScale, HourSeconds) \in Nat
  BY <1>1, RoundDivType
<1>3. RoundDiv(s * DivScale, HourSeconds) * r \in Nat
  BY <1>2
<1> QED
  BY <1>1, <1>3, RoundDivType DEF Amount

\* A second more is not paid less, at any rate and scale.
LEMMA AmountGrows ==
  ASSUME NEW s \in Nat, NEW t \in Nat, s <= t, NEW r \in Nat
  PROVE  Amount(s, r) <= Amount(t, r)
<1>1. DivScale \in Nat \ {0} /\ HourSeconds \in Nat \ {0}
  BY PayAssumption DEF HourSeconds
<1>2. s * DivScale \in Nat /\ t * DivScale \in Nat /\ s * DivScale <= t * DivScale
  BY <1>1
<1>3. PICK a \in Nat, b \in Nat :
        a = RoundDiv(s * DivScale, HourSeconds) /\ b = RoundDiv(t * DivScale, HourSeconds)
  BY <1>1, <1>2, RoundDivType
<1>4. a <= b
  BY <1>1, <1>2, <1>3, RoundDivGrows
<1>5. a * r \in Nat /\ b * r \in Nat /\ a * r <= b * r
  BY <1>4
<1> QED
  BY <1>1, <1>3, <1>5, RoundDivGrows DEF Amount

\* What is rounded is no more than half away.
LEMMA RoundDivBounds ==
  ASSUME NEW m \in Nat, NEW n \in Nat \ {0}
  PROVE  /\ 2 * (n * RoundDiv(m, n)) <= 2 * m + n
         /\ 2 * m + n < 2 * (n * RoundDiv(m, n)) + 2 * n
<1>1. PICK q \in Int : q = (2 * m + n) \div (2 * n)
  OBVIOUS
<1>2. (2 * n) * q <= 2 * m + n /\ 2 * m + n < (2 * n) * q + 2 * n
  <2>1. 2 * m + n \in Int /\ 2 * n \in Nat \ {0}
    OBVIOUS
  <2> QED
    BY <1>1, <2>1, DivBounds
<1>3. (2 * n) * q = 2 * (n * q)
  OBVIOUS
<1> QED
  BY <1>1, <1>2, <1>3 DEF RoundDiv

\* Where the scale has room for the rate, rounding the quotient first loses the
\* half cent of a tie at most: the quotient is off by half a unit of the scale,
\* its product with the rate by less than 1/3600 of a cent, and the exact pay is
\* no closer to a tie unless it is one.
LEMMA AmountExact ==
  ASSUME NEW s \in Nat, NEW r \in Nat, 1800 * r < DivScale
  PROVE  \/ Amount(s, r) = ExactPay(s, r)
         \/ Tie(s, r) /\ Amount(s, r) = ExactPay(s, r) - 1
<1>1. PICK D \in Nat \ {0} : D = DivScale
  BY PayAssumption
<1>2. PICK x \in Nat, y \in Nat, z \in Nat : x = s * D /\ y = s * r /\ z = D * y
  OBVIOUS
<1>3. x * r = z
  BY <1>2
<1>4. PICK q \in Nat : q = RoundDiv(x, 3600)
  BY RoundDivType
<1>5. 7200 * q <= 2 * x + 3600 /\ 2 * x + 3600 < 7200 * q + 7200
  <2>1. /\ 2 * (3600 * RoundDiv(x, 3600)) <= 2 * x + 3600
        /\ 2 * x + 3600 < 2 * (3600 * RoundDiv(x, 3600)) + 2 * 3600
    <3>1. 3600 \in Nat \ {0}
      OBVIOUS
    <3> QED
      BY <3>1, RoundDivBounds
  <2> QED
    BY <1>4, <2>1
<1>6. PICK w \in Nat : w = q * r
  OBVIOUS
<1>7. 7200 * w <= 2 * z + 3600 * r /\ 2 * z <= 7200 * w + 3600 * r
  <2>1. (7200 * q) * r <= (2 * x + 3600) * r /\ (2 * x + 3600) * r <= (7200 * q + 7200) * r
    BY <1>5
  <2>2. /\ (7200 * q) * r = 7200 * (q * r)
        /\ (2 * x + 3600) * r = 2 * (x * r) + 3600 * r
        /\ (7200 * q + 7200) * r = 7200 * (q * r) + 7200 * r
    OBVIOUS
  <2> QED
    BY <1>3, <1>6, <2>1, <2>2
<1>8. PICK A \in Nat : A = RoundDiv(w, D)
  BY RoundDivType
<1>9. PICK a \in Nat : a = D * A
  OBVIOUS
<1>10. 2 * a <= 2 * w + D /\ 2 * w + D < 2 * a + 2 * D
  BY <1>8, <1>9, RoundDivBounds
<1>11. PICK E \in Nat : E = RoundDiv(y, 3600)
  BY RoundDivType
<1>12. PICK e \in Nat : e = D * E
  OBVIOUS
<1>13. 7200 * E <= 2 * y + 3600 /\ 2 * y + 3600 < 7200 * E + 7200
  <2>1. /\ 2 * (3600 * RoundDiv(y, 3600)) <= 2 * y + 3600
        /\ 2 * y + 3600 < 2 * (3600 * RoundDiv(y, 3600)) + 2 * 3600
    <3>1. 3600 \in Nat \ {0}
      OBVIOUS
    <3> QED
      BY <3>1, RoundDivBounds
  <2> QED
    BY <1>11, <2>1
<1>14. PICK k \in 0..3599 : 2 * y + 3600 = 7200 * E + 2 * k
  <2>1. y + 1800 - 3600 * E \in 0..3599
    BY <1>13
  <2> QED
    BY <2>1
<1>15. PICK d \in Nat : d = D * k
  OBVIOUS
<1>16. 2 * z + 3600 * D = 7200 * e + 2 * d
  <2>1. D * (2 * y + 3600) = D * (7200 * E + 2 * k)
    BY <1>14
  <2>2. /\ D * (2 * y + 3600) = 2 * (D * y) + 3600 * D
        /\ D * (7200 * E + 2 * k) = 7200 * (D * E) + 2 * (D * k)
    OBVIOUS
  <2> QED
    BY <1>2, <1>12, <1>15, <2>1, <2>2
<1>17. d <= 3599 * D /\ (k >= 1 => d >= D) /\ (k = 0 => d = 0)
  BY <1>15
<1>18. 3600 * r < 2 * D
  BY <1>1
<1>19. a - e < D
  BY <1>7, <1>10, <1>16, <1>17, <1>18
<1>20. k >= 1 => a - e > -D
  BY <1>7, <1>10, <1>16, <1>17, <1>18
<1>21. k = 0 => a - e > -(2 * D)
  BY <1>7, <1>10, <1>16, <1>17, <1>18
<1>22. a - e = D * (A - E)
  BY <1>9, <1>12
<1>23. A <= E
  <2> SUFFICES ASSUME A - E >= 1 PROVE FALSE
    OBVIOUS
  <2>1. D * (A - E) >= D * 1
    OBVIOUS
  <2> QED
    BY <1>19, <1>22, <2>1
<1>24. k >= 1 => A >= E
  <2> SUFFICES ASSUME k >= 1, A - E <= -1 PROVE FALSE
    OBVIOUS
  <2>1. D * (A - E) <= D * (-1)
    OBVIOUS
  <2> QED
    BY <1>20, <1>22, <2>1
<1>25. A >= E - 1 \/ k >= 1
  <2> SUFFICES ASSUME k = 0, A - E <= -2 PROVE FALSE
    OBVIOUS
  <2>1. D * (A - E) <= D * (-2)
    OBVIOUS
  <2> QED
    BY <1>21, <1>22, <2>1
<1>26. Amount(s, r) = A /\ ExactPay(s, r) = E
  BY <1>1, <1>2, <1>4, <1>6, <1>8, <1>11 DEF Amount, ExactPay, HourSeconds
<1>27. k = 0 => Tie(s, r)
  <2> SUFFICES ASSUME k = 0 PROVE Tie(s, r)
    OBVIOUS
  <2>1. 2 * s * r = 2 * y
    BY <1>2
  <2>2. 2 * y = 7200 * (E - 1) + 3600
    BY <1>14
  <2>3. (2 * y) % 7200 = 3600
    BY <2>2
  <2> QED
    BY <2>1, <2>3 DEF Tie, HourSeconds
<1>28. A = E \/ (k = 0 /\ A = E - 1)
  <2>1. CASE k = 0
    <3>1. A >= E - 1
      BY <1>25, <2>1
    <3> QED
      BY <1>23, <2>1, <3>1
  <2>2. CASE k # 0
    <3>1. k >= 1
      BY <2>2
    <3> QED
      BY <1>23, <1>24, <3>1
  <2> QED
    BY <2>1, <2>2
<1> QED
  BY <1>26, <1>27, <1>28

-----------------------------------------------------------------------------
(* Days and instants.                                                      *)

\* What is known of a zone and of the length of a day.
LEMMA ZoneType ==
  ASSUME NEW z \in Zones
  PROVE  /\ Day \in Nat \ {0} /\ z.change \in Int
         /\ z.before \in 1 - Day..Day - 1 /\ z.after \in 1 - Day..Day - 1
BY ReportsAssumption

\* An instant at which the zone shows midnight of the day.
Midnight(z, d, m) == m \in Int /\ m + Offset(z, m) = d * Day

\* A midnight that comes exactly once is the only one of all instants.
LEMMA OnlyMidnight ==
  ASSUME NEW z \in Zones, NEW d \in Int, OneMidnight(z, d)
  PROVE  \E m : /\ Midnight(z, d, m)
                /\ \A n : Midnight(z, d, n) => n = m
<1> DEFINE Near == (d - 1) * Day..(d + 1) * Day
           M == {t \in Near : t + Offset(z, t) = d * Day}
<1>1. Day \in Nat \ {0}
  BY ZoneType
<1>2. PICK l \in Int : l = d * Day /\ (d - 1) * Day = l - Day /\ (d + 1) * Day = l + Day
  <2>1. (d - 1) * Day = d * Day - Day /\ (d + 1) * Day = d * Day + Day
    BY <1>1
  <2> QED
    BY <1>1, <2>1
<1>3. IsFiniteSet(Near)
  BY <1>1, <1>2, FS_Interval
<1>4. IsFiniteSet(M)
  BY <1>3, FS_Subset
<1>5. PICK m : M = {m}
  BY <1>4, FS_Singleton DEF OneMidnight
<1>6. m \in Near /\ Midnight(z, d, m)
  BY <1>1, <1>2, <1>5 DEF Midnight
<1>7. ASSUME NEW n, Midnight(z, d, n) PROVE n = m
  <2>1. n \in Int /\ n + Offset(z, n) = l /\ Offset(z, n) \in 1 - Day..Day - 1
    BY <1>2, <1>7, ZoneType DEF Midnight, Offset
  <2>2. n \in Near
    BY <1>1, <1>2, <2>1
  <2> QED
    BY <1>2, <1>5, <2>1, <2>2
<1> QED
  BY <1>6, <1>7

\* Where it comes exactly once, time.Date finds it, and it parts the instants
\* of the days before from those of the day and after.
LEMMA DateIsMidnight ==
  ASSUME NEW z \in Zones, NEW d \in Int, OneMidnight(z, d)
  PROVE  /\ Midnight(z, d, Date(z, d, 0))
         /\ \A t \in Int : t >= Date(z, d, 0) <=> LocalDay(z, t) >= d
<1>1. PICK m : Midnight(z, d, m) /\ \A n : Midnight(z, d, n) => n = m
  BY OnlyMidnight
<1>2. PICK l \in Int, c \in Int, b \in Int, a \in Int :
        l = d * Day /\ c = z.change /\ b = z.before /\ a = z.after
  BY ZoneType
<1>3. m \in Int /\ (m < c => m = l - b) /\ (m >= c => m = l - a)
  BY <1>1, <1>2 DEF Midnight, Offset
<1>4. l - b < c => m = l - b
  BY <1>1, <1>2 DEF Midnight, Offset
<1>5. l - a >= c => m = l - a
  <2> SUFFICES ASSUME l - a >= c PROVE Midnight(z, d, l - a)
    BY <1>1
  <2>1. Offset(z, l - a) = a
    BY <1>2 DEF Offset
  <2> QED
    BY <1>2, <2>1 DEF Midnight
<1>6. Date(z, d, 0) = m
  <2>1. l + 0 = l
    OBVIOUS
  <2>2. Date(z, d, 0) = l - Offset(z, l - Offset(z, l))
    BY <1>2, <2>1 DEF Date
  <2> QED
    BY <1>2, <1>3, <1>4, <1>5, <2>2 DEF Offset
<1>7. ASSUME NEW t \in Int PROVE t >= m <=> LocalDay(z, t) >= d
  <2>1. PICK u \in Int : u = t + Offset(z, t)
    BY <1>2 DEF Offset
  <2>2. t >= m <=> u >= l
    BY <1>2, <1>3, <1>4, <1>5, <2>1 DEF Offset
  <2>3. u \div Day >= d <=> u >= d * Day
    BY <2>1, ZoneType, DivAtLeast
  <2> QED
    BY <1>2, <2>1, <2>2, <2>3 DEF LocalDay
<1> QED
  BY <1>1, <1>6, <1>7

\* The day after a midnight that time.Date found is the next one's.
LEMMA NextDayIsDate ==
  ASSUME NEW z \in Zones, NEW d \in Int, Midnight(z, d, Date(z, d, 0))
  PROVE  NextDay(z, Date(z, d, 0)) = Date(z, d + 1, 0)
<1>1. PICK m \in Int : m = Date(z, d, 0) /\ m + Offset(z, m) = d * Day
  BY DEF Midnight
<1>2. PICK D \in Nat \ {0} : D = Day
  BY ZoneType
<1>3. (d * D) \div D = d /\ (d * D) % D = 0
  <2>1. PICK q \in Int : q = (d * D) \div D
    OBVIOUS
  <2>2. d * D >= d * D /\ ~(d * D >= (d + 1) * D)
    BY <1>2
  <2>3. q >= d /\ ~(q >= d + 1)
    BY <2>1, <2>2, DivAtLeast
  <2>4. q = d
    BY <2>3
  <2>5. d * D = D * q + ((d * D) % D)
    BY <2>1
  <2> QED
    BY <2>1, <2>4, <2>5
<1>4. LocalDay(z, m) = d /\ LocalClock(z, m) = 0
  BY <1>1, <1>2, <1>3 DEF LocalDay, LocalClock
<1> QED
  BY <1>1, <1>4 DEF NextDay

\* In any zone the instants between the two bounds are those of the days.
LEMMA PeriodIsItsDays ==
  ASSUME NEW z \in Zones, NEW from \in Int, NEW to \in Int, NEW t \in Int,
         \A d \in {from, to, to + 1} : OneMidnight(z, d)
  PROVE  (t >= ReportDay(z, from) /\ t < NextDay(z, ReportDay(z, to)))
           <=> LocalDay(z, t) \in from..to
<1>1. t >= Date(z, from, 0) <=> LocalDay(z, t) >= from
  BY DateIsMidnight
<1>2. to + 1 \in Int /\ OneMidnight(z, to + 1)
  OBVIOUS
<1>3. /\ Date(z, to + 1, 0) \in Int
      /\ t >= Date(z, to + 1, 0) <=> LocalDay(z, t) >= to + 1
  BY <1>2, DateIsMidnight DEF Midnight
<1>4. NextDay(z, Date(z, to, 0)) = Date(z, to + 1, 0)
  BY DateIsMidnight, NextDayIsDate
<1>5. LocalDay(z, t) \in Int
  BY ZoneType DEF LocalDay, Offset
<1> QED
  BY <1>1, <1>3, <1>4, <1>5 DEF ReportDay

-----------------------------------------------------------------------------
(* Sums.                                                                   *)

\* Numbers have a least one.
LEMMA LeastOf ==
  ASSUME NEW T \in SUBSET Nat, T # {}
  PROVE  \E n \in T : \A m \in T : n <= m
<1>1. PICK n \in T : \A m \in T : ~ (<<m, n>> \in OpToRel(<, Nat))
  BY NatLessThanWellFounded, WFMin
<1>2. \A m \in T : ~(m < n)
  BY <1>1 DEF OpToRel
<1> QED
  BY <1>2

\* Induction on a finite set: what the empty set has, and every subset has of
\* which the subsets with one element less have it, the set has.
LEMMA BySubsets ==
  ASSUME NEW S, IsFiniteSet(S), NEW Good, {} \in Good,
         \A T \in SUBSET S : T # {} /\ (\A x \in T : T \ {x} \in Good) => T \in Good
  PROVE  S \in Good
<1> SUFFICES ASSUME S \notin Good PROVE FALSE
  OBVIOUS
<1> DEFINE Bad == {n \in Nat : \E T \in SUBSET S : T \notin Good /\ Cardinality(T) = n}
<1>1. \A T \in SUBSET S : IsFiniteSet(T) /\ Cardinality(T) \in Nat
  BY FS_Subset, FS_CardinalityType
<1>2. Bad # {}
  BY <1>1
<1>3. PICK n \in Bad : \A m \in Bad : n <= m
  <2> HIDE DEF Bad
  <2>1. Bad \in SUBSET Nat
    BY DEF Bad
  <2> QED
    BY <1>2, <2>1, LeastOf
<1>4. PICK T \in SUBSET S : T \notin Good /\ Cardinality(T) = n
  BY <1>3
<1>5. ASSUME NEW x \in T PROVE T \ {x} \in Good
  <2>1. Cardinality(T \ {x}) = n - 1 /\ n - 1 \in Nat
    <3>1. Cardinality(T \ {x}) = n - 1
      BY <1>1, <1>4, FS_RemoveElement
    <3>2. Cardinality(T \ {x}) \in Nat
      BY <1>1
    <3> QED
      BY <3>1, <3>2
  <2>2. n - 1 \notin Bad
    BY <1>3, <2>1
  <2> QED
    BY <2>1, <2>2
<1> QED
  BY <1>4, <1>5

\* Sums over all subsets of S, each from the one with an element less.
Pick(T) == CHOOSE x \in T : TRUE

Sums(g, f, S) ==
  g = [T \in SUBSET S |-> IF T = {} THEN 0 ELSE f[Pick(T)] + g[T \ {Pick(T)}]]

\* A set that is not empty has the element picked.
LEMMA PickIn ==
  ASSUME NEW T, T # {}
  PROVE  Pick(T) \in T
BY DEF Pick

\* What SumFunctionOnSet is: one of its sums.
LEMMA SumDef ==
  ASSUME NEW f, NEW S
  PROVE  SumFunctionOnSet(f, S) = (CHOOSE g : Sums(g, f, S))[S]
BY DEF SumFunctionOnSet, FoldFunctionOnSet, MapThenFoldSet, Sums, Pick

\* Sums of the same subset are the same.
LEMMA SumsAgree ==
  ASSUME NEW f, NEW S, NEW T, NEW g, NEW h, Sums(g, f, S), Sums(h, f, T),
         NEW U, U \subseteq S, U \subseteq T, IsFiniteSet(U)
  PROVE  g[U] = h[U]
<1> DEFINE Good == {V \in SUBSET U : g[V] = h[V]}
<1>1. {} \in Good
  BY DEF Sums
<1>2. ASSUME NEW V \in SUBSET U, V # {}, \A x \in V : V \ {x} \in Good
      PROVE  V \in Good
  <2>1. g[V \ {Pick(V)}] = h[V \ {Pick(V)}]
    BY <1>2, PickIn
  <2>2. g[V] = f[Pick(V)] + g[V \ {Pick(V)}]
    BY <1>2 DEF Sums
  <2>3. h[V] = f[Pick(V)] + h[V \ {Pick(V)}]
    BY <1>2 DEF Sums
  <2> QED
    BY <2>1, <2>2, <2>3
<1>3. U \in Good
  <2> HIDE DEF Good
  <2> QED
    BY <1>1, <1>2, BySubsets
<1> QED
  BY <1>3

\* There are such sums: those of the sets with an element less are put together.
LEMMA SumsExist ==
  ASSUME NEW f, NEW S, IsFiniteSet(S)
  PROVE  \E g : Sums(g, f, S)
<1> DEFINE Good == {T \in SUBSET S : \E g : Sums(g, f, T)}
<1>1. {} \in Good
  <2> DEFINE g == [T \in {{}} |-> 0]
  <2>1. Sums(g, f, {})
    <3>1. SUBSET {} = {{}}
      OBVIOUS
    <3> QED
      BY <3>1 DEF Sums
  <2> QED
    BY <2>1
<1>2. ASSUME NEW T \in SUBSET S, T # {}, \A x \in T : T \ {x} \in Good
      PROVE  T \in Good
  <2> DEFINE G(y) == CHOOSE g : Sums(g, f, T \ {y})
             g == [U \in SUBSET T |->
                     IF U = T THEN f[Pick(T)] + G(Pick(T))[T \ {Pick(T)}]
                     ELSE G(Pick(T \ U))[U]]
  <2>1. \A y \in T : Sums(G(y), f, T \ {y})
    BY <1>2
  <2>2. \A U \in SUBSET T : IsFiniteSet(U)
    BY FS_Subset
  <2> HIDE DEF G
  <2>3. ASSUME NEW U \in SUBSET T, NEW y \in T \ U PROVE g[U] = G(y)[U]
    <3>1. Pick(T \ U) \in T \ U
      BY <2>3, PickIn
    <3>2. U \subseteq T \ {y} /\ U \subseteq T \ {Pick(T \ U)} /\ IsFiniteSet(U)
      BY <2>2, <3>1
    <3>3. Sums(G(y), f, T \ {y}) /\ Sums(G(Pick(T \ U)), f, T \ {Pick(T \ U)})
      BY <2>1, <3>1
    <3>4. PICK a, b, A, B : /\ a = G(y) /\ A = T \ {y}
                            /\ b = G(Pick(T \ U)) /\ B = T \ {Pick(T \ U)}
      OBVIOUS
    <3>5. Sums(a, f, A) /\ Sums(b, f, B) /\ U \subseteq A /\ U \subseteq B /\ IsFiniteSet(U)
      BY <3>2, <3>3, <3>4
    <3>6. a[U] = b[U]
      BY <3>5, SumsAgree
    <3> QED
      BY <3>4, <3>6
  <2>4. g[{}] = 0
    <3>1. PICK y : y \in T
      BY <1>2
    <3>2. {} \in SUBSET T /\ {} \in SUBSET (T \ {y}) /\ y \in T \ {}
      BY <3>1
    <3>3. g[{}] = G(y)[{}]
      BY <2>3, <3>2
    <3>4. G(y)[{}] = 0
      BY <2>1, <3>1, <3>2 DEF Sums
    <3> QED
      BY <3>3, <3>4
  <2>5. g[T] = f[Pick(T)] + g[T \ {Pick(T)}]
    <3>1. Pick(T) \in T
      BY <1>2, PickIn
    <3>2. g[T \ {Pick(T)}] = G(Pick(T))[T \ {Pick(T)}]
      BY <2>3, <3>1
    <3> QED
      BY <3>2
  <2>6. ASSUME NEW U \in SUBSET T, U # {}, U # T
        PROVE  g[U] = f[Pick(U)] + g[U \ {Pick(U)}]
    <3>1. PICK y : y \in T \ U
      BY <2>6
    <3>2. /\ U \in SUBSET (T \ {y})
          /\ U \ {Pick(U)} \in SUBSET T /\ y \in T \ (U \ {Pick(U)})
      BY <3>1
    <3>3. g[U] = G(y)[U]
      BY <2>3, <3>1
    <3>4. g[U \ {Pick(U)}] = G(y)[U \ {Pick(U)}]
      BY <2>3, <3>2
    <3>5. G(y)[U] = f[Pick(U)] + G(y)[U \ {Pick(U)}]
      BY <2>1, <2>6, <3>1, <3>2 DEF Sums
    <3> QED
      BY <3>3, <3>4, <3>5
  <2>7. g = [U \in SUBSET T |-> g[U]]
    OBVIOUS
  <2> HIDE DEF g
  <2>8. \A U \in SUBSET T : g[U] = IF U = {} THEN 0 ELSE f[Pick(U)] + g[U \ {Pick(U)}]
    BY <2>4, <2>5, <2>6
  <2>9. Sums(g, f, T)
    BY <2>7, <2>8 DEF Sums
  <2> QED
    BY <2>9
<1> HIDE DEF Good
<1>3. S \in Good
  BY <1>1, <1>2, BySubsets
<1> QED
  BY <1>3 DEF Good

\* What a sum is made of, whatever element is picked.
LEMMA SumOfEmpty ==
  ASSUME NEW f
  PROVE  SumFunctionOnSet(f, {}) = 0
<1> DEFINE g == CHOOSE g : Sums(g, f, {})
<1>1. Sums(g, f, {})
  BY SumsExist, FS_EmptySet
<1> HIDE DEF g
<1>2. g[{}] = 0
  BY <1>1 DEF Sums
<1> QED
  BY <1>2, SumDef DEF g

\* The element picked, and the others.
LEMMA SumPicks ==
  ASSUME NEW f, NEW S, IsFiniteSet(S), S # {}
  PROVE  SumFunctionOnSet(f, S) = f[Pick(S)] + SumFunctionOnSet(f, S \ {Pick(S)})
<1> DEFINE R == S \ {Pick(S)}
           g == CHOOSE g : Sums(g, f, S)
           h == CHOOSE h : Sums(h, f, R)
<1>1. IsFiniteSet(R) /\ R \subseteq S
  BY FS_Subset
<1>2. Sums(g, f, S) /\ Sums(h, f, R)
  BY <1>1, SumsExist
<1>3. SumFunctionOnSet(f, S) = g[S] /\ SumFunctionOnSet(f, R) = h[R]
  BY SumDef
<1> HIDE DEF g, h
<1>4. g[S] = f[Pick(S)] + g[R]
  BY <1>2 DEF Sums
<1>5. g[R] = h[R]
  BY <1>1, <1>2, SumsAgree
<1> QED
  BY <1>3, <1>4, <1>5

\* A sum of natural numbers.
LEMMA SumIsNat ==
  ASSUME NEW S, IsFiniteSet(S), NEW f, \A x \in S : f[x] \in Nat
  PROVE  SumFunctionOnSet(f, S) \in Nat
<1> DEFINE Good == {T \in SUBSET S : SumFunctionOnSet(f, T) \in Nat}
<1>1. {} \in Good
  BY SumOfEmpty
<1>2. ASSUME NEW T \in SUBSET S, T # {}, \A x \in T : T \ {x} \in Good
      PROVE  T \in Good
  <2>1. SumFunctionOnSet(f, T) = f[Pick(T)] + SumFunctionOnSet(f, T \ {Pick(T)})
    BY <1>2, FS_Subset, SumPicks
  <2>2. f[Pick(T)] \in Nat /\ SumFunctionOnSet(f, T \ {Pick(T)}) \in Nat
    BY <1>2, PickIn
  <2> QED
    BY <2>1, <2>2
<1> HIDE DEF Good
<1>3. S \in Good
  BY <1>1, <1>2, BySubsets
<1> QED
  BY <1>3 DEF Good

\* A sum depends on the values of the set alone.
LEMMA SumSame ==
  ASSUME NEW S, IsFiniteSet(S), NEW f, NEW g, \A x \in S : f[x] = g[x]
  PROVE  SumFunctionOnSet(f, S) = SumFunctionOnSet(g, S)
<1> DEFINE Good == {T \in SUBSET S : SumFunctionOnSet(f, T) = SumFunctionOnSet(g, T)}
<1>1. {} \in Good
  BY SumOfEmpty
<1>2. ASSUME NEW T \in SUBSET S, T # {}, \A x \in T : T \ {x} \in Good
      PROVE  T \in Good
  <2>1. /\ SumFunctionOnSet(f, T) = f[Pick(T)] + SumFunctionOnSet(f, T \ {Pick(T)})
        /\ SumFunctionOnSet(g, T) = g[Pick(T)] + SumFunctionOnSet(g, T \ {Pick(T)})
    BY <1>2, FS_Subset, SumPicks
  <2>2. /\ f[Pick(T)] = g[Pick(T)]
        /\ SumFunctionOnSet(f, T \ {Pick(T)}) = SumFunctionOnSet(g, T \ {Pick(T)})
    BY <1>2, PickIn
  <2> QED
    BY <2>1, <2>2
<1> HIDE DEF Good
<1>3. S \in Good
  BY <1>1, <1>2, BySubsets
<1> QED
  BY <1>3 DEF Good

\* Any element may be taken out first.
LEMMA SumTakes ==
  ASSUME NEW S, IsFiniteSet(S), NEW f, \A x \in S : f[x] \in Nat, NEW x \in S
  PROVE  SumFunctionOnSet(f, S) = f[x] + SumFunctionOnSet(f, S \ {x})
<1> DEFINE Good == {T \in SUBSET S : \A y \in T :
                      SumFunctionOnSet(f, T) = f[y] + SumFunctionOnSet(f, T \ {y})}
<1>1. {} \in Good
  OBVIOUS
<1>2. ASSUME NEW T \in SUBSET S, T # {}, \A y \in T : T \ {y} \in Good
      PROVE  T \in Good
  <2> SUFFICES ASSUME NEW y \in T
               PROVE  SumFunctionOnSet(f, T) = f[y] + SumFunctionOnSet(f, T \ {y})
    OBVIOUS
  <2>1. PICK c : c = Pick(T) /\ c \in T
    BY <1>2, PickIn
  <2>2. SumFunctionOnSet(f, T) = f[c] + SumFunctionOnSet(f, T \ {c})
    BY <1>2, <2>1, FS_Subset, SumPicks
  <2>3. CASE y = c
    BY <2>2, <2>3
  <2>4. CASE y # c
    <3>1. SumFunctionOnSet(f, T \ {c}) = f[y] + SumFunctionOnSet(f, (T \ {c}) \ {y})
      BY <1>2, <2>1, <2>4
    <3>2. SumFunctionOnSet(f, T \ {y}) = f[c] + SumFunctionOnSet(f, (T \ {y}) \ {c})
      BY <1>2, <2>1, <2>4
    <3>3. (T \ {y}) \ {c} = (T \ {c}) \ {y}
      OBVIOUS
    <3>4. PICK rest \in Nat : rest = SumFunctionOnSet(f, (T \ {c}) \ {y})
      <4>1. IsFiniteSet((T \ {c}) \ {y}) /\ \A z \in (T \ {c}) \ {y} : f[z] \in Nat
        BY FS_Subset
      <4> QED
        BY <4>1, SumIsNat
    <3>5. f[c] \in Nat /\ f[y] \in Nat
      BY <2>1
    <3> QED
      BY <2>2, <3>1, <3>2, <3>3, <3>4, <3>5
  <2> QED
    BY <2>3, <2>4
<1> HIDE DEF Good
<1>3. S \in Good
  BY <1>1, <1>2, BySubsets
<1> QED
  BY <1>3 DEF Good

\* Nothing adds up to nothing.
LEMMA SumOfZeros ==
  ASSUME NEW S, IsFiniteSet(S), NEW f, \A x \in S : f[x] = 0
  PROVE  SumFunctionOnSet(f, S) = 0
<1> DEFINE Good == {T \in SUBSET S : SumFunctionOnSet(f, T) = 0}
<1>1. {} \in Good
  BY SumOfEmpty
<1>2. ASSUME NEW T \in SUBSET S, T # {}, \A x \in T : T \ {x} \in Good
      PROVE  T \in Good
  <2>1. SumFunctionOnSet(f, T) = f[Pick(T)] + SumFunctionOnSet(f, T \ {Pick(T)})
    BY <1>2, FS_Subset, SumPicks
  <2>2. f[Pick(T)] = 0 /\ SumFunctionOnSet(f, T \ {Pick(T)}) = 0
    BY <1>2, PickIn
  <2> QED
    BY <2>1, <2>2
<1> HIDE DEF Good
<1>3. S \in Good
  BY <1>1, <1>2, BySubsets
<1> QED
  BY <1>3 DEF Good

\* A sum of ones counts.
LEMMA SumCounts ==
  ASSUME NEW S, IsFiniteSet(S), NEW f, \A x \in S : f[x] = 1
  PROVE  SumFunctionOnSet(f, S) = Cardinality(S)
<1> DEFINE Good == {T \in SUBSET S : SumFunctionOnSet(f, T) = Cardinality(T)}
<1>1. {} \in Good
  BY SumOfEmpty, FS_EmptySet
<1>2. ASSUME NEW T \in SUBSET S, T # {}, \A x \in T : T \ {x} \in Good
      PROVE  T \in Good
  <2>1. PICK x : x = Pick(T) /\ x \in T
    BY <1>2, PickIn
  <2>2. IsFiniteSet(T) /\ Cardinality(T) \in Nat
    BY FS_Subset, FS_CardinalityType
  <2>3. SumFunctionOnSet(f, T) = f[x] + SumFunctionOnSet(f, T \ {x})
    BY <1>2, <2>1, <2>2, SumPicks
  <2>4. Cardinality(T \ {x}) = Cardinality(T) - 1
    BY <2>1, <2>2, FS_RemoveElement
  <2>5. f[x] = 1 /\ SumFunctionOnSet(f, T \ {x}) = Cardinality(T \ {x})
    BY <1>2, <2>1
  <2>6. SumFunctionOnSet(f, T) = Cardinality(T)
    BY <2>2, <2>3, <2>4, <2>5
  <2> QED
    BY <2>6
<1> HIDE DEF Good
<1>3. S \in Good
  BY <1>1, <1>2, BySubsets
<1> QED
  BY <1>3 DEF Good

\* The groups of GROUP BY k: their sums make up the sum of all.
Groups(f, k, S, W) == [w \in W |-> SumFunctionOnSet(f, {x \in S : k[x] = w})]

LEMMA SumByGroups ==
  ASSUME NEW S, IsFiniteSet(S), NEW f, \A x \in S : f[x] \in Nat,
         NEW W, IsFiniteSet(W), NEW k, \A x \in S : k[x] \in W
  PROVE  SumFunctionOnSet(Groups(f, k, S, W), W) = SumFunctionOnSet(f, S)
<1> DEFINE Good == {T \in SUBSET S :
                      SumFunctionOnSet(Groups(f, k, T, W), W) = SumFunctionOnSet(f, T)}
<1>1. {} \in Good
  <2>1. PICK g : g = Groups(f, k, {}, W)
    OBVIOUS
  <2>2. \A w \in W : g[w] = 0
    <3>1. \A w : {x \in {} : k[x] = w} = {}
      OBVIOUS
    <3> QED
      BY <2>1, <3>1, SumOfEmpty DEF Groups
  <2>3. SumFunctionOnSet(g, W) = 0
    BY <2>2, SumOfZeros
  <2> QED
    BY <2>1, <2>3, SumOfEmpty
<1>2. ASSUME NEW T \in SUBSET S, T # {}, \A x \in T : T \ {x} \in Good
      PROVE  T \in Good
  <2>1. PICK x : x \in T
    BY <1>2
  <2>2. PICK g, h, v : g = Groups(f, k, T, W) /\ h = Groups(f, k, T \ {x}, W) /\ v = k[x]
    OBVIOUS
  <2>3. v \in W
    BY <2>1, <2>2
  <2>4. \A U \in SUBSET S : IsFiniteSet(U) /\ SumFunctionOnSet(f, U) \in Nat
    BY FS_Subset, SumIsNat
  <2>5. \A w \in W : g[w] \in Nat /\ h[w] \in Nat
    BY <2>2, <2>4 DEF Groups
  <2>6. \A w \in W \ {v} : g[w] = h[w]
    <3>1. \A w \in W \ {v} : {y \in T : k[y] = w} = {y \in T \ {x} : k[y] = w}
      BY <2>2
    <3> QED
      BY <2>2, <3>1 DEF Groups
  <2>7. g[v] = f[x] + h[v]
    <3>1. PICK A : A = {y \in T : k[y] = v} /\ A \in SUBSET S
      OBVIOUS
    <3>2. x \in A /\ {y \in T \ {x} : k[y] = v} = A \ {x}
      BY <2>1, <2>2, <3>1
    <3>3. SumFunctionOnSet(f, A) = f[x] + SumFunctionOnSet(f, A \ {x})
      BY <2>4, <3>1, <3>2, SumTakes
    <3> QED
      BY <2>2, <2>3, <3>1, <3>2, <3>3 DEF Groups
  <2>8. IsFiniteSet(W \ {v})
    BY FS_Subset
  <2>9. SumFunctionOnSet(g, W) = g[v] + SumFunctionOnSet(g, W \ {v})
    BY <2>3, <2>5, SumTakes
  <2>10. SumFunctionOnSet(h, W) = h[v] + SumFunctionOnSet(h, W \ {v})
    BY <2>3, <2>5, SumTakes
  <2>11. SumFunctionOnSet(g, W \ {v}) = SumFunctionOnSet(h, W \ {v})
    BY <2>6, <2>8, SumSame
  <2>12. SumFunctionOnSet(h, W \ {v}) \in Nat
    BY <2>5, <2>8, SumIsNat
  <2>13. SumFunctionOnSet(h, W) = SumFunctionOnSet(f, T \ {x})
    BY <1>2, <2>1, <2>2
  <2>14. SumFunctionOnSet(f, T) = f[x] + SumFunctionOnSet(f, T \ {x})
    BY <2>1, <2>4, SumTakes
  <2>15. f[x] \in Nat /\ h[v] \in Nat
    BY <2>1, <2>3, <2>5
  <2>16. SumFunctionOnSet(g, W) = SumFunctionOnSet(f, T)
    BY <2>7, <2>9, <2>10, <2>11, <2>12, <2>13, <2>14, <2>15
  <2> QED
    BY <2>2, <2>16
<1> HIDE DEF Good
<1>3. S \in Good
  BY <1>1, <1>2, BySubsets
<1> QED
  BY <1>3 DEF Good

-----------------------------------------------------------------------------
(* Figures.                                                                *)

\* The values that a total adds up.
Known(f) == [x \in DOMAIN f |-> IF f[x] = NULL THEN 0 ELSE f[x]]

Totals(f, S) == DOMAIN f = S /\ \A x \in S : f[x] \in Nat \cup {NULL}

\* They are natural numbers.
LEMMA KnownType ==
  ASSUME NEW S, NEW f, Totals(f, S)
  PROVE  /\ DOMAIN Known(f) = S
         /\ \A x \in S : Known(f)[x] \in Nat
         /\ \A x \in S : f[x] \in Nat => Known(f)[x] = f[x]
BY DEF Known, Totals, NULL

\* So are totals.
LEMMA TotalType ==
  ASSUME NEW S, IsFiniteSet(S), NEW f, Totals(f, S)
  PROVE  Total(f) = SumFunctionOnSet(Known(f), S) /\ Total(f) \in Nat
<1>1. PICK g : g = Known(f)
  OBVIOUS
<1>2. DOMAIN g = S /\ \A x \in S : g[x] \in Nat
  BY <1>1, KnownType
<1>3. Total(f) = SumFunctionOnSet(g, S)
  BY <1>1, <1>2 DEF Total, SumFunction, Known
<1> QED
  BY <1>1, <1>2, <1>3, SumIsNat

\* A total of some of the values.
LEMMA TotalOfSome ==
  ASSUME NEW S, IsFiniteSet(S), NEW f, Totals(f, S), NEW G \in SUBSET S
  PROVE  Total([x \in G |-> f[x]]) = SumFunctionOnSet(Known(f), G)
<1>1. PICK e : e = [x \in G |-> f[x]]
  OBVIOUS
<1>2. IsFiniteSet(G)
  BY FS_Subset
<1>3. Totals(e, G)
  BY <1>1 DEF Totals
<1>4. PICK d, g : d = Known(e) /\ g = Known(f)
  OBVIOUS
<1>5. \A x \in G : d[x] = g[x]
  BY <1>1, <1>4 DEF Known, Totals
<1>6. SumFunctionOnSet(d, G) = SumFunctionOnSet(g, G)
  BY <1>2, <1>5, SumSame
<1>7. Total(e) = SumFunctionOnSet(d, G)
  BY <1>2, <1>3, <1>4, TotalType
<1> QED
  BY <1>1, <1>4, <1>6, <1>7

\* Totals of groups make up the total.
LEMMA TotalByGroups ==
  ASSUME NEW S, IsFiniteSet(S), NEW f, Totals(f, S),
         NEW W, IsFiniteSet(W), NEW k, \A x \in S : k[x] \in W,
         NEW h, DOMAIN h = W,
         \A w \in W : h[w] = Total([x \in {y \in S : k[y] = w} |-> f[x]])
  PROVE  Total(h) = Total(f)
<1>1. PICK g, sums, d : g = Known(f) /\ sums = Groups(g, k, S, W) /\ d = Known(h)
  OBVIOUS
<1>2. \A x \in S : g[x] \in Nat
  BY <1>1, KnownType
<1>3. ASSUME NEW w \in W PROVE h[w] = sums[w] /\ h[w] \in Nat
  <2>1. PICK G \in SUBSET S : G = {y \in S : k[y] = w}
    OBVIOUS
  <2>2. h[w] = Total([x \in G |-> f[x]])
    BY <2>1
  <2>3. h[w] = SumFunctionOnSet(g, G)
    BY <1>1, <2>2, TotalOfSome
  <2>4. sums[w] = SumFunctionOnSet(g, G)
    BY <1>1, <2>1 DEF Groups
  <2>5. SumFunctionOnSet(g, G) \in Nat
    BY <1>2, FS_Subset, SumIsNat
  <2> QED
    BY <2>3, <2>4, <2>5
<1>4. Totals(h, W)
  BY <1>3 DEF Totals
<1>5. \A w \in W : d[w] = sums[w]
  BY <1>1, <1>3, <1>4, KnownType
<1>6. Total(h) = SumFunctionOnSet(sums, W)
  BY <1>1, <1>4, <1>5, TotalType, SumSame
<1>7. Total(f) = SumFunctionOnSet(g, S)
  BY <1>1, TotalType
<1>8. SumFunctionOnSet(sums, W) = SumFunctionOnSet(g, S)
  BY <1>1, <1>2, SumByGroups
<1> QED
  BY <1>6, <1>7, <1>8

\* A total of ones counts.
LEMMA TotalCounts ==
  ASSUME NEW S, IsFiniteSet(S), NEW f, DOMAIN f = S, \A x \in S : f[x] = 1
  PROVE  Totals(f, S) /\ Total(f) = Cardinality(S)
<1>1. Totals(f, S)
  BY DEF Totals
<1>2. PICK g : g = Known(f)
  OBVIOUS
<1>3. \A x \in S : g[x] = 1
  BY <1>1, <1>2, KnownType
<1>4. SumFunctionOnSet(g, S) = Cardinality(S)
  BY <1>3, SumCounts
<1> QED
  BY <1>1, <1>2, <1>4, TotalType

\* What is known of the rows.
LEMMA RowTypes ==
  ASSUME att \in Seq(Row)
  PROVE  /\ IsFiniteSet(Rows)
         /\ \A i \in Rows : /\ att[i] \in Row
                            /\ att[i].worked \in Nat \cup {NULL}
                            /\ att[i].amount \in Nat \cup {NULL}
<1>1. Len(att) \in Nat
  BY LenProperties
<1>2. IsFiniteSet(Rows)
  BY <1>1, FS_Interval DEF Rows
<1>3. \A i \in Rows : att[i] \in Row
  BY ElementOfSeq DEF Rows
<1> QED
  BY <1>2, <1>3, ReportsAssumption DEF Row

\* Figures are natural numbers.
LEMMA FiguresType ==
  ASSUME att \in Seq(Row), NEW S \in SUBSET Rows
  PROVE  IsFiniteSet(S) /\ Figures(S) \in Figure
<1>1. IsFiniteSet(S)
  BY RowTypes, FS_Subset
<1>2. PICK f, g : f = [i \in S |-> att[i].worked] /\ g = [i \in S |-> att[i].amount]
  OBVIOUS
<1>3. Totals(f, S) /\ Totals(g, S)
  BY <1>2, RowTypes DEF Totals
<1>4. Total(f) \in Nat /\ Total(g) \in Nat /\ Cardinality(S) \in Nat
  BY <1>1, <1>3, TotalType, FS_CardinalityType
<1> QED
  BY <1>1, <1>2, <1>4 DEF Figures, Figure

\* Figures of groups of rows make up the figures of the rows.
LEMMA FiguresByGroups ==
  ASSUME att \in Seq(Row), NEW S \in SUBSET Rows, NEW k,
         NEW h, DOMAIN h = {k[i] : i \in S},
         \A w \in DOMAIN h : h[w] = Figures({i \in S : k[i] = w})
  PROVE  SumOf(h) = Figures(S)
<1>1. PICK W : W = DOMAIN h /\ W = {k[i] : i \in S}
  OBVIOUS
<1>2. IsFiniteSet(S)
  BY FiguresType
<1>3. IsFiniteSet(W) /\ \A i \in S : k[i] \in W
  <2>1. [i \in S |-> k[i]] \in Surjection(S, W)
    BY <1>1 DEF Surjection
  <2> QED
    BY <1>1, <1>2, <2>1, FS_Surjection
<1>4. PICK one, f, g : /\ one = [i \in S |-> 1]
                       /\ f = [i \in S |-> att[i].worked]
                       /\ g = [i \in S |-> att[i].amount]
  OBVIOUS
<1>5. PICK n, s, p : /\ n = [w \in W |-> h[w].sessions]
                     /\ s = [w \in W |-> h[w].worked]
                     /\ p = [w \in W |-> h[w].pay]
  OBVIOUS
<1>6. DOMAIN one = S /\ (\A i \in S : one[i] = 1) /\ Totals(f, S) /\ Totals(g, S)
  BY <1>4, RowTypes DEF Totals
<1>7. Totals(one, S) /\ Total(one) = Cardinality(S)
  BY <1>2, <1>6, TotalCounts
<1>8. ASSUME NEW w \in W
      PROVE  /\ n[w] = Total([i \in {j \in S : k[j] = w} |-> one[i]])
             /\ s[w] = Total([i \in {j \in S : k[j] = w} |-> f[i]])
             /\ p[w] = Total([i \in {j \in S : k[j] = w} |-> g[i]])
  <2>1. PICK G \in SUBSET S : G = {i \in S : k[i] = w}
    OBVIOUS
  <2>2. h[w] = Figures(G)
    BY <1>1, <2>1
  <2>3. n[w] = Cardinality(G)
    BY <1>5, <2>2 DEF Figures
  <2>4. Total([i \in G |-> one[i]]) = Cardinality(G)
    <3>1. PICK e : e = [i \in G |-> one[i]]
      OBVIOUS
    <3>2. DOMAIN e = G /\ \A i \in G : e[i] = 1
      BY <1>6, <3>1
    <3>3. IsFiniteSet(G)
      BY <1>2, FS_Subset
    <3> QED
      BY <3>1, <3>2, <3>3, TotalCounts
  <2>5. [i \in G |-> f[i]] = [i \in G |-> att[i].worked]
    BY <1>4
  <2>6. [i \in G |-> g[i]] = [i \in G |-> att[i].amount]
    BY <1>4
  <2>7. s[w] = Total([i \in G |-> f[i]]) /\ p[w] = Total([i \in G |-> g[i]])
    BY <1>5, <2>2, <2>5, <2>6 DEF Figures
  <2> QED
    BY <2>1, <2>3, <2>4, <2>7
<1>9. DOMAIN n = W /\ DOMAIN s = W /\ DOMAIN p = W
  BY <1>5
<1>10. Total(n) = Total(one)
  <2>1. \A w \in W : n[w] = Total([x \in {y \in S : k[y] = w} |-> one[x]])
    BY <1>8
  <2>2. Totals(one, S) /\ DOMAIN n = W
    BY <1>7, <1>9
  <2> QED
    BY <1>2, <1>3, <2>1, <2>2, TotalByGroups
<1>11. Total(s) = Total(f)
  <2>1. \A w \in W : s[w] = Total([x \in {y \in S : k[y] = w} |-> f[x]])
    BY <1>8
  <2>2. Totals(f, S) /\ DOMAIN s = W
    BY <1>6, <1>9
  <2> QED
    BY <1>2, <1>3, <2>1, <2>2, TotalByGroups
<1>12. Total(p) = Total(g)
  <2>1. \A w \in W : p[w] = Total([x \in {y \in S : k[y] = w} |-> g[x]])
    BY <1>8
  <2>2. Totals(g, S) /\ DOMAIN p = W
    BY <1>6, <1>9
  <2> QED
    BY <1>2, <1>3, <2>1, <2>2, TotalByGroups
<1>13. SumOf(h) = [sessions |-> Total(n), worked |-> Total(s), pay |-> Total(p)]
  BY <1>1, <1>5 DEF SumOf
<1>14. Figures(S) = [sessions |-> Cardinality(S), worked |-> Total(f), pay |-> Total(g)]
  BY <1>4 DEF Figures
<1> QED
  BY <1>7, <1>10, <1>11, <1>12, <1>13, <1>14

\* A working time settles a row.
LEMMA SettledType ==
  ASSUME NEW r \in Row, NEW s \in Worked, NEW status \in Statuses
  PROVE  Settled(r, s, status) \in Row
<1>1. s \in Nat /\ r.rate \in Nat
  BY ReportsAssumption DEF Row
<1>2. Amount(s, r.rate) \in Nat
  BY <1>1, AmountType
<1> QED
  BY <1>2 DEF Settled, Row

-----------------------------------------------------------------------------
(* The invariant.                                                          *)

Asked == {"pc", "from", "to", "worker", "status", "gap"}

\* The parts that a report has got, by the query it comes to next.
Parts == [none |-> {}, records |-> {}, totals |-> {"records"},
          workers |-> {"records", "totals"}, rates |-> {"records", "totals", "workers"}]

\* What a report consists of.
ReportOK ==
  /\ "pc" \in DOMAIN report
  /\ report.pc \in Queries \cup {"none", "done"}
  /\ report.pc \in Queries => DOMAIN report = Asked \cup Parts[report.pc]
  /\ report.pc = "done" =>
       DOMAIN report = Asked \cup {"records"} \/ DOMAIN report = Asked \cup Queries
  /\ report.pc = "none" => DOMAIN report = {"pc"}
  /\ report.pc # "none" => report.gap \in [Queries -> Nat]
  /\ report.pc = "records" =>
       report.from \in Nat \cup {NULL} /\ report.to \in Nat \cup {NULL}
  /\ "records" \in DOMAIN report => report.records \in Figure
  /\ "totals" \in DOMAIN report => report.totals \in Figure
  /\ "workers" \in DOMAIN report => \A w \in DOMAIN report.workers : report.workers[w] \in Figure
  /\ "rates" \in DOMAIN report => DOMAIN report.rates = DOMAIN report.workers

OfWorker(w) == {i \in Selected : att[i].worker = w}

\* The last part differs from what the table would now give by the transactions
\* that have committed since.
SinceLast ==
  /\ report.pc = "totals" => Apart(report.records, Figures(Selected), commits)
  /\ report.pc = "workers" => Apart(report.totals, Figures(Selected), commits)
  /\ report.pc = "rates" =>
       \A w \in DOMAIN report.workers : Apart(report.workers[w], Figures(OfWorker(w)), commits)

ReportsInv ==
  /\ att \in Seq(Row)
  /\ commits \in 0..MaxCommits
  /\ ReportOK
  /\ PartsAgree
  /\ SinceLast

-----------------------------------------------------------------------------
(* Queries.                                                                *)

\* What is selected is rows, of every worker.
LEMMA SelectedRows ==
  /\ Selected \in SUBSET Rows
  /\ \A w : OfWorker(w) \in SUBSET Rows
BY DEF Selected, OfWorker

\* A query adds its part to the report, counts the transactions before it, and
\* selects as those before.
LEMMA ReadStep ==
  ASSUME ReportsInv, NEW q \in Queries, NEW part, NEW next, Read(q, part, next),
         DOMAIN report = Asked \cup Parts[q]
  PROVE  /\ DOMAIN report' = DOMAIN report \cup {q}
         /\ report'.pc = next
         /\ report'.gap = [report.gap EXCEPT ![q] = commits]
         /\ report'[q] = part
         /\ \A x \in DOMAIN report \ {"pc", "gap", q} : report'[x] = report[x]
         /\ UNCHANGED att /\ commits' = 0
         /\ UNCHANGED Selected
<1> DEFINE past == [report EXCEPT !.pc = next, !.gap[q] = commits]
<1>1. report' = [x \in DOMAIN report \cup {q} |-> IF x = q THEN part ELSE past[x]]
  BY DEF Read
<1>2. UNCHANGED att /\ commits' = 0
  BY DEF Read
<1>3. {"pc", "gap", "from", "to", "worker", "status"} \subseteq DOMAIN report
  BY DEF Asked
<1>4. q \notin {"pc", "gap", "from", "to", "worker", "status"}
  BY DEF Queries
<1>5. /\ past["pc"] = next /\ past["gap"] = [report.gap EXCEPT ![q] = commits]
      /\ \A x \in DOMAIN report \ {"pc", "gap"} : past[x] = report[x]
  BY <1>3
<1> HIDE DEF past
<1>6. /\ DOMAIN report' = DOMAIN report \cup {q}
      /\ report'["pc"] = next
      /\ report'["gap"] = [report.gap EXCEPT ![q] = commits]
      /\ report'[q] = part
      /\ \A x \in DOMAIN report \ {"pc", "gap", q} : report'[x] = report[x]
  BY <1>1, <1>3, <1>4, <1>5
<1>7. /\ report'.from = report.from /\ report'.to = report.to
      /\ report'.worker = report.worker /\ report'.status = report.status
  BY <1>3, <1>4, <1>6
<1>8. UNCHANGED Selected
  BY <1>2, <1>7 DEF Selected, Rows, Matches, InPeriod
<1> QED
  BY <1>2, <1>6, <1>8

\* A part and itself.
LEMMA ApartSame ==
  ASSUME NEW f \in Figure
  PROVE  Apart(f, f, 0)
<1>1. f.sessions \in Nat
  BY DEF Figure
<1>2. f.sessions - f.sessions \in (-0)..0
  BY <1>1
<1> QED
  BY <1>2 DEF Apart

\* The records.
LEMMA LoadRecordsKeeps ==
  ASSUME ReportsInv, LoadRecords
  PROVE  ReportsInv'
<1>1. PICK next \in {"totals", "done"} : Read("records", Figures(Selected), next)
  BY DEF LoadRecords
<1>2. DOMAIN report = Asked /\ report.pc = "records" /\ DOMAIN report = Asked \cup Parts["records"]
  BY <1>1 DEF Read, ReportsInv, ReportOK, Queries, Parts
<1>3. "records" \in Queries
  BY DEF Queries
<1>4. /\ DOMAIN report' = Asked \cup {"records"}
      /\ report'.pc = next
      /\ report'.gap = [report.gap EXCEPT !["records"] = commits]
      /\ report'.records = Figures(Selected)
      /\ UNCHANGED att /\ commits' = 0 /\ UNCHANGED Selected
  BY <1>1, <1>2, <1>3, ReadStep
<1>5. Figures(Selected) \in Figure
  BY SelectedRows, FiguresType DEF ReportsInv
<1>6. Figures(Selected)' = Figures(Selected)
  BY <1>4 DEF Figures
<1>7. ReportOK'
  BY <1>2, <1>4, <1>5 DEF ReportsInv, ReportOK, Asked, Queries, Parts
<1>8. PartsAgree'
  BY <1>4 DEF PartsAgree, Asked
<1>9. SinceLast'
  BY <1>4, <1>5, <1>6, ApartSame DEF SinceLast
<1>10. commits' \in 0..MaxCommits
  BY <1>4, ReportsAssumption
<1> QED
  BY <1>4, <1>7, <1>8, <1>9, <1>10 DEF ReportsInv

\* The totals, of the same rows as the records but for the transactions between.
LEMMA LoadTotalsKeeps ==
  ASSUME ReportsInv, LoadTotals
  PROVE  ReportsInv'
<1>1. Read("totals", Figures(Selected), "workers")
  BY DEF LoadTotals
<1>2. /\ report.pc = "totals" /\ DOMAIN report = Asked \cup Parts["totals"]
      /\ DOMAIN report = Asked \cup {"records"}
  BY <1>1 DEF Read, ReportsInv, ReportOK, Queries, Parts
<1>3. "totals" \in Queries
  BY DEF Queries
<1>4. /\ DOMAIN report' = Asked \cup {"records", "totals"}
      /\ report'.pc = "workers"
      /\ report'.gap = [report.gap EXCEPT !["totals"] = commits]
      /\ report'.totals = Figures(Selected)
      /\ \A x \in DOMAIN report \ {"pc", "gap", "totals"} : report'[x] = report[x]
      /\ UNCHANGED att /\ commits' = 0 /\ UNCHANGED Selected
  BY <1>1, <1>2, <1>3, ReadStep
<1>5. report'.records = report.records /\ report'.gap["totals"] = commits
  BY <1>2, <1>3, <1>4 DEF ReportsInv, ReportOK
<1>6. Figures(Selected) \in Figure
  BY SelectedRows, FiguresType DEF ReportsInv
<1>7. Figures(Selected)' = Figures(Selected)
  BY <1>4 DEF Figures
<1>8. ReportOK'
  BY <1>2, <1>4, <1>5, <1>6 DEF ReportsInv, ReportOK, Asked, Queries, Parts
<1>9. PartsAgree'
  <2>1. Apart(report.records, Figures(Selected), commits)
    BY <1>2 DEF ReportsInv, SinceLast
  <2>2. Apart(report'.records, report'.totals, report'.gap.totals)
    BY <1>4, <1>5, <2>1
  <2> QED
    BY <1>4, <2>2 DEF PartsAgree, Asked
<1>10. SinceLast'
  BY <1>4, <1>6, <1>7, ApartSame DEF SinceLast
<1>11. commits' \in 0..MaxCommits
  BY <1>4, ReportsAssumption
<1> QED
  BY <1>4, <1>8, <1>9, <1>10, <1>11 DEF ReportsInv

\* The groups of the third query and of the fourth.
LEMMA SummariesSum ==
  ASSUME ReportsInv
  PROVE  /\ DOMAIN Summaries = {att[i].worker : i \in Selected}
         /\ \A w \in DOMAIN Summaries :
              Summaries[w] = Figures(OfWorker(w)) /\ Summaries[w] \in Figure
         /\ SumOf(Summaries) = Figures(Selected)
<1>1. att \in Seq(Row) /\ Selected \in SUBSET Rows
  BY SelectedRows DEF ReportsInv
<1>2. PICK k, h : k = [i \in Rows |-> att[i].worker] /\ h = Summaries
  OBVIOUS
<1>3. /\ DOMAIN h = {att[i].worker : i \in Selected}
      /\ \A w \in DOMAIN h : h[w] = Figures({i \in Selected : att[i].worker = w})
  BY <1>2 DEF Summaries
<1>4. DOMAIN h = {k[i] : i \in Selected}
  BY <1>1, <1>2, <1>3
<1>5. ASSUME NEW w \in DOMAIN h PROVE h[w] = Figures({i \in Selected : k[i] = w})
  <2>1. {i \in Selected : att[i].worker = w} = {i \in Selected : k[i] = w}
    BY <1>1, <1>2
  <2> QED
    BY <1>3, <2>1
<1>6. SumOf(h) = Figures(Selected)
  BY <1>1, <1>4, <1>5, FiguresByGroups
<1>7. \A w \in DOMAIN h : h[w] = Figures(OfWorker(w)) /\ h[w] \in Figure
  BY <1>1, <1>3, SelectedRows, FiguresType DEF OfWorker
<1> QED
  BY <1>2, <1>3, <1>6, <1>7

\* A worker's rates make up the worker's figures.
LEMMA RatesSum ==
  ASSUME ReportsInv, NEW w
  PROVE  SumOf(RatesOf(w)) = Figures(OfWorker(w))
<1>1. PICK own \in SUBSET Rows : own = OfWorker(w) /\ own = {i \in Selected : att[i].worker = w}
  BY SelectedRows DEF OfWorker
<1>2. PICK k, h : k = [i \in Rows |-> att[i].rate] /\ h = RatesOf(w)
  OBVIOUS
<1>3. /\ DOMAIN h = {att[i].rate : i \in own}
      /\ \A r \in DOMAIN h : h[r] = Figures({i \in own : att[i].rate = r})
  BY <1>1, <1>2 DEF RatesOf
<1>4. DOMAIN h = {k[i] : i \in own}
  BY <1>2, <1>3
<1>5. ASSUME NEW r \in DOMAIN h PROVE h[r] = Figures({i \in own : k[i] = r})
  <2>1. {i \in own : att[i].rate = r} = {i \in own : k[i] = r}
    BY <1>2
  <2> QED
    BY <1>3, <2>1
<1>6. att \in Seq(Row)
  BY DEF ReportsInv
<1>7. SumOf(h) = Figures(own)
  BY <1>4, <1>5, <1>6, FiguresByGroups
<1> QED
  BY <1>1, <1>2, <1>7

\* The workers, whose figures make up totals of the same rows.
LEMMA LoadWorkersKeeps ==
  ASSUME ReportsInv, LoadWorkers
  PROVE  ReportsInv'
<1>1. Read("workers", Summaries, "rates")
  BY DEF LoadWorkers
<1>2. /\ report.pc = "workers" /\ DOMAIN report = Asked \cup Parts["workers"]
      /\ DOMAIN report = Asked \cup {"records", "totals"}
  BY <1>1 DEF Read, ReportsInv, ReportOK, Queries, Parts
<1>3. "workers" \in Queries
  BY DEF Queries
<1>4. PICK h : h = Summaries
  OBVIOUS
<1>5. /\ DOMAIN report' = Asked \cup {"records", "totals", "workers"}
      /\ report'.pc = "rates"
      /\ report'.gap = [report.gap EXCEPT !["workers"] = commits]
      /\ report'.workers = h
      /\ \A x \in DOMAIN report \ {"pc", "gap", "workers"} : report'[x] = report[x]
      /\ UNCHANGED att /\ commits' = 0 /\ UNCHANGED Selected
  BY <1>1, <1>2, <1>3, <1>4, ReadStep
<1>6. /\ report'.records = report.records /\ report'.totals = report.totals
      /\ report'.gap \in [Queries -> Nat]
      /\ report'.gap["totals"] = report.gap["totals"] /\ report'.gap["workers"] = commits
  <2>1. commits \in Nat /\ report.gap \in [Queries -> Nat]
    BY <1>2, ReportsAssumption DEF ReportsInv, ReportOK
  <2>2. "totals" \in Queries
    BY DEF Queries
  <2>3. "records" \in DOMAIN report /\ "totals" \in DOMAIN report
    BY <1>2
  <2> QED
    BY <1>3, <1>5, <2>1, <2>2, <2>3
<1>7. /\ \A w \in DOMAIN h : h[w] = Figures(OfWorker(w)) /\ h[w] \in Figure
      /\ SumOf(h) = Figures(Selected)
  BY <1>4, SummariesSum
<1>8. \A w : Figures(OfWorker(w))' = Figures(OfWorker(w))
  BY <1>5 DEF Figures, OfWorker
<1>9. ReportOK'
  BY <1>2, <1>5, <1>6, <1>7 DEF ReportsInv, ReportOK, Asked, Queries, Parts
<1>10. PartsAgree'
  <2>1. Apart(report.totals, SumOf(h), commits)
    BY <1>2, <1>7 DEF ReportsInv, SinceLast
  <2>2. Apart(report'.totals, SumOf(report'.workers), report'.gap.workers)
    BY <1>5, <1>6, <2>1
  <2>3. Apart(report.records, report.totals, report.gap.totals)
    BY <1>2 DEF ReportsInv, PartsAgree
  <2>4. Apart(report'.records, report'.totals, report'.gap.totals)
    BY <1>6, <2>3
  <2> QED
    BY <1>5, <2>2, <2>4 DEF PartsAgree, Asked
<1>11. SinceLast'
  BY <1>5, <1>7, <1>8, ApartSame DEF SinceLast
<1>12. commits' \in 0..MaxCommits
  BY <1>5, ReportsAssumption
<1> QED
  BY <1>5, <1>9, <1>10, <1>11, <1>12 DEF ReportsInv

\* The rates, which make up each worker's figures.
LEMMA LoadRatesKeeps ==
  ASSUME ReportsInv, LoadRates
  PROVE  ReportsInv'
<1>1. Read("rates", [w \in DOMAIN report.workers |-> RatesOf(w)], "done")
  BY DEF LoadRates
<1>2. /\ report.pc = "rates" /\ DOMAIN report = Asked \cup Parts["rates"]
      /\ DOMAIN report = Asked \cup {"records", "totals", "workers"}
  BY <1>1 DEF Read, ReportsInv, ReportOK, Queries, Parts
<1>3. "rates" \in Queries
  BY DEF Queries
<1>4. PICK h : h = [w \in DOMAIN report.workers |-> RatesOf(w)]
  OBVIOUS
<1>5. /\ DOMAIN report' = Asked \cup {"records", "totals", "workers", "rates"}
      /\ report'.pc = "done"
      /\ report'.gap = [report.gap EXCEPT !["rates"] = commits]
      /\ report'.rates = h
      /\ \A x \in DOMAIN report \ {"pc", "gap", "rates"} : report'[x] = report[x]
      /\ UNCHANGED att /\ commits' = 0
  BY <1>1, <1>2, <1>3, <1>4, ReadStep
<1>6. /\ report'.records = report.records /\ report'.totals = report.totals
      /\ report'.workers = report.workers
      /\ report'.gap \in [Queries -> Nat]
      /\ report'.gap["totals"] = report.gap["totals"]
      /\ report'.gap["workers"] = report.gap["workers"]
      /\ report'.gap["rates"] = commits
  <2>1. commits \in Nat /\ report.gap \in [Queries -> Nat]
    BY <1>2, ReportsAssumption DEF ReportsInv, ReportOK
  <2>2. "totals" \in Queries /\ "workers" \in Queries
    BY DEF Queries
  <2>3. {"records", "totals", "workers"} \subseteq DOMAIN report
    BY <1>2
  <2> QED
    BY <1>3, <1>5, <2>1, <2>2, <2>3
<1>7. DOMAIN h = DOMAIN report.workers /\ \A w \in DOMAIN h : SumOf(h[w]) = Figures(OfWorker(w))
  <2>1. \A w \in DOMAIN h : h[w] = RatesOf(w)
    BY <1>4
  <2> QED
    BY <1>4, <2>1, RatesSum
<1>8. ReportOK'
  BY <1>2, <1>5, <1>6, <1>7 DEF ReportsInv, ReportOK, Asked, Queries
<1>9. PartsAgree'
  <2>1. /\ Apart(report.records, report.totals, report.gap.totals)
        /\ Apart(report.totals, SumOf(report.workers), report.gap.workers)
    BY <1>2 DEF ReportsInv, PartsAgree
  <2>2. /\ Apart(report'.records, report'.totals, report'.gap.totals)
        /\ Apart(report'.totals, SumOf(report'.workers), report'.gap.workers)
    BY <1>6, <2>1
  <2>3. \A w \in DOMAIN report.workers : Apart(report.workers[w], Figures(OfWorker(w)), commits)
    BY <1>2 DEF ReportsInv, SinceLast
  <2>4. \A w \in DOMAIN report'.workers :
          Apart(report'.workers[w], SumOf(report'.rates[w]), report'.gap.rates)
    BY <1>5, <1>6, <1>7, <2>3
  <2> QED
    BY <2>2, <2>4 DEF PartsAgree
<1>10. SinceLast'
  BY <1>5 DEF SinceLast
<1>11. commits' \in 0..MaxCommits
  BY <1>5, ReportsAssumption
<1> QED
  BY <1>5, <1>8, <1>9, <1>10, <1>11 DEF ReportsInv

-----------------------------------------------------------------------------
(* Transactions.                                                           *)

\* Two sets that differ by one element at most.
LEMMA OneApart ==
  ASSUME NEW S, NEW T, IsFiniteSet(S), IsFiniteSet(T), NEW i, S \ {i} = T \ {i}
  PROVE  Cardinality(T) - Cardinality(S) \in -1..1
<1>1. Cardinality(S) \in Nat /\ Cardinality(T) \in Nat
  BY FS_CardinalityType
<1>2. Cardinality(S \ {i}) = IF i \in S THEN Cardinality(S) - 1 ELSE Cardinality(S)
  BY FS_RemoveElement
<1>3. Cardinality(T \ {i}) = IF i \in T THEN Cardinality(T) - 1 ELSE Cardinality(T)
  BY FS_RemoveElement
<1>4. PICK n : n = Cardinality(S \ {i}) /\ n = Cardinality(T \ {i})
  OBVIOUS
<1> QED
  BY <1>1, <1>2, <1>3, <1>4

\* A part is one transaction more apart from rows that differ by one.
LEMMA ApartByOne ==
  ASSUME NEW f \in Figure, NEW g \in Figure, NEW h \in Figure, NEW n \in Nat,
         Apart(f, g, n), h.sessions - g.sessions \in -1..1
  PROVE  Apart(f, h, n + 1)
<1>1. f.sessions \in Nat /\ g.sessions \in Nat /\ h.sessions \in Nat
  BY DEF Figure
<1>2. f.sessions - g.sessions \in -n..n
  BY DEF Apart
<1>3. f.sessions - h.sessions \in -(n + 1)..(n + 1)
  BY <1>1, <1>2
<1>4. n + 1 # 0
  OBVIOUS
<1> QED
  BY <1>3, <1>4 DEF Apart

\* There are as many transactions as there is room for.
LEMMA GapsCount ==
  ASSUME ReportsInv, report.pc # "none"
  PROVE  Total(report.gap) \in Nat
<1>1. IsFiniteSet(Queries)
  <2>1. IsFiniteSet({"records"})
    BY FS_Singleton
  <2>2. IsFiniteSet({"records"} \cup {"totals"})
    BY <2>1, FS_AddElement
  <2>3. IsFiniteSet(({"records"} \cup {"totals"}) \cup {"workers"})
    BY <2>2, FS_AddElement
  <2>4. IsFiniteSet((({"records"} \cup {"totals"}) \cup {"workers"}) \cup {"rates"})
    BY <2>3, FS_AddElement
  <2>5. Queries = (({"records"} \cup {"totals"}) \cup {"workers"}) \cup {"rates"}
    BY DEF Queries
  <2> QED
    BY <2>4, <2>5
<1>2. report.gap \in [Queries -> Nat]
  BY DEF ReportsInv, ReportOK
<1>3. Totals(report.gap, Queries)
  BY <1>2 DEF Totals
<1> QED
  BY <1>1, <1>3, TotalType

\* The tables differ by row i at most.
OnlyRow(i) ==
  /\ Rows' \ {i} = Rows \ {i}
  /\ \A j \in Rows \ {i} : att'[j] = att[j]

\* So do the rows that are selected.
LEMMA SelectedByOne ==
  ASSUME UNCHANGED report, NEW i, OnlyRow(i)
  PROVE  /\ Selected' \ {i} = Selected \ {i}
         /\ \A w : OfWorker(w)' \ {i} = OfWorker(w) \ {i}
<1>1. Selected' = {j \in Rows' : Matches(att'[j])}
  BY DEF Selected, Matches, InPeriod
<1>2. Selected' \ {i} = Selected \ {i}
  BY <1>1 DEF Selected, OnlyRow
<1>3. ASSUME NEW w PROVE OfWorker(w)' \ {i} = OfWorker(w) \ {i}
  <2>1. Selected \ {i} \subseteq Rows
    BY SelectedRows
  <2> QED
    BY <1>2, <2>1 DEF OfWorker, OnlyRow
<1> QED
  BY <1>2, <1>3

\* FiguresType, for the tables before and after a step.
FiguresOK == \A S \in SUBSET Rows : IsFiniteSet(S) /\ Figures(S) \in Figure

LEMMA FiguresNow == att \in Seq(Row) => FiguresOK
BY FiguresType DEF FiguresOK

\* After.
LEMMA FiguresNext == (att \in Seq(Row))' => FiguresOK'
BY FiguresNow, PTL

\* A transaction changes one row, and the parts read before it are one
\* transaction more apart from the table.
LEMMA CommitKeeps ==
  ASSUME ReportsInv, NEW rows \in Seq(Row), Commits(rows), NEW i, OnlyRow(i)
  PROVE  ReportsInv'
<1>1. /\ att' \in Seq(Row) /\ UNCHANGED report
      /\ commits' = IF report.pc # "none" THEN commits + 1 ELSE 0
  BY DEF Commits, Underway
<1>2. commits \in Nat
  BY ReportsAssumption DEF ReportsInv
<1>3. commits' \in 0..MaxCommits
  <2>1. CASE report.pc = "none"
    BY <1>1, <2>1, ReportsAssumption
  <2>2. CASE report.pc # "none"
    <3>1. PICK n \in Nat : n = Total(report.gap)
      BY <2>2, GapsCount
    <3>2. n + commits < MaxCommits
      BY <2>2, <3>1 DEF Commits, Underway
    <3> QED
      BY <1>1, <1>2, <2>2, <3>2, ReportsAssumption
  <2> QED
    BY <2>1, <2>2
<1>4. ReportOK'
  BY <1>1 DEF ReportsInv, ReportOK
<1>5. PartsAgree'
  BY <1>1 DEF ReportsInv, PartsAgree
<1>6. FiguresOK /\ FiguresOK'
  BY <1>1, FiguresNow, FiguresNext DEF ReportsInv
<1>7. ASSUME NEW S \in SUBSET Rows, NEW T \in SUBSET Rows', T \ {i} = S \ {i},
             NEW f \in Figure, Apart(f, Figures(S), commits)
      PROVE  Apart(f, Figures(T)', commits + 1)
  <2>1. PICK g, h : g = Figures(S) /\ h = Figures(T)'
    OBVIOUS
  <2>2. IsFiniteSet(S) /\ g \in Figure /\ g.sessions = Cardinality(S)
    BY <1>6, <2>1 DEF FiguresOK, Figures
  <2>3. IsFiniteSet(T) /\ h \in Figure /\ h.sessions = Cardinality(T)
    BY <1>6, <2>1 DEF FiguresOK, Figures
  <2>4. h.sessions - g.sessions \in -1..1
    BY <1>7, <2>2, <2>3, OneApart
  <2>5. Apart(f, g, commits)
    BY <1>7, <2>1
  <2>6. Apart(f, h, commits + 1)
    BY <1>2, <2>2, <2>3, <2>4, <2>5, ApartByOne
  <2> QED
    BY <2>1, <2>6
<1>8. /\ Selected \in SUBSET Rows /\ \A w : OfWorker(w) \in SUBSET Rows
      /\ Selected' \in SUBSET Rows' /\ \A w : OfWorker(w)' \in SUBSET Rows'
  BY DEF Selected, OfWorker
<1>9. /\ Selected' \ {i} = Selected \ {i}
      /\ \A w : OfWorker(w)' \ {i} = OfWorker(w) \ {i}
  BY <1>1, SelectedByOne
<1>10. ASSUME NEW f \in Figure, Apart(f, Figures(Selected), commits)
       PROVE  Apart(f, Figures(Selected)', commits + 1)
  <2>1. PICK T : T = Selected' /\ T \in SUBSET Rows' /\ T \ {i} = Selected \ {i}
    BY <1>8, <1>9
  <2>2. Apart(f, Figures(T)', commits + 1)
    BY <1>7, <1>8, <1>10, <2>1
  <2>3. Figures(T)' = Figures(Selected)'
    BY <2>1 DEF Figures
  <2> QED
    BY <2>2, <2>3
<1>11. ASSUME NEW w, NEW f \in Figure, Apart(f, Figures(OfWorker(w)), commits)
       PROVE  Apart(f, Figures(OfWorker(w))', commits + 1)
  <2>1. PICK S \in SUBSET Rows, T \in SUBSET Rows' :
          S = OfWorker(w) /\ T = OfWorker(w)' /\ T \ {i} = S \ {i}
    BY <1>8, <1>9
  <2>2. Apart(f, Figures(S), commits)
    BY <1>11, <2>1
  <2>3. Apart(f, Figures(T)', commits + 1)
    BY <1>7, <2>1, <2>2
  <2>4. Figures(T)' = Figures(OfWorker(w))'
    BY <2>1 DEF Figures
  <2> QED
    BY <2>3, <2>4
<1>12. SinceLast'
  <2>1. CASE report.pc = "totals"
    <3>1. report.records \in Figure /\ Apart(report.records, Figures(Selected), commits)
      BY <2>1 DEF ReportsInv, ReportOK, SinceLast, Queries, Parts
    <3>2. Apart(report.records, Figures(Selected)', commits + 1)
      BY <1>10, <3>1
    <3> QED
      BY <1>1, <2>1, <3>2 DEF SinceLast
  <2>2. CASE report.pc = "workers"
    <3>1. report.totals \in Figure /\ Apart(report.totals, Figures(Selected), commits)
      BY <2>2 DEF ReportsInv, ReportOK, SinceLast, Queries, Parts
    <3>2. Apart(report.totals, Figures(Selected)', commits + 1)
      BY <1>10, <3>1
    <3> QED
      BY <1>1, <2>2, <3>2 DEF SinceLast
  <2>3. CASE report.pc = "rates"
    <3>1. ASSUME NEW w \in DOMAIN report.workers
          PROVE  Apart(report.workers[w], Figures(OfWorker(w))', commits + 1)
      <4>1. report.workers[w] \in Figure
        BY <2>3 DEF ReportsInv, ReportOK, Queries, Parts
      <4>2. Apart(report.workers[w], Figures(OfWorker(w)), commits)
        BY <2>3 DEF ReportsInv, SinceLast
      <4> QED
        BY <1>11, <4>1, <4>2
    <3> QED
      BY <1>1, <2>3, <3>1 DEF SinceLast
  <2>4. CASE report.pc \notin {"totals", "workers", "rates"}
    BY <1>1, <2>4 DEF SinceLast
  <2> QED
    BY <2>1, <2>2, <2>3, <2>4
<1> QED
  BY <1>1, <1>3, <1>4, <1>5, <1>12 DEF ReportsInv

\* A session begins.
LEMMA SeedSessionKeeps ==
  ASSUME ReportsInv, NEW w \in Workers, NEW t \in Checkins, NEW r \in Rates, SeedSession(w, t, r)
  PROVE  ReportsInv'
<1>1. PICK new : new = [worker |-> w, checkin |-> t, rate |-> r, worked |-> NULL,
                        amount |-> NULL, status |-> "OPEN"]
  OBVIOUS
<1>2. new \in Row
  BY <1>1 DEF Row, Statuses
<1>3. att \in Seq(Row)
  BY DEF ReportsInv
<1>4. PICK rows : rows = Append(att, new) /\ Commits(rows) /\ att' = rows
  BY <1>1 DEF SeedSession, Commits
<1>5. /\ rows \in Seq(Row) /\ Len(att) \in Nat /\ Len(rows) = Len(att) + 1
      /\ \A j \in 1..Len(att) : rows[j] = att[j]
  BY <1>2, <1>3, <1>4, AppendProperties, LenProperties
<1>6. OnlyRow(Len(att) + 1)
  BY <1>4, <1>5 DEF OnlyRow, Rows
<1> QED
  BY <1>4, <1>5, <1>6, CommitKeeps

\* A transaction that stores a row in the place of one.
LEMMA UpdateKeeps ==
  ASSUME ReportsInv, NEW i \in Rows, NEW row \in Row, Commits([att EXCEPT ![i] = row])
  PROVE  ReportsInv'
<1>1. att \in Seq(Row)
  BY DEF ReportsInv
<1>2. PICK rows : rows = [att EXCEPT ![i] = row] /\ Commits(rows) /\ att' = rows
  BY DEF Commits
<1>3. /\ rows \in Seq(Row) /\ Len(rows) = Len(att)
      /\ \A j \in Rows : rows[j] = IF j = i THEN row ELSE att[j]
  BY <1>1, <1>2, ExceptSeq DEF Rows
<1>4. OnlyRow(i)
  BY <1>2, <1>3 DEF OnlyRow, Rows
<1> QED
  BY <1>2, <1>3, <1>4, CommitKeeps

\* A session is closed.
LEMMA CheckOutKeeps ==
  ASSUME ReportsInv, NEW i \in Rows, NEW s \in Worked, NEW status \in Statuses \ {"OPEN"},
         CheckOut(i, s, status)
  PROVE  ReportsInv'
<1>1. att[i] \in Row
  BY RowTypes DEF ReportsInv
<1>2. PICK row : row = Settled(att[i], s, status) /\ row \in Row
  BY <1>1, SettledType
<1>3. Commits([att EXCEPT ![i] = row])
  BY <1>2 DEF CheckOut
<1> QED
  BY <1>2, <1>3, UpdateKeeps

\* A session is corrected.
LEMMA CorrectKeeps ==
  ASSUME ReportsInv, NEW i \in Rows, NEW s \in Worked, NEW t \in Checkins, Correct(i, t, s)
  PROVE  ReportsInv'
<1>1. att[i] \in Row
  BY RowTypes DEF ReportsInv
<1>2. PICK moved : moved = [att[i] EXCEPT !.checkin = t]
  OBVIOUS
<1>3. moved \in Row
  BY <1>1, <1>2 DEF Row
<1>4. PICK row : row = Settled(moved, s, "COMPLETED") /\ row \in Row
  <2>1. "COMPLETED" \in Statuses
    BY DEF Statuses
  <2> QED
    BY <1>3, <2>1, SettledType
<1>5. Commits([att EXCEPT ![i] = row]) \/ Commits([att EXCEPT ![i] = moved])
  BY <1>2, <1>4 DEF Correct
<1> QED
  BY <1>3, <1>4, <1>5, UpdateKeeps

-----------------------------------------------------------------------------
(* The invariant holds.                                                    *)

\* A report begins.
LEMMA AskKeeps ==
  ASSUME ReportsInv, NEW p \in Periods, NEW w, NEW s, Ask(p, w, s)
  PROVE  ReportsInv'
<1>1. p[1] \in Nat \cup {NULL} /\ p[2] \in Nat \cup {NULL}
  BY ReportsAssumption
<1>2. /\ report' = [pc |-> "records", from |-> p[1], to |-> p[2], worker |-> w,
                    status |-> s, gap |-> [q \in Queries |-> 0]]
      /\ UNCHANGED att /\ commits' = 0
  BY DEF Ask
<1>3. /\ DOMAIN report' = Asked /\ report'.pc = "records"
      /\ report'.from = p[1] /\ report'.to = p[2] /\ report'.gap = [q \in Queries |-> 0]
  BY <1>2 DEF Asked
<1>4. ReportOK'
  BY <1>1, <1>3 DEF ReportOK, Asked, Queries, Parts
<1>5. PartsAgree'
  BY <1>3 DEF PartsAgree, Asked
<1>6. SinceLast'
  BY <1>3 DEF SinceLast
<1> QED
  BY <1>2, <1>4, <1>5, <1>6, ReportsAssumption DEF ReportsInv

\* A report of which nothing is there.
LEMMA NoReport ==
  ASSUME report = [pc |-> "none"]
  PROVE  ReportOK /\ PartsAgree /\ SinceLast
<1>1. DOMAIN report = {"pc"} /\ report.pc = "none"
  OBVIOUS
<1> QED
  BY <1>1 DEF ReportOK, PartsAgree, SinceLast, Queries

\* NoReport, after a step.
LEMMA NoReportNext == (report = [pc |-> "none"])' => (ReportOK /\ PartsAgree /\ SinceLast)'
<1>1. report = [pc |-> "none"] => ReportOK /\ PartsAgree /\ SinceLast
  BY NoReport
<1> QED
  BY <1>1, PTL

\* Every step keeps the invariant.
LEMMA ReportsInductive ==
  ASSUME ReportsInv, [Next]_vars
  PROVE  ReportsInv'
<1>1. ASSUME NEW p \in Periods, NEW w \in Workers \cup {All}, NEW s \in Statuses \cup {All},
             Ask(p, w, s)
      PROVE  ReportsInv'
  BY <1>1, AskKeeps
<1>2. CASE LoadRecords
  BY <1>2, LoadRecordsKeeps
<1>3. CASE LoadTotals
  BY <1>3, LoadTotalsKeeps
<1>4. CASE LoadWorkers
  BY <1>4, LoadWorkersKeeps
<1>5. CASE LoadRates
  BY <1>5, LoadRatesKeeps
<1>6. CASE End
  <2>1. report' = [pc |-> "none"] /\ UNCHANGED att /\ commits' = 0
    BY <1>6 DEF End
  <2> QED
    BY <2>1, NoReportNext, ReportsAssumption DEF ReportsInv
<1>7. ASSUME NEW w \in Workers, NEW t \in Checkins, NEW r \in Rates, SeedSession(w, t, r)
      PROVE  ReportsInv'
  BY <1>7, SeedSessionKeeps
<1>8. ASSUME NEW i \in Rows, NEW s \in Worked, NEW status \in Statuses \ {"OPEN"},
             CheckOut(i, s, status)
      PROVE  ReportsInv'
  BY <1>8, CheckOutKeeps
<1>9. ASSUME NEW i \in Rows, NEW s \in Worked, NEW t \in Checkins, Correct(i, t, s)
      PROVE  ReportsInv'
  BY <1>9, CorrectKeeps
<1>10. CASE UNCHANGED vars
  <2>1. ReportOK' /\ PartsAgree'
    BY <1>10 DEF vars, ReportsInv, ReportOK, PartsAgree
  <2>2. SinceLast'
    BY <1>10 DEF vars, ReportsInv, SinceLast, Figures, OfWorker, Selected, Rows, Matches, InPeriod
  <2> QED
    BY <1>10, <2>1, <2>2 DEF vars, ReportsInv
<1> QED
  BY <1>1, <1>2, <1>3, <1>4, <1>5, <1>6, <1>7, <1>8, <1>9, <1>10 DEF Next

\* What a report has got agrees with itself, and what it got last with the table,
\* but for the transactions between.  (reportsTimesheets and exportTimesheets of
\* services/api/internal/server/reports.go.)
THEOREM ReportsInvariant == Spec => []ReportsInv
<1>1. Init => ReportsInv
  <2>1. << >> \in Seq(Row)
    BY EmptySeq
  <2> QED
    BY <2>1, NoReport, ReportsAssumption DEF Init, ReportsInv
<1> QED
  BY <1>1, ReportsInductive, PTL DEF Spec

\* Reports keeps its types, whatever the workers, rates, zones and bounds, and a
\* report has rates of exactly the workers it has.
THEOREM TypeCorrect == Spec => []TypeOK
<1>1. ReportsInv => TypeOK
  BY DEF ReportsInv, ReportOK, TypeOK, Asked, Queries, Parts
<1> QED
  BY <1>1, ReportsInvariant, PTL

\* The records, the totals, the workers and their rates in a report are of the
\* same sessions but for one for each transaction that committed between their
\* queries, and without one they add up to the same.  (loadTimesheets,
\* loadTimesheetTotals and loadWorkerTimesheetSummaries, each a query with a
\* snapshot of its own.)
THEOREM ReportsAddUp == Spec => []PartsAgree
<1>1. ReportsInv => PartsAgree
  BY DEF ReportsInv
<1> QED
  BY <1>1, ReportsInvariant, PTL

-----------------------------------------------------------------------------
(* What the reports show.                                                  *)

\* In every zone that changes its clocks once, at whatever instant and by
\* whatever amount, a session is in the report of the days it was begun on and
\* in no other, provided that the midnights of the period come exactly once.
\* (services/api/internal/server/reports.go: parseTimesheetFilters, reportDay.)
THEOREM DaysAreLocalDays == Spec => []DayFilterIsTheDays
<1>1. ReportsInv => DayFilterIsTheDays
  <2> SUFFICES ASSUME ReportsInv, report.pc = "records", report.from # NULL, report.to # NULL,
                      NEW z \in Zones,
                      \A d \in {report.from, report.to, report.to + 1} : OneMidnight(z, d),
                      NEW t \in (report.from - 2) * Day..(report.to + 3) * Day
               PROVE  InPeriod(z, t) <=> LocalDay(z, t) \in report.from..report.to
    BY DEF DayFilterIsTheDays
  <2>1. PICK from \in Int, to \in Int : from = report.from /\ to = report.to
    BY DEF ReportsInv, ReportOK, NULL
  <2>2. t \in Int
    BY <2>1, ZoneType
  <2>3. \A d \in {from, to, to + 1} : OneMidnight(z, d)
    BY <2>1
  <2>4. (t >= ReportDay(z, from) /\ t < NextDay(z, ReportDay(z, to)))
          <=> LocalDay(z, t) \in from..to
    BY <2>2, <2>3, PeriodIsItsDays
  <2> QED
    BY <2>1, <2>4 DEF InPeriod
<1> QED
  BY <1>1, ReportsInvariant, PTL

\* At any rate, and whatever scale PostgreSQL keeps of the quotient, a second
\* more of work never pays less.  (checkOut and adminCorrectAttendance of
\* services/api/internal/server, which compute calculated_amount.)
THEOREM MoreWorkNeverPaysLess == Spec => []LongerNeverPaysLess
<1>1. PaidByTheSecond = Rates
  <2> SUFFICES ASSUME NEW r \in Rates, NEW s \in 1..MaxWorked
               PROVE  Amount(s - 1, r) <= Amount(s, r)
    BY DEF PaidByTheSecond
  <2>1. r \in Nat /\ MaxWorked \in Nat
    BY ReportsAssumption
  <2>2. s - 1 \in Nat /\ s \in Nat /\ s - 1 <= s
    BY <2>1
  <2> QED
    BY <2>1, <2>2, AmountGrows
<1>2. ReportsInv => LongerNeverPaysLess
  <2> SUFFICES ASSUME ReportsInv, NEW i \in Rows PROVE att[i].rate \in Rates
    BY <1>1 DEF LongerNeverPaysLess
  <2>1. att[i] \in Row
    BY ElementOfSeq DEF ReportsInv, Rows
  <2> QED
    BY <2>1 DEF Row
<1> QED
  BY <1>2, ReportsInvariant, PTL

\* Where the scale has room for the rates, every working time is paid exactly,
\* rounded half up, but for the half cent of a tie.  PostgreSQL keeps sixteen
\* decimals of the hours of a session shorter than a year, which is room for
\* rates below a trillion cents.
THEOREM PayIsExact ==
  ASSUME \A r \in Rates : 1800 * r < DivScale
  PROVE  Spec => []AmountIsExactPay
<1>1. PaidExactly = Rates
  <2> SUFFICES ASSUME NEW r \in Rates, NEW s \in 0..MaxWorked
               PROVE  \/ Amount(s, r) = ExactPay(s, r)
                      \/ Tie(s, r) /\ Amount(s, r) = ExactPay(s, r) - 1
    BY DEF PaidExactly
  <2>1. r \in Nat /\ s \in Nat
    BY ReportsAssumption
  <2> QED
    BY <2>1, AmountExact
<1>2. ReportsInv => AmountIsExactPay
  <2> SUFFICES ASSUME ReportsInv, NEW i \in Rows PROVE att[i].rate \in Rates
    BY <1>1 DEF AmountIsExactPay
  <2>1. att[i] \in Row
    BY ElementOfSeq DEF ReportsInv, Rows
  <2> QED
    BY <2>1 DEF Row
<1> QED
  BY <1>2, ReportsInvariant, PTL
=============================================================================
