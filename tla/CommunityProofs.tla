--------------------------- MODULE CommunityProofs ---------------------------
(***************************************************************************)
(* Theorems about Community, for every value of its constants: the types,  *)
(* that the creator of a group is its ADMIN until he leaves, that a link   *)
(* that is revoked or has expired answers no report asked for afterwards,  *)
(* that a progress report is true and that a leaderboard is fair. What     *)
(* Progress computes comes first, then what the requests in flight rely on.*)
(***************************************************************************)
EXTENDS Community, SequenceTheorems, FiniteSetTheorems, WellFoundedInduction, TLAPS

-----------------------------------------------------------------------------
(* Time.                                                                    *)

LEMMA LeastOf ==
    ASSUME NEW S \in SUBSET Nat, S # {}
    PROVE  \E n \in S : \A m \in S : n <= m
<1>1. PICK x \in S : \A y \in S : ~(<<y, x>> \in OpToRel(<, Nat))
  BY WFMin, NatLessThanWellFounded
<1>2. ASSUME NEW y \in S PROVE x <= y
  <2>1. ~(<<y, x>> \in Nat \X Nat /\ y < x)
    BY <1>1 DEF OpToRel
  <2> QED BY <2>1
<1> QED BY <1>2

\* Min is the least of any moments.
LEMMA MinIsLeast ==
    ASSUME NEW S \in SUBSET Nat, S # {}
    PROVE  Min(S) \in S /\ \A t \in S : Min(S) <= t
BY LeastOf DEF Min

-----------------------------------------------------------------------------
(* Scores.                                                                  *)

LEMMA TimesKeeps ==
    ASSUME NEW m \in Nat, NEW a \in Int, NEW b \in Int, a <= b
    PROVE  m * a <= m * b
<1>1. PICK d \in Nat : d = b - a
  OBVIOUS
<1>2. m * b = m * a + m * d /\ m * d \in Nat /\ m * a \in Int
  BY <1>1
<1> QED BY <1>2

\* A quotient is the greatest number whose multiple is no more.
LEMMA Quotient ==
    ASSUME NEW a \in Nat, NEW m \in Nat \ {0}
    PROVE  a \div m \in Nat /\ m * (a \div m) <= a /\ a < m * (a \div m) + m
<1>1. PICK q \in Int : q = a \div m
  OBVIOUS
<1>2. m * q <= a /\ a < m * (q + 1)
  BY <1>1, Z3
<1>3. PICK p \in Int : p = m * q
  OBVIOUS
<1>4. m * (q + 1) = p + m
  BY <1>3
<1>5. q >= 0
  <2> SUFFICES ASSUME q + 1 <= 0 PROVE FALSE
    OBVIOUS
  <2>1. m * (q + 1) <= m * 0
    BY TimesKeeps
  <2> QED BY <1>2, <2>1
<1> QED BY <1>1, <1>2, <1>3, <1>4, <1>5

LEMMA QuotientAtLeast ==
    ASSUME NEW a \in Nat, NEW m \in Nat \ {0}, NEW q \in Nat, m * q <= a
    PROVE  q <= a \div m
<1>1. PICK d \in Nat : d = a \div m /\ a < m * d + m
  BY Quotient
<1> SUFFICES ASSUME d + 1 <= q PROVE FALSE
  BY <1>1
<1>2. m * (d + 1) <= m * q
  BY TimesKeeps
<1>3. m * (d + 1) = m * d + m
  OBVIOUS
<1>4. PICK x \in Nat, y \in Nat : x = m * d /\ y = m * q
  OBVIOUS
<1> QED BY <1>1, <1>2, <1>3, <1>4

LEMMA QuotientAtMost ==
    ASSUME NEW a \in Nat, NEW m \in Nat \ {0}, NEW q \in Nat, a < m * q + m
    PROVE  a \div m <= q
<1>1. PICK d \in Nat : d = a \div m /\ m * d <= a
  BY Quotient
<1> SUFFICES ASSUME q + 1 <= d PROVE FALSE
  BY <1>1
<1>2. m * (q + 1) <= m * d
  BY TimesKeeps
<1>3. m * (q + 1) = m * q + m
  OBVIOUS
<1>4. PICK x \in Nat, y \in Nat : x = m * d /\ y = m * q
  OBVIOUS
<1> QED BY <1>1, <1>2, <1>3, <1>4

Points(days) == IF 10 * days < 50 THEN 10 * days ELSE 50
Halves(done, all, points) == 100 * done + 2 * points * all + all

LEMMA PointsBounded == ASSUME NEW days \in Nat PROVE Points(days) \in 0..50
BY DEF Points

LEMMA PointsGrow ==
    ASSUME NEW d \in Nat, NEW e \in Nat, d >= e
    PROVE  Points(d) >= Points(e)
BY DEF Points

LEMMA ScoreIs ==
    ASSUME NEW done, NEW all, NEW days
    PROVE  Score(done, all, days) =
             IF all = 0 THEN Points(days) ELSE Halves(done, all, Points(days)) \div (2 * all)
BY DEF Score, Points, Halves

LEMMA HalvesIs ==
    ASSUME NEW done \in Nat, NEW all \in Nat, NEW points \in Nat
    PROVE  /\ Halves(done, all, points) \in Nat
           /\ Halves(done, all, points) = 100 * done + 2 * (all * points) + all
BY DEF Halves

\* A score is at least its points, and at most 50 more.
LEMMA ScoreBounded ==
    ASSUME NEW done \in Nat, NEW all \in Nat, NEW days \in Nat, done <= all
    PROVE  Score(done, all, days) \in Points(days)..100
<1>1. PICK p \in 0..50 : p = Points(days)
  BY PointsBounded
<1>2. CASE all = 0
  BY <1>1, <1>2, ScoreIs
<1>3. CASE all # 0
  <2>1. PICK m \in Nat \ {0} : m = 2 * all
    BY <1>3
  <2>2. PICK x \in Nat : x = all * p /\ x <= 50 * all
    <3>1. all * p <= all * 50
      BY TimesKeeps
    <3> QED BY <3>1
  <2>3. PICK h \in Nat : h = Halves(done, all, p) /\ h = 100 * done + 2 * x + all
    <3>1. Halves(done, all, p) = 100 * done + 2 * (all * p) + all
      BY HalvesIs
    <3> QED BY <2>2, <3>1
  <2>4. m * p = 2 * x /\ m * 100 = 200 * all
    BY <2>1, <2>2
  <2>5. m * p <= h /\ h < m * 100 + m
    BY <1>3, <2>1, <2>2, <2>3, <2>4
  <2>6. p <= h \div m /\ h \div m <= 100 /\ h \div m \in Nat
    BY <2>5, QuotientAtLeast, QuotientAtMost, Quotient
  <2>7. Score(done, all, days) = h \div m
    BY <1>1, <1>3, <2>1, <2>3, ScoreIs
  <2> QED BY <1>1, <2>6, <2>7
<1> QED BY <1>2, <1>3

\* Who completed no smaller part and was active on no fewer days has no lower score.
LEMMA ScoreGrows ==
    ASSUME NEW a \in Nat, NEW all \in Nat, NEW d \in Nat, a <= all,
           NEW b \in Nat, NEW of \in Nat, NEW e \in Nat, b <= of,
           a * of >= b * all, d >= e, all > 0 \/ of = 0
    PROVE  Score(a, all, d) >= Score(b, of, e)
<1>1. PICK p \in 0..50 : p = Points(d)
  BY PointsBounded
<1>2. PICK q \in 0..50 : q = Points(e)
  BY PointsBounded
<1>3. p >= q
  BY <1>1, <1>2, PointsGrow
<1>4. CASE of = 0
  <2>1. Score(b, of, e) = q
    BY <1>2, <1>4, ScoreIs
  <2>2. Score(a, all, d) \in p..100
    BY <1>1, ScoreBounded
  <2> QED BY <1>3, <2>1, <2>2
<1>5. CASE of # 0 /\ all # 0
  <2>1. PICK m \in Nat \ {0}, n \in Nat \ {0} : m = 2 * all /\ n = 2 * of
    BY <1>5
  <2>2. PICK h \in Nat : h = Halves(a, all, p) /\ h = 100 * a + 2 * (all * p) + all
    <3>1. Halves(a, all, p) = 100 * a + 2 * (all * p) + all
      BY HalvesIs
    <3> QED BY <3>1
  <2>3. PICK g \in Nat : g = Halves(b, of, q) /\ g = 100 * b + 2 * (of * q) + of
    <3>1. Halves(b, of, q) = 100 * b + 2 * (of * q) + of
      BY HalvesIs
    <3> QED BY <3>1
  <2>4. PICK s \in Nat : s = g \div n /\ n * s <= g
    BY <2>1, <2>3, Quotient
  \* With both in the same parts, of 2 * all * of.
  <2>5. all * (n * s) <= all * g
    BY <2>1, <2>4, TimesKeeps
  <2>6. all * g <= of * h
    <3>1. all * g = 100 * (b * all) + 2 * ((all * of) * q) + all * of
      BY <2>3
    <3>2. of * h = 100 * (a * of) + 2 * ((all * of) * p) + all * of
      BY <2>2
    <3>3. PICK t \in Nat : t = all * of
      OBVIOUS
    <3>4. t * q <= t * p
      BY <1>3, TimesKeeps
    <3>5. PICK x \in Nat, y \in Nat, u \in Nat, v \in Nat :
            x = t * q /\ y = t * p /\ u = b * all /\ v = a * of
      OBVIOUS
    <3>6. all * g = 100 * u + 2 * x + t /\ of * h = 100 * v + 2 * y + t
      BY <3>1, <3>2, <3>3, <3>5
    <3> QED BY <3>4, <3>5, <3>6
  <2>7. all * (n * s) = of * (m * s)
    BY <2>1
  <2>8. m * s <= h
    <3>1. PICK x \in Nat, y \in Nat : x = m * s /\ y = h
      OBVIOUS
    <3>2. of * x <= of * h
      <4>1. PICK v \in Nat, w \in Nat, z \in Nat : v = all * (n * s) /\ w = all * g /\ z = of * h
        OBVIOUS
      <4>2. v <= w /\ w <= z /\ v = of * x
        BY <2>5, <2>6, <2>7, <3>1, <4>1
      <4> QED BY <4>1, <4>2
    <3> SUFFICES ASSUME h + 1 <= x PROVE FALSE
      BY <3>1
    <3>3. of * (h + 1) <= of * x
      BY TimesKeeps
    <3>4. of * (h + 1) = of * h + of
      OBVIOUS
    <3>5. PICK z \in Nat, w \in Nat : z = of * h /\ w = of * x
      OBVIOUS
    <3> QED BY <1>5, <3>2, <3>3, <3>4, <3>5
  <2>9. s <= h \div m
    BY <2>1, <2>8, QuotientAtLeast
  <2>10. Score(a, all, d) = h \div m /\ Score(b, of, e) = s
    BY <1>1, <1>2, <1>5, <2>1, <2>2, <2>3, <2>4, ScoreIs
  <2>11. h \div m \in Nat
    BY <2>1, Quotient
  <2> QED BY <2>9, <2>10, <2>11
<1> QED BY <1>4, <1>5

-----------------------------------------------------------------------------
(* Rankings.                                                                *)

\* Entries at numbers, each with a score.
Scored(entries) ==
    /\ IsFiniteSet(DOMAIN entries) /\ DOMAIN entries \subseteq Nat
    /\ \A i \in DOMAIN entries : entries[i].score \in Nat

Better(entries, i) == {j \in DOMAIN entries : Ahead(entries, j, i)}
Place(entries, i) == Cardinality(Better(entries, i)) + 1

LEMMA PlaceIn ==
    ASSUME NEW entries, Scored(entries), NEW i \in DOMAIN entries
    PROVE  /\ Place(entries, i) \in 1..Cardinality(DOMAIN entries)
           /\ IsFiniteSet(Better(entries, i)) /\ Cardinality(Better(entries, i)) \in Nat
<1>1. PICK D : D = DOMAIN entries
  OBVIOUS
<1>2. PICK B : B = Better(entries, i)
  OBVIOUS
<1>3. IsFiniteSet(D) /\ i \in D /\ B \in SUBSET D
  BY <1>1, <1>2 DEF Scored, Better
<1>4. i \notin B
  BY <1>2 DEF Better, Ahead, Scored
<1>5. /\ IsFiniteSet(B) /\ Cardinality(B) <= Cardinality(D)
      /\ (Cardinality(D) = Cardinality(B) => D = B)
  BY <1>3, FS_Subset
<1>6. Cardinality(B) \in Nat /\ Cardinality(D) \in Nat
  BY <1>3, <1>5, FS_CardinalityType
<1>7. Cardinality(B) # Cardinality(D)
  BY <1>3, <1>4, <1>5
<1> QED BY <1>1, <1>2, <1>5, <1>6, <1>7 DEF Place

\* Of two entries one is ahead, and its place is before that of the other.
LEMMA AheadIsBefore ==
    ASSUME NEW entries, Scored(entries), NEW i \in DOMAIN entries, NEW j \in DOMAIN entries,
           Ahead(entries, i, j)
    PROVE  Place(entries, i) < Place(entries, j)
<1>1. PICK A, B : A = Better(entries, i) /\ B = Better(entries, j)
  OBVIOUS
<1>2. A \in SUBSET B
  <2> SUFFICES ASSUME NEW k \in DOMAIN entries, Ahead(entries, k, i) PROVE Ahead(entries, k, j)
    BY <1>1 DEF Better
  <2>1. /\ i \in Nat /\ j \in Nat /\ k \in Nat /\ entries[i].score \in Nat
        /\ entries[j].score \in Nat /\ entries[k].score \in Nat
    BY DEF Scored
  <2> QED BY <2>1 DEF Ahead
<1>3. i \in B /\ i \notin A
  BY <1>1 DEF Better, Ahead, Scored
<1>4. IsFiniteSet(B) /\ Cardinality(A) \in Nat /\ Cardinality(B) \in Nat
  BY <1>1, PlaceIn
<1>5. Cardinality(A) <= Cardinality(B) /\ (Cardinality(B) = Cardinality(A) => B = A)
  BY <1>2, <1>4, FS_Subset
<1>6. Cardinality(A) < Cardinality(B)
  BY <1>3, <1>4, <1>5
<1> QED BY <1>1, <1>4, <1>6 DEF Place

LEMMA OneIsAhead ==
    ASSUME NEW entries, Scored(entries), NEW i \in DOMAIN entries, NEW j \in DOMAIN entries, i # j
    PROVE  Ahead(entries, i, j) \/ Ahead(entries, j, i)
<1>1. /\ i \in Nat /\ j \in Nat /\ entries[i].score \in Nat /\ entries[j].score \in Nat
  BY DEF Scored
<1> QED BY <1>1 DEF Ahead

\* Every place is taken: who is there?
LEMMA PlacesAreTaken ==
    ASSUME NEW entries, Scored(entries), NEW rank \in 1..Cardinality(DOMAIN entries)
    PROVE  \E i \in DOMAIN entries : Place(entries, i) = rank
<1>1. PICK D : D = DOMAIN entries
  OBVIOUS
<1>2. PICK n : n = Cardinality(D)
  OBVIOUS
<1>3. IsFiniteSet(D) /\ n \in Nat
  BY <1>1, <1>2, FS_CardinalityType DEF Scored
<1>4. IsFiniteSet(1..n) /\ Cardinality(1..n) = n
  BY <1>3, FS_Interval
<1>5. PICK place : place = [i \in D |-> Place(entries, i)]
  OBVIOUS
<1>6. place \in [D -> 1..n]
  BY <1>1, <1>2, <1>5, PlaceIn
<1>7. ASSUME NEW i \in D, NEW j \in D, place[i] = place[j] PROVE i = j
  <2> SUFFICES ASSUME i # j PROVE FALSE
    OBVIOUS
  <2>1. Place(entries, i) = Place(entries, j)
    BY <1>5, <1>7
  <2>2. Place(entries, i) \in 1..n /\ Place(entries, j) \in 1..n
    BY <1>1, <1>2, PlaceIn
  <2>3. Place(entries, i) < Place(entries, j) \/ Place(entries, j) < Place(entries, i)
    BY <1>1, OneIsAhead, AheadIsBefore
  <2> QED BY <2>1, <2>2, <2>3
<1>8. place \in Injection(D, 1..n)
  BY <1>6, <1>7 DEF Injection, IsInjective
<1>9. place \in Surjection(D, 1..n)
  BY <1>2, <1>4, <1>8, FS_Injection
<1>10. PICK i \in D : place[i] = rank
  BY <1>1, <1>2, <1>9 DEF Surjection
<1> QED BY <1>1, <1>5, <1>10

\* Who has a rank.
At(entries, rank) == CHOOSE i \in DOMAIN entries : Place(entries, i) = rank

LEMMA RankingIs ==
    ASSUME NEW entries
    PROVE  Ranking(entries) = [rank \in 1..Cardinality(DOMAIN entries) |->
                                  entries[At(entries, rank)]]
BY DEF Ranking, At, Place, Better

LEMMA AtIs ==
    ASSUME NEW entries, Scored(entries), NEW rank \in 1..Cardinality(DOMAIN entries)
    PROVE  At(entries, rank) \in DOMAIN entries /\ Place(entries, At(entries, rank)) = rank
BY PlacesAreTaken DEF At

\* A ranking has each entry once, in the order of the scores.
LEMMA RankingSorts ==
    ASSUME NEW entries, Scored(entries), NEW i \in DOMAIN Ranking(entries),
           NEW j \in DOMAIN Ranking(entries)
    PROVE  \E a, b \in DOMAIN entries :
             /\ Ranking(entries)[i] = entries[a] /\ Ranking(entries)[j] = entries[b]
             /\ i # j => a # b
             /\ i < j => entries[a].score >= entries[b].score
<1>1. PICK n : n = Cardinality(DOMAIN entries)
  OBVIOUS
<1>2. n \in Nat
  BY <1>1, FS_CardinalityType DEF Scored
<1>3. i \in 1..n /\ j \in 1..n
  BY <1>1, RankingIs
<1>4. PICK a \in DOMAIN entries : a = At(entries, i) /\ Place(entries, a) = i
  BY <1>1, <1>3, AtIs
<1>5. PICK b \in DOMAIN entries : b = At(entries, j) /\ Place(entries, b) = j
  BY <1>1, <1>3, AtIs
<1>6. Ranking(entries)[i] = entries[a] /\ Ranking(entries)[j] = entries[b]
  BY <1>1, <1>3, <1>4, <1>5, RankingIs
<1>7. i # j => a # b
  BY <1>4, <1>5
<1>8. ASSUME i < j PROVE entries[a].score >= entries[b].score
  <2>1. a # b /\ i \in Nat /\ j \in Nat
    BY <1>3, <1>4, <1>5, <1>8
  <2>2. ~Ahead(entries, b, a)
    <3> SUFFICES ASSUME Ahead(entries, b, a) PROVE FALSE
      OBVIOUS
    <3>1. j < i
      BY <1>4, <1>5, AheadIsBefore
    <3> QED BY <1>8, <2>1, <3>1
  <2>3. Ahead(entries, a, b)
    BY <2>1, <2>2, OneIsAhead
  <2>4. entries[a].score \in Nat /\ entries[b].score \in Nat
    BY DEF Scored
  <2> QED BY <2>3, <2>4 DEF Ahead
<1> QED BY <1>6, <1>7, <1>8

-----------------------------------------------------------------------------
(* Streaks.                                                                 *)

\* A zone of n days of 24 hours, the first of which begins at first.
Even(zone, first, n) ==
    /\ first \in Int /\ n \in Nat
    /\ zone = {first + Day * d : d \in 0..(n - 1)}

\* The days that have begun by t.
Begun(first, n, t) == IF t < first THEN 0 ELSE (t - first) \div Day + 1

LEMMA BegunIs ==
    ASSUME NEW first \in Int, NEW n \in Nat, NEW t \in Int, t < first + Day * n
    PROVE  /\ Begun(first, n, t) \in 0..n
           /\ \A d \in Nat : first + Day * d <= t <=> d < Begun(first, n, t)
<1>1. CASE t < first
  BY <1>1 DEF Begun, Day
<1>2. CASE t >= first
  <2>1. PICK q \in Int : q = (t - first) \div 24
    OBVIOUS
  <2>2. 24 * q <= t - first /\ t - first < 24 * q + 24
    BY <2>1
  <2>3. Begun(first, n, t) = q + 1
    BY <1>2, <2>1 DEF Begun, Day
  <2> QED BY <1>2, <2>2, <2>3 DEF Day
<1> QED BY <1>1, <1>2

LEMMA EvenDate ==
    ASSUME NEW zone, NEW first, NEW n, Even(zone, first, n), NEW t \in Int, t < first + Day * n
    PROVE  LocalDate(zone, t) = Begun(first, n, t)
<1>1. first \in Int /\ n \in Nat
  BY DEF Even
<1>2. PICK q \in 0..n : q = Begun(first, n, t) /\ \A d \in Nat : first + Day * d <= t <=> d < q
  BY <1>1, BegunIs
<1>3. PICK S : S = {m \in zone : m <= t}
  OBVIOUS
<1>4. S = {first + Day * d : d \in 0..(q - 1)}
  <2>1. ASSUME NEW m \in S PROVE \E d \in 0..(q - 1) : m = first + Day * d
    <3>1. PICK d \in 0..(n - 1) : m = first + Day * d /\ m <= t
      BY <1>3 DEF Even
    <3>2. d < q
      BY <1>2, <3>1
    <3> QED BY <3>1, <3>2
  <2>2. ASSUME NEW d \in 0..(q - 1) PROVE first + Day * d \in S
    <3>1. d \in 0..(n - 1) /\ d \in Nat /\ d < q
      BY <1>1
    <3>2. first + Day * d <= t
      BY <1>2, <3>1
    <3> QED BY <1>3, <3>1, <3>2 DEF Even
  <2> QED BY <2>1, <2>2
<1>5. PICK f : f = [k \in 1..q |-> first + Day * (k - 1)]
  OBVIOUS
<1>6. f \in [1..q -> S]
  <2>1. ASSUME NEW k \in 1..q PROVE f[k] \in S
    <3>1. k - 1 \in 0..(q - 1) /\ f[k] = first + Day * (k - 1)
      BY <1>5
    <3> QED BY <1>4, <3>1
  <2> QED BY <1>5, <2>1
<1>7. f \in Injection(1..q, S)
  <2>1. ASSUME NEW j \in 1..q, NEW k \in 1..q, f[j] = f[k] PROVE j = k
    <3>1. first + 24 * (j - 1) = first + 24 * (k - 1)
      BY <1>5, <2>1 DEF Day
    <3> QED BY <1>1, <3>1
  <2> QED BY <1>6, <2>1 DEF Injection, IsInjective
<1>8. f \in Surjection(1..q, S)
  <2>1. ASSUME NEW m \in S PROVE \E k \in 1..q : f[k] = m
    <3>1. PICK d \in 0..(q - 1) : m = first + Day * d
      BY <1>4
    <3>2. d + 1 \in 1..q /\ (d + 1) - 1 = d
      OBVIOUS
    <3>3. f[d + 1] = first + Day * ((d + 1) - 1)
      BY <1>5, <3>2
    <3> QED BY <3>1, <3>2, <3>3
  <2> QED BY <1>6, <2>1 DEF Surjection
<1>9. ExistsBijection(1..q, S)
  BY <1>7, <1>8 DEF ExistsBijection, Bijection
<1>10. Cardinality(S) = q
  BY <1>2, <1>9, FS_CountingElements
<1> QED BY <1>2, <1>3, <1>10 DEF LocalDate

\* k days of 24 hours before, the date is k dates before, as long as there are any.
LEMMA DateBack ==
    ASSUME NEW zone, NEW first, NEW n, Even(zone, first, n), NEW t \in Int, t < first + Day * n,
           NEW k \in Nat
    PROVE  LocalDate(zone, t - Day * k) = IF LocalDate(zone, t) < k THEN 0
                                          ELSE LocalDate(zone, t) - k
<1>1. first \in Int /\ n \in Nat
  BY DEF Even
<1>2. PICK s \in Int : s = t - Day * k /\ s = t - 24 * k
  BY DEF Day
<1>3. s < first + Day * n
  BY <1>1, <1>2 DEF Day
<1>4. PICK p \in 0..n : p = LocalDate(zone, t) /\ \A d \in Nat : first + Day * d <= t <=> d < p
  BY <1>1, EvenDate, BegunIs
<1>5. PICK q \in 0..n : q = LocalDate(zone, s) /\ \A d \in Nat : first + Day * d <= s <=> d < q
  BY <1>1, <1>3, EvenDate, BegunIs
<1>6. \A d \in Nat : d < q <=> d + k < p
  <2>1. ASSUME NEW d \in Nat PROVE d < q <=> d + k < p
    <3>1. first + Day * d <= s <=> first + Day * (d + k) <= t
      BY <1>1, <1>2 DEF Day
    <3>2. d + k \in Nat
      OBVIOUS
    <3> QED BY <1>4, <1>5, <3>1, <3>2
  <2> QED BY <2>1
<1>7. q = IF p < k THEN 0 ELSE p - k
  <2>1. CASE p < k
    <3>1. ~(0 < q)
      BY <1>6, <2>1
    <3> QED BY <2>1, <3>1
  <2>2. CASE p >= k
    <3>1. PICK e \in Nat : e = p - k
      BY <2>2
    <3>2. ~(e < q)
      <4>1. ~(e + k < p)
        BY <3>1
      <4> QED BY <1>6, <4>1
    <3>3. e = 0 \/ e - 1 < q
      <4>1. CASE e # 0
        <5>1. e - 1 \in Nat /\ (e - 1) + k < p
          BY <3>1, <4>1
        <5> QED BY <1>6, <5>1
      <4> QED BY <4>1
    <3> QED BY <2>2, <3>1, <3>2, <3>3
  <2> QED BY <2>1, <2>2
<1> QED BY <1>2, <1>4, <1>5, <1>7

\* k is a number of active days before the first that is not.
Ends(active, k) == k \notin active /\ 0..(k - 1) \subseteq active

LEMMA RunIs ==
    ASSUME NEW active, NEW bound \in Nat, NEW k \in 0..bound, Ends(active, k)
    PROVE  Run(active, bound) = k
<1>1. ASSUME NEW j \in 0..bound, NEW i \in 0..bound, Ends(active, i), Ends(active, j)
      PROVE  i = j
  <2>1. ~(i < j)
    <3> SUFFICES ASSUME i < j PROVE FALSE
      OBVIOUS
    <3>1. i \in 0..(j - 1)
      OBVIOUS
    <3> QED BY <1>1, <3>1 DEF Ends
  <2>2. ~(j < i)
    <3> SUFFICES ASSUME j < i PROVE FALSE
      OBVIOUS
    <3>1. j \in 0..(i - 1)
      OBVIOUS
    <3> QED BY <1>1, <3>1 DEF Ends
  <2> QED BY <2>1, <2>2
<1>2. Run(active, bound) = CHOOSE i \in 0..bound : Ends(active, i)
  BY DEF Run, Ends
<1> QED BY <1>1, <1>2

\* The dates up to the last end before there are more of them than there are.
LEMMA DatesEnd ==
    ASSUME NEW dates \in SUBSET Nat, IsFiniteSet(dates), NEW last \in Nat
    PROVE  \E k \in 0..Cardinality(dates) :
             last - k \notin dates /\ \A j \in 0..(k - 1) : last - j \in dates
<1>1. PICK c \in Nat : c = Cardinality(dates)
  BY FS_CardinalityType
<1>2. PICK out : out = {k \in 0..c : last - k \notin dates}
  OBVIOUS
<1>3. out # {}
  <2> SUFFICES ASSUME \A k \in 0..c : last - k \in dates PROVE FALSE
    BY <1>2
  <2>1. PICK f : f = [k \in 0..c |-> last - k]
    OBVIOUS
  <2>2. f \in [0..c -> dates]
    BY <2>1
  <2>3. f \in Injection(0..c, dates)
    BY <2>1, <2>2 DEF Injection, IsInjective
  <2>4. Cardinality(0..c) <= c
    BY <1>1, <2>3, FS_Injection
  <2>5. Cardinality(0..c) = c + 1
    BY FS_Interval
  <2> QED BY <2>4, <2>5
<1>4. out \in SUBSET Nat
  BY <1>2
<1>5. PICK k \in out : \A j \in out : k <= j
  BY <1>3, <1>4, LeastOf
<1>6. k \in 0..c /\ last - k \notin dates
  BY <1>2
<1>7. ASSUME NEW j \in 0..(k - 1) PROVE last - j \in dates
  BY <1>2, <1>5, <1>6
<1> QED BY <1>1, <1>6, <1>7

\* In a zone without changes, going back by hours leads to the consecutive dates.
LEMMA StreakReal ==
    ASSUME NEW zone, NEW first, NEW n, Even(zone, first, n), NEW now \in Int,
           first <= now, now < first + Day * n,
           NEW dates \in SUBSET (Nat \ {0}), IsFiniteSet(dates)
    PROVE  Streak(zone, dates, now) = RealStreak(dates, LocalDate(zone, now))
<1>1. first \in Int /\ n \in Nat
  BY DEF Even
<1>2. PICK c \in Nat : c = Cardinality(dates)
  BY FS_CardinalityType
<1>3. PICK today \in 1..n : today = LocalDate(zone, now)
  <2>1. PICK q \in 0..n : q = LocalDate(zone, now) /\ \A d \in Nat : first + Day * d <= now <=> d < q
    BY <1>1, EvenDate, BegunIs
  <2>2. first + Day * 0 <= now
    BY <1>1 DEF Day
  <2>3. 0 < q
    BY <2>1, <2>2
  <2> QED BY <2>1, <2>3
<1>4. PICK from \in Int : from = IF today \in dates THEN now ELSE now - Day
  BY DEF Day
<1>5. PICK last \in Nat : last = IF today \in dates THEN today ELSE today - 1
  OBVIOUS
<1>6. from < first + Day * n /\ LocalDate(zone, from) = last
  <2>1. CASE today \in dates
    BY <1>3, <1>4, <1>5, <2>1
  <2>2. CASE today \notin dates
    <3>1. from = now - Day * 1 /\ from < first + Day * n
      BY <1>1, <1>4, <2>2 DEF Day
    <3>2. LocalDate(zone, now - Day * 1) = today - 1
      BY <1>3, DateBack
    <3> QED BY <1>5, <2>2, <3>1, <3>2
  <2> QED BY <2>1, <2>2
<1>7. ASSUME NEW k \in Nat PROVE LocalDate(zone, from - Day * k) \in dates <=> last - k \in dates
  <2>1. LocalDate(zone, from - Day * k) = IF last < k THEN 0 ELSE last - k
    BY <1>6, DateBack
  <2> QED BY <2>1
<1>8. PICK k \in 0..c : last - k \notin dates /\ \A j \in 0..(k - 1) : last - j \in dates
  <2>1. dates \in SUBSET Nat
    OBVIOUS
  <2> QED BY <1>2, <2>1, DatesEnd
<1>9. PICK real : real = {j \in 0..c : last - j \in dates}
  OBVIOUS
<1>10. PICK back : back = ActiveBack(zone, dates, from, 2 * c)
  OBVIOUS
<1>11. back = {j \in 0..(2 * c) : last - j \in dates}
  <2>1. \A j \in 0..(2 * c) : j \in Nat
    OBVIOUS
  <2> QED BY <1>7, <1>10, <2>1 DEF ActiveBack
<1>12. Ends(real, k) /\ Ends(back, k) /\ k \in 0..(2 * c) /\ 2 * c \in Nat
  BY <1>8, <1>9, <1>11 DEF Ends
<1>13. Run(real, c) = k /\ Run(back, 2 * c) = k
  BY <1>12, RunIs
<1>14. Streak(zone, dates, now) = k
  BY <1>2, <1>3, <1>4, <1>10, <1>13 DEF Streak
<1>15. RealStreak(dates, today) = k
  BY <1>2, <1>5, <1>9, <1>13 DEF RealStreak
<1> QED BY <1>3, <1>14, <1>15

\* Each of the sessions begins on a date, when a day began before.
LEMMA DatesAre ==
    ASSUME NEW zone, IsFiniteSet(zone), NEW ss, IsFiniteSet(ss),
           \A s \in ss : \E m \in zone : m <= s.start
    PROVE  Dates(zone, ss) \in SUBSET (Nat \ {0}) /\ IsFiniteSet(Dates(zone, ss))
<1>1. ASSUME NEW s \in ss PROVE LocalDate(zone, s.start) \in Nat \ {0}
  <2>1. PICK B : B = {m \in zone : m <= s.start}
    OBVIOUS
  <2>2. B \in SUBSET zone /\ B # {}
    BY <2>1
  <2>3. IsFiniteSet(B)
    BY <2>2, FS_Subset
  <2>4. Cardinality(B) \in Nat /\ Cardinality(B) # 0
    BY <2>2, <2>3, FS_CardinalityType, FS_EmptySet
  <2> QED BY <2>1, <2>4 DEF LocalDate
<1>2. PICK f : f = [s \in ss |-> LocalDate(zone, s.start)]
  OBVIOUS
<1>3. f \in Surjection(ss, Dates(zone, ss))
  BY <1>2 DEF Surjection, Dates
<1>4. IsFiniteSet(Dates(zone, ss))
  BY <1>3, FS_Surjection
<1> QED BY <1>1, <1>4 DEF Dates

-----------------------------------------------------------------------------
(* Sums over finite sets.                                                   *)

LEMMA SetInduction ==
    ASSUME NEW S, IsFiniteSet(S), NEW G \in SUBSET SUBSET S, {} \in G,
           \A T \in G : \A x \in S \ T : T \cup {x} \in G
    PROVE  S \in G
<1> DEFINE Sizes == {Cardinality(S \ T) : T \in G}
<1>1. ASSUME NEW T \in G PROVE IsFiniteSet(S \ T) /\ Cardinality(S \ T) \in Nat
  <2>1. S \ T \in SUBSET S
    OBVIOUS
  <2> QED BY <2>1, FS_Subset, FS_CardinalityType
<1>2. Sizes \in SUBSET Nat /\ Sizes # {}
  BY <1>1
<1>3. PICK n \in Sizes : \A m \in Sizes : n <= m
  BY <1>2, LeastOf
<1>4. PICK T \in G : Cardinality(S \ T) = n
  BY <1>3
<1>5. CASE S \ T = {}
  <2>1. T = S
    BY <1>5
  <2> QED BY <2>1
<1>6. CASE S \ T # {}
  <2>1. PICK x \in S \ T : TRUE
    BY <1>6
  <2>2. T \cup {x} \in G
    BY <2>1
  <2>3. S \ (T \cup {x}) = (S \ T) \ {x}
    OBVIOUS
  <2>4. Cardinality((S \ T) \ {x}) = Cardinality(S \ T) - 1
    BY <1>1, <2>1, FS_RemoveElement
  <2>5. n - 1 \in Sizes
    BY <1>4, <2>2, <2>3, <2>4
  <2>6. n \in Nat /\ n <= n - 1
    BY <1>2, <1>3, <2>5
  <2> QED BY <2>6
<1> QED BY <1>5, <1>6

\* What the fold of the weights w over s gives, when iter says what those of smaller sets give.
Folded(iter, w, s) ==
    IF s = {} THEN 0 ELSE w[CHOOSE x \in s : TRUE] + iter[s \ {CHOOSE x \in s : TRUE}]

IsFold(iter, w, S) ==
    iter \in [SUBSET S -> Int] /\ \A s \in SUBSET S : iter[s] = Folded(iter, w, s)

LEMMA FoldDefined ==
    ASSUME NEW D, NEW w \in [D -> Int], NEW S \in SUBSET D, IsFiniteSet(S)
    PROVE  \E iter : IsFold(iter, w, S)
<1> DEFINE Upto(n) == \E iter \in [SUBSET S -> Int] :
                         \A s \in SUBSET S : Cardinality(s) < n => iter[s] = Folded(iter, w, s)
           Beyond == {n \in Nat : ~Upto(n)}
<1>1. ASSUME NEW s \in SUBSET S
      PROVE  IsFiniteSet(s) /\ Cardinality(s) \in Nat /\ Cardinality(s) <= Cardinality(S)
  BY FS_Subset, FS_CardinalityType
<1>2. Upto(0)
  <2> DEFINE iter == [s \in SUBSET S |-> 0]
  <2>1. iter \in [SUBSET S -> Int]
    OBVIOUS
  <2>2. \A s \in SUBSET S : ~(Cardinality(s) < 0)
    BY <1>1
  <2> QED BY <2>1, <2>2
<1>3. ASSUME NEW n \in Nat, Upto(n) PROVE Upto(n + 1)
  <2>1. PICK iter \in [SUBSET S -> Int] :
          \A s \in SUBSET S : Cardinality(s) < n => iter[s] = Folded(iter, w, s)
    BY <1>3
  <2> DEFINE next == [s \in SUBSET S |-> Folded(iter, w, s)]
  <2>2. ASSUME NEW s \in SUBSET S PROVE Folded(iter, w, s) \in Int
    <3>1. CASE s = {}
      BY <3>1 DEF Folded
    <3>2. CASE s # {}
      <4>1. PICK x : x = CHOOSE y \in s : TRUE
        OBVIOUS
      <4>2. x \in s
        BY <3>2, <4>1
      <4>3. s \ {x} \in SUBSET S
        OBVIOUS
      <4>4. w[x] \in Int /\ iter[s \ {x}] \in Int
        BY <2>1, <4>2, <4>3
      <4>5. Folded(iter, w, s) = w[x] + iter[s \ {x}]
        BY <3>2, <4>1 DEF Folded
      <4> QED BY <4>4, <4>5
    <3> QED BY <3>1, <3>2
  <2>3. next \in [SUBSET S -> Int]
    BY <2>2
  <2>4. ASSUME NEW s \in SUBSET S, Cardinality(s) < n + 1 PROVE next[s] = Folded(next, w, s)
    <3>1. CASE s = {}
      BY <3>1 DEF Folded
    <3>2. CASE s # {}
      <4>1. PICK x : x = CHOOSE y \in s : TRUE
        OBVIOUS
      <4>2. x \in s
        BY <3>2, <4>1
      <4>3. s \ {x} \in SUBSET S
        OBVIOUS
      <4>4. Cardinality(s \ {x}) = Cardinality(s) - 1
        BY <1>1, <4>2, FS_RemoveElement
      <4>5. Cardinality(s \ {x}) < n
        BY <1>1, <2>4, <4>4
      <4>6. next[s \ {x}] = iter[s \ {x}]
        BY <2>1, <4>3, <4>5
      <4>7. next[s] = w[x] + iter[s \ {x}]
        BY <3>2, <4>1 DEF Folded
      <4> QED BY <3>2, <4>1, <4>6, <4>7 DEF Folded
    <3> QED BY <3>1, <3>2
  <2> QED BY <2>3, <2>4
<1>4. Beyond = {}
  <2> SUFFICES ASSUME Beyond # {} PROVE FALSE
    OBVIOUS
  <2>1. PICK n \in Beyond : \A m \in Beyond : n <= m
    BY LeastOf
  <2>2. n # 0
    BY <1>2, <2>1
  <2>3. PICK m \in Nat : m = n - 1
    BY <2>1, <2>2
  <2>4. Upto(m)
    <3>1. m < n
      <4>1. n \in Nat
        OBVIOUS
      <4> HIDE DEF Beyond
      <4> QED BY <2>3, <4>1
    <3>2. m \notin Beyond
      <4>1. n \in Nat
        OBVIOUS
      <4> HIDE DEF Beyond
      <4> QED BY <2>1, <3>1, <4>1
    <3> QED BY <3>2
  <2>5. Upto(m + 1)
    BY <1>3, <2>4
  <2>6. m + 1 = n
    BY <2>1, <2>3
  <2> QED BY <2>1, <2>5, <2>6
<1>5. S \in SUBSET S
  OBVIOUS
<1>6. Cardinality(S) + 1 \in Nat
  BY <1>1, <1>5
<1>7. Upto(Cardinality(S) + 1)
  BY <1>4, <1>6
<1>8. \A s \in SUBSET S : Cardinality(s) < Cardinality(S) + 1
  BY <1>1, <1>5
<1> QED BY <1>7, <1>8 DEF IsFold

\* It does not matter which element is taken first.
TakesAny(iter, w, S) == \A s \in SUBSET S : \A y \in s : iter[s] = w[y] + iter[s \ {y}]

LEMMA FoldTakes ==
    ASSUME NEW D, NEW w \in [D -> Int], NEW S \in SUBSET D, IsFiniteSet(S),
           NEW iter, IsFold(iter, w, S)
    PROVE  TakesAny(iter, w, S)
<1>0. iter \in [SUBSET S -> Int] /\ \A s \in SUBSET S : iter[s] = Folded(iter, w, s)
  BY DEF IsFold
<1> DEFINE Takes(s) == \A y \in s : iter[s] = w[y] + iter[s \ {y}]
           Bad == {n \in Nat : \E s \in SUBSET S : Cardinality(s) = n /\ ~Takes(s)}
<1>1. ASSUME NEW s \in SUBSET S PROVE IsFiniteSet(s) /\ Cardinality(s) \in Nat
  BY FS_Subset, FS_CardinalityType
<1>2. ASSUME NEW n \in Bad, \A m \in Bad : n <= m PROVE FALSE
  <2>1. PICK s \in SUBSET S : ~Takes(s) /\ Cardinality(s) = n
    OBVIOUS
  <2>2. PICK y \in s : iter[s] # w[y] + iter[s \ {y}]
    BY <2>1
  <2>3. PICK x : x = CHOOSE z \in s : TRUE
    OBVIOUS
  <2>4. x \in s /\ iter[s] = w[x] + iter[s \ {x}]
    BY <1>0, <2>2, <2>3 DEF Folded
  <2>5. x # y
    BY <2>2, <2>4
  <2>6. ASSUME NEW z \in s PROVE Takes(s \ {z})
    <3>1. s \ {z} \in SUBSET S /\ Cardinality(s \ {z}) = Cardinality(s) - 1
      BY <1>1, FS_RemoveElement
    <3>2. PICK m \in Nat : m = Cardinality(s \ {z})
      BY <1>1, <3>1
    <3>3. m < n
      BY <1>1, <2>1, <3>1, <3>2
    <3>4. m \notin Bad
      <4>1. n \in Nat
        OBVIOUS
      <4> HIDE DEF Bad
      <4> QED BY <1>2, <3>3, <4>1
    <3> QED BY <3>1, <3>2, <3>4
  <2>7. iter[s \ {x}] = w[y] + iter[(s \ {x}) \ {y}]
    BY <2>4, <2>5, <2>6
  <2>8. iter[s \ {y}] = w[x] + iter[(s \ {y}) \ {x}]
    BY <2>4, <2>5, <2>6
  <2>9. (s \ {x}) \ {y} = (s \ {y}) \ {x} /\ (s \ {x}) \ {y} \in SUBSET S
    OBVIOUS
  <2>10. iter[(s \ {x}) \ {y}] \in Int /\ w[x] \in Int /\ w[y] \in Int
    BY <1>0, <2>4, <2>9
  <2>11. PICK rest \in Int : rest = iter[(s \ {x}) \ {y}]
    BY <2>10
  <2>12. iter[s] = w[x] + (w[y] + rest) /\ iter[s \ {y}] = w[x] + rest
    BY <2>4, <2>7, <2>8, <2>9, <2>11
  <2>13. iter[s] = w[y] + iter[s \ {y}]
    BY <2>10, <2>12
  <2> QED BY <2>2, <2>13
<1>3. Bad \in SUBSET Nat
  OBVIOUS
<1>4. Bad = {}
  BY <1>2, <1>3, LeastOf
<1>5. ASSUME NEW s \in SUBSET S PROVE Takes(s)
  BY <1>1, <1>4
<1> QED BY <1>5 DEF TakesAny

LEMMA SumIsFold ==
    ASSUME NEW D, NEW w \in [D -> Int], NEW S \in SUBSET D, IsFiniteSet(S)
    PROVE  \E iter : IsFold(iter, w, S) /\ SumFunctionOnSet(w, S) = iter[S]
<1> DEFINE It == CHOOSE f : f = [s \in SUBSET S |->
                     IF s = {} THEN 0
                     ELSE w[CHOOSE x \in s : TRUE] + f[s \ {CHOOSE x \in s : TRUE}]]
<1>1. SumFunctionOnSet(w, S) = It[S]
  BY DEF SumFunctionOnSet, FoldFunctionOnSet, MapThenFoldSet
<1>2. PICK iter : IsFold(iter, w, S)
  <2> HIDE DEF It
  <2> QED BY FoldDefined
<1>3. iter = [s \in SUBSET S |->
                 IF s = {} THEN 0
                 ELSE w[CHOOSE x \in s : TRUE] + iter[s \ {CHOOSE x \in s : TRUE}]]
  BY <1>2 DEF IsFold, Folded
<1>4. It = [s \in SUBSET S |->
                 IF s = {} THEN 0
                 ELSE w[CHOOSE x \in s : TRUE] + It[s \ {CHOOSE x \in s : TRUE}]]
  BY <1>3
<1> HIDE DEF It
<1>5. \A s \in SUBSET S : It[s] = Folded(It, w, s)
  BY <1>4 DEF Folded
<1> DEFINE Bad == {n \in Nat : \E s \in SUBSET S : Cardinality(s) = n /\ It[s] \notin Int}
<1>6. ASSUME NEW s \in SUBSET S PROVE IsFiniteSet(s) /\ Cardinality(s) \in Nat
  BY FS_Subset, FS_CardinalityType
<1>7. ASSUME NEW n \in Bad, \A m \in Bad : n <= m PROVE FALSE
  <2>1. PICK s \in SUBSET S : Cardinality(s) = n /\ It[s] \notin Int
    OBVIOUS
  <2>2. PICK x : x = CHOOSE y \in s : TRUE
    OBVIOUS
  <2>3. s # {}
    BY <1>5, <2>1 DEF Folded
  <2>4. x \in s
    BY <2>2, <2>3
  <2>5. It[s] = w[x] + It[s \ {x}]
    BY <1>5, <2>2, <2>3 DEF Folded
  <2>6. s \ {x} \in SUBSET S /\ Cardinality(s \ {x}) = n - 1
    BY <1>6, <2>1, <2>4, FS_RemoveElement
  <2>7. It[s \ {x}] \notin Int
    BY <2>1, <2>4, <2>5
  <2>8. PICK m : m = n - 1
    OBVIOUS
  <2>9. m \in Nat /\ m \in Bad
    BY <1>6, <2>6, <2>7, <2>8
  <2>10. n \in Nat
    OBVIOUS
  <2> HIDE DEF Bad
  <2> QED BY <1>7, <2>8, <2>9, <2>10
<1>8. Bad = {}
  <2>1. Bad \in SUBSET Nat
    OBVIOUS
  <2> HIDE DEF Bad
  <2> QED BY <1>7, <2>1, LeastOf
<1>9. \A s \in SUBSET S : It[s] \in Int
  BY <1>6, <1>8
<1>10. It \in [SUBSET S -> Int]
  BY <1>4, <1>9
<1> QED BY <1>1, <1>5, <1>10 DEF IsFold

LEMMA SumOfNone == ASSUME NEW D, NEW w \in [D -> Int] PROVE SumFunctionOnSet(w, {}) = 0
<1>1. IsFiniteSet({}) /\ {} \in SUBSET D
  BY FS_EmptySet
<1>2. PICK iter : IsFold(iter, w, {}) /\ SumFunctionOnSet(w, {}) = iter[{}]
  BY <1>1, SumIsFold
<1> QED BY <1>2 DEF IsFold, Folded

LEMMA SumTakes ==
    ASSUME NEW D, NEW w \in [D -> Int], NEW S \in SUBSET D, IsFiniteSet(S), NEW y \in S
    PROVE  /\ SumFunctionOnSet(w, S) \in Int /\ SumFunctionOnSet(w, S \ {y}) \in Int
           /\ SumFunctionOnSet(w, S) = w[y] + SumFunctionOnSet(w, S \ {y})
<1> DEFINE R == S \ {y}
<1>1. PICK iter : IsFold(iter, w, S) /\ SumFunctionOnSet(w, S) = iter[S]
  BY SumIsFold
<1>2. R \in SUBSET S /\ R \in SUBSET D /\ IsFiniteSet(R)
  BY FS_RemoveElement
<1>3. PICK other : IsFold(other, w, R) /\ SumFunctionOnSet(w, R) = other[R]
  BY <1>2, SumIsFold
<1> HIDE DEF R
<1>4. TakesAny(iter, w, S) /\ TakesAny(other, w, R)
  BY <1>1, <1>2, <1>3, FoldTakes
<1> DEFINE Same == {s \in SUBSET R : iter[s] = other[s]}
<1>6. {} \in Same
  BY <1>1, <1>3 DEF IsFold, Folded
<1>7. ASSUME NEW s \in Same, NEW x \in R \ s PROVE s \cup {x} \in Same
  <2>1. s \cup {x} \in SUBSET R /\ s \cup {x} \in SUBSET S /\ x \in s \cup {x}
    BY <1>2
  <2>2. (s \cup {x}) \ {x} = s
    OBVIOUS
  <2> HIDE DEF Same
  <2>3. iter[s \cup {x}] = w[x] + iter[s] /\ other[s \cup {x}] = w[x] + other[s]
    BY <1>4, <2>1, <2>2 DEF TakesAny
  <2>4. iter[s] = other[s]
    BY DEF Same
  <2> QED BY <2>1, <2>3, <2>4 DEF Same
<1>8. R \in Same
  <2>1. Same \in SUBSET SUBSET R
    OBVIOUS
  <2> HIDE DEF Same, R
  <2> QED BY <1>2, <1>6, <1>7, <2>1, SetInduction
<1>9. iter[S] = w[y] + iter[R] /\ iter[R] = other[R] /\ iter[S] \in Int /\ other[R] \in Int
  BY <1>1, <1>2, <1>3, <1>4, <1>8 DEF R, Same, IsFold, TakesAny
<1> QED BY <1>1, <1>3, <1>9 DEF R

LEMMA SumAdds ==
    ASSUME NEW D, NEW w \in [D -> Int], NEW S \in SUBSET D, IsFiniteSet(S), NEW y \in D \ S
    PROVE  SumFunctionOnSet(w, S \cup {y}) = SumFunctionOnSet(w, S) + w[y] /\ SumFunctionOnSet(w, S) \in Int
<1>1. IsFiniteSet(S \cup {y}) /\ S \cup {y} \in SUBSET D /\ (S \cup {y}) \ {y} = S /\ y \in S \cup {y}
  BY FS_AddElement
<1>2. PICK T : T = S \cup {y}
  OBVIOUS
<1>3. /\ SumFunctionOnSet(w, T) \in Int /\ SumFunctionOnSet(w, T \ {y}) \in Int
      /\ SumFunctionOnSet(w, T) = w[y] + SumFunctionOnSet(w, T \ {y})
  BY <1>1, <1>2, SumTakes
<1>4. w[y] \in Int
  OBVIOUS
<1>5. SumFunctionOnSet(w, T \ {y}) = SumFunctionOnSet(w, S)
  BY <1>1, <1>2
<1> QED BY <1>2, <1>3, <1>4, <1>5

\* S is a finite set of what has a weight.
Weighs(w, S) == IsFiniteSet(S) /\ \E D : w \in [D -> Int] /\ S \in SUBSET D

LEMMA SumMore ==
    ASSUME NEW w, NEW S, NEW y, y \notin S, Weighs(w, S \cup {y})
    PROVE  /\ SumFunctionOnSet(w, S \cup {y}) = SumFunctionOnSet(w, S) + w[y]
           /\ SumFunctionOnSet(w, S) \in Int /\ w[y] \in Int
<1>1. PICK D : w \in [D -> Int] /\ S \cup {y} \in SUBSET D
  BY DEF Weighs
<1>2. IsFiniteSet(S)
  <2>1. IsFiniteSet(S \cup {y}) /\ S \in SUBSET (S \cup {y})
    BY DEF Weighs
  <2> QED BY <2>1, FS_Subset
<1>3. S \in SUBSET D /\ y \in D \ S
  BY <1>1
<1>4. w[y] \in Int
  BY <1>1, <1>3
<1> QED BY <1>1, <1>2, <1>3, <1>4, SumAdds

LEMMA SumIsInt ==
    ASSUME NEW w, NEW S, Weighs(w, S)
    PROVE  SumFunctionOnSet(w, S) \in Int
<1>1. PICK D : w \in [D -> Int] /\ S \in SUBSET D /\ IsFiniteSet(S)
  BY DEF Weighs
<1>2. CASE S = {}
  <2>1. SumFunctionOnSet(w, {}) = 0
    BY <1>1, SumOfNone
  <2> QED BY <1>2, <2>1
<1>3. CASE S # {}
  <2>1. PICK y \in S : TRUE
    BY <1>3
  <2> QED BY <1>1, <2>1, SumTakes
<1> QED BY <1>2, <1>3

LEMMA PartWeighs ==
    ASSUME NEW w, NEW S, Weighs(w, S), NEW T \in SUBSET S
    PROVE  Weighs(w, T)
<1>1. PICK D : w \in [D -> Int] /\ S \in SUBSET D /\ IsFiniteSet(S)
  BY DEF Weighs
<1>2. IsFiniteSet(T) /\ T \in SUBSET D
  BY <1>1, FS_Subset
<1> QED BY <1>1, <1>2 DEF Weighs

\* Weights that are the same on a set have the same sum.
Alike(w, v, T) == SumFunctionOnSet(w, T) = SumFunctionOnSet(v, T)

LEMMA SumSame ==
    ASSUME NEW w, NEW v, NEW S, Weighs(w, S), Weighs(v, S), \A x \in S : w[x] = v[x]
    PROVE  SumFunctionOnSet(w, S) = SumFunctionOnSet(v, S)
<1> DEFINE G == {T \in SUBSET S : Alike(w, v, T)}
<1>1. {} \in G
  <2>1. SumFunctionOnSet(w, {}) = 0 /\ SumFunctionOnSet(v, {}) = 0
    BY SumOfNone DEF Weighs
  <2> QED BY <2>1 DEF Alike
<1>2. ASSUME NEW T \in G, NEW x \in S \ T PROVE T \cup {x} \in G
  <2>1. T \cup {x} \in SUBSET S /\ x \notin T /\ w[x] = v[x]
    OBVIOUS
  <2>2. Weighs(w, T \cup {x}) /\ Weighs(v, T \cup {x})
    BY <2>1, PartWeighs
  <2>3. /\ SumFunctionOnSet(w, T \cup {x}) = SumFunctionOnSet(w, T) + w[x]
        /\ SumFunctionOnSet(v, T \cup {x}) = SumFunctionOnSet(v, T) + v[x]
    BY <2>1, <2>2, SumMore
  <2>4. SumFunctionOnSet(w, T) = SumFunctionOnSet(v, T)
    BY DEF Alike
  <2> QED BY <2>1, <2>3, <2>4 DEF Alike
<1>3. S \in G
  <2>1. G \in SUBSET SUBSET S /\ IsFiniteSet(S)
    BY DEF Weighs
  <2> HIDE DEF G
  <2> QED BY <1>1, <1>2, <2>1, SetInduction
<1> QED BY <1>3 DEF Alike

\* One of the weights grows.
LEMMA SumGrows ==
    ASSUME NEW w, NEW v, NEW S, Weighs(w, S), Weighs(v, S), NEW y \in S, NEW d \in Int,
           v[y] = w[y] + d, \A x \in S \ {y} : v[x] = w[x]
    PROVE  SumFunctionOnSet(v, S) = SumFunctionOnSet(w, S) + d
<1>1. PICK R : R = S \ {y}
  OBVIOUS
<1>2. R \in SUBSET S /\ y \notin R /\ S = R \cup {y}
  BY <1>1
<1>3. Weighs(w, R) /\ Weighs(v, R)
  BY <1>2, PartWeighs
<1>4. SumFunctionOnSet(w, R) = SumFunctionOnSet(v, R)
  BY <1>1, <1>3, SumSame
<1>5. /\ SumFunctionOnSet(w, S) = SumFunctionOnSet(w, R) + w[y]
      /\ SumFunctionOnSet(w, R) \in Int /\ w[y] \in Int
  BY <1>2, SumMore
<1>6. SumFunctionOnSet(v, S) = SumFunctionOnSet(v, R) + v[y]
  BY <1>2, SumMore
<1> QED BY <1>4, <1>5, <1>6

\* Nothing adds up to nothing, and ones to the size of the set.
LEMMA SumOfNothing ==
    ASSUME NEW w, NEW S, Weighs(w, S), \A x \in S : w[x] = 0
    PROVE  SumFunctionOnSet(w, S) = 0
<1> DEFINE G == {T \in SUBSET S : SumFunctionOnSet(w, T) = 0}
<1>1. {} \in G
  BY SumOfNone DEF Weighs
<1>2. ASSUME NEW T \in G, NEW x \in S \ T PROVE T \cup {x} \in G
  <2>1. T \cup {x} \in SUBSET S /\ x \notin T /\ w[x] = 0 /\ SumFunctionOnSet(w, T) = 0
    OBVIOUS
  <2>2. Weighs(w, T \cup {x})
    BY <2>1, PartWeighs
  <2>3. SumFunctionOnSet(w, T \cup {x}) = SumFunctionOnSet(w, T) + w[x]
    BY <2>1, <2>2, SumMore
  <2> QED BY <2>1, <2>3
<1>3. S \in G
  <2>1. G \in SUBSET SUBSET S /\ IsFiniteSet(S)
    BY DEF Weighs
  <2> HIDE DEF G
  <2> QED BY <1>1, <1>2, <2>1, SetInduction
<1> QED BY <1>3

LEMMA SumOfOnes ==
    ASSUME NEW w, NEW S, Weighs(w, S), \A x \in S : w[x] = 1
    PROVE  SumFunctionOnSet(w, S) = Cardinality(S)
<1>0. IsFiniteSet(S)
  BY DEF Weighs
<1> DEFINE G == {T \in SUBSET S : SumFunctionOnSet(w, T) = Cardinality(T)}
<1>1. {} \in G
  BY SumOfNone, FS_EmptySet DEF Weighs
<1>2. ASSUME NEW T \in G, NEW x \in S \ T PROVE T \cup {x} \in G
  <2>1. T \cup {x} \in SUBSET S /\ x \notin T /\ w[x] = 1
    OBVIOUS
  <2>2. Weighs(w, T \cup {x})
    BY <2>1, PartWeighs
  <2>3. SumFunctionOnSet(w, T \cup {x}) = SumFunctionOnSet(w, T) + w[x]
    BY <2>1, <2>2, SumMore
  <2>4. IsFiniteSet(T)
    BY <1>0, FS_Subset
  <2>5. Cardinality(T \cup {x}) = Cardinality(T) + 1
    BY <2>1, <2>4, FS_AddElement
  <2>6. SumFunctionOnSet(w, T) = Cardinality(T)
    OBVIOUS
  <2> QED BY <2>1, <2>3, <2>5, <2>6
<1>3. S \in G
  <2>1. G \in SUBSET SUBSET S /\ IsFiniteSet(S)
    BY DEF Weighs
  <2> HIDE DEF G
  <2> QED BY <1>1, <1>2, <2>1, SetInduction
<1> QED BY <1>3

-----------------------------------------------------------------------------
(* The parts of a set, by a key, add up to the set.                         *)

Part(key, T, name) == {x \in T : key[x] = name}
Keys(key, S) == {key[x] : x \in S}
Parts(w, key, T, S) == [name \in Keys(key, S) |-> SumFunctionOnSet(w, Part(key, T, name))]

PartsAddUp(w, key, T, S) ==
    SumFunctionOnSet(Parts(w, key, T, S), Keys(key, S)) = SumFunctionOnSet(w, T)

LEMMA PartsWeigh ==
    ASSUME NEW w, NEW key, NEW S, Weighs(w, S), NEW T \in SUBSET S
    PROVE  Weighs(Parts(w, key, T, S), Keys(key, S))
<1>1. IsFiniteSet(Keys(key, S))
  <2>1. PICK f : f = [x \in S |-> key[x]]
    OBVIOUS
  <2>2. f \in Surjection(S, Keys(key, S))
    BY <2>1 DEF Surjection, Keys
  <2> QED BY <2>2, FS_Surjection DEF Weighs
<1>2. ASSUME NEW name \in Keys(key, S)
      PROVE  SumFunctionOnSet(w, Part(key, T, name)) \in Int
  <2>1. Part(key, T, name) \in SUBSET S
    BY DEF Part
  <2> QED BY <2>1, PartWeighs, SumIsInt
<1>3. Parts(w, key, T, S) \in [Keys(key, S) -> Int]
  BY <1>2 DEF Parts
<1> QED BY <1>1, <1>3 DEF Weighs

LEMMA AllPartsAddUp ==
    ASSUME NEW w, NEW key, NEW S, Weighs(w, S)
    PROVE  PartsAddUp(w, key, S, S)
<1> DEFINE G == {T \in SUBSET S : PartsAddUp(w, key, T, S)}
<1>1. {} \in G
  <2>1. Weighs(Parts(w, key, {}, S), Keys(key, S))
    BY PartsWeigh
  <2>2. SumFunctionOnSet(w, {}) = 0
    BY SumOfNone DEF Weighs
  <2>3. \A name \in Keys(key, S) : Parts(w, key, {}, S)[name] = 0
    <3>1. ASSUME NEW name PROVE Part(key, {}, name) = {}
      BY DEF Part
    <3> QED BY <2>2, <3>1 DEF Parts
  <2>4. SumFunctionOnSet(Parts(w, key, {}, S), Keys(key, S)) = 0
    BY <2>1, <2>3, SumOfNothing
  <2> QED BY <2>2, <2>4 DEF PartsAddUp
<1>2. ASSUME NEW T \in G, NEW x \in S \ T PROVE T \cup {x} \in G
  <2>1. PICK U : U = T \cup {x}
    OBVIOUS
  <2>2. T \in SUBSET S /\ U \in SUBSET S /\ x \notin T /\ key[x] \in Keys(key, S)
    BY <2>1 DEF Keys
  <2>3. PICK old, new : old = Parts(w, key, T, S) /\ new = Parts(w, key, U, S)
    OBVIOUS
  <2>4. Weighs(old, Keys(key, S)) /\ Weighs(new, Keys(key, S))
    BY <2>2, <2>3, PartsWeigh
  <2>5. /\ SumFunctionOnSet(w, U) = SumFunctionOnSet(w, T) + w[x]
        /\ SumFunctionOnSet(w, T) \in Int /\ w[x] \in Int
    BY <2>1, <2>2, PartWeighs, SumMore
  <2>6. new[key[x]] = old[key[x]] + w[x]
    <3>1. PICK P : P = Part(key, T, key[x])
      OBVIOUS
    <3>2. Part(key, U, key[x]) = P \cup {x} /\ x \notin P /\ P \cup {x} \in SUBSET S
      BY <2>1, <2>2, <3>1 DEF Part
    <3>3. SumFunctionOnSet(w, P \cup {x}) = SumFunctionOnSet(w, P) + w[x]
      BY <3>2, PartWeighs, SumMore
    <3> QED BY <2>2, <2>3, <3>1, <3>2, <3>3 DEF Parts
  <2>7. \A name \in Keys(key, S) \ {key[x]} : new[name] = old[name]
    <3>1. ASSUME NEW name, name # key[x] PROVE Part(key, U, name) = Part(key, T, name)
      BY <2>1, <3>1 DEF Part
    <3> QED BY <2>3, <3>1 DEF Parts
  <2>8. SumFunctionOnSet(new, Keys(key, S)) = SumFunctionOnSet(old, Keys(key, S)) + w[x]
    BY <2>2, <2>4, <2>5, <2>6, <2>7, SumGrows
  <2>9. SumFunctionOnSet(old, Keys(key, S)) = SumFunctionOnSet(w, T)
    BY <2>3 DEF PartsAddUp
  <2>10. PartsAddUp(w, key, U, S)
    BY <2>3, <2>5, <2>8, <2>9 DEF PartsAddUp
  <2> QED BY <2>1, <2>2, <2>10
<1>3. S \in G
  <2>1. G \in SUBSET SUBSET S /\ IsFiniteSet(S)
    BY DEF Weighs
  <2> HIDE DEF G
  <2> QED BY <1>1, <1>2, <2>1, SetInduction
<1> QED BY <1>3

-----------------------------------------------------------------------------
(* The parts of a report.                                                   *)

\* Sessions that were read.
IsRead(ss) == IsFiniteSet(ss) /\ ss \subseteq Sessions

MinutesIn(ss) == [s \in ss |-> s.minutes]

LEMMA MinutesWeigh ==
    ASSUME NEW ss, IsRead(ss)
    PROVE  Weighs(MinutesIn(ss), ss)
<1>1. MinutesIn(ss) \in [ss -> Int]
  BY DEF MinutesIn, IsRead, Sessions
<1> QED BY <1>1 DEF Weighs, IsRead

LEMMA MinutesOfPart ==
    ASSUME NEW ss, IsRead(ss), NEW T \in SUBSET ss
    PROVE  Minutes(T) = SumFunctionOnSet(MinutesIn(ss), T)
<1>1. IsRead(T)
  BY FS_Subset DEF IsRead
<1>2. Weighs(MinutesIn(ss), T) /\ Weighs(MinutesIn(T), T)
  BY <1>1, MinutesWeigh, PartWeighs
<1>3. \A s \in T : MinutesIn(ss)[s] = MinutesIn(T)[s]
  BY DEF MinutesIn
<1>4. SumFunctionOnSet(MinutesIn(ss), T) = SumFunctionOnSet(MinutesIn(T), T)
  BY <1>2, <1>3, SumSame
<1>5. Minutes(T) = SumFunctionOnSet(MinutesIn(T), DOMAIN MinutesIn(T)) /\ DOMAIN MinutesIn(T) = T
  BY DEF Minutes, SumFunction, MinutesIn
<1> QED BY <1>4, <1>5

\* What a report says of the sessions by their keys.
Grouped(key, ss) ==
    [name \in Keys(key, ss) |-> [minutes |-> Minutes(Part(key, ss, name)),
                                 count |-> Cardinality(Part(key, ss, name))]]

AreParts(f, total, count) ==
    /\ total = SumFunction([x \in DOMAIN f |-> f[x].minutes])
    /\ count = SumFunction([x \in DOMAIN f |-> f[x].count])

LEMMA GroupsAddUp ==
    ASSUME NEW ss, IsRead(ss), NEW key
    PROVE  AreParts(Grouped(key, ss), Minutes(ss), Cardinality(ss))
<1>1. PICK f : f = Grouped(key, ss)
  OBVIOUS
<1>2. PICK ones : ones = [s \in ss |-> 1]
  OBVIOUS
<1>3. Weighs(MinutesIn(ss), ss)
  BY MinutesWeigh
<1>4. Weighs(ones, ss)
  <2>1. ones \in [ss -> Int]
    BY <1>2
  <2> QED BY <2>1 DEF Weighs, IsRead
<1>5. DOMAIN f = Keys(key, ss)
  BY <1>1 DEF Grouped
<1>6. ASSUME NEW name \in Keys(key, ss)
      PROVE  /\ f[name].minutes = SumFunctionOnSet(MinutesIn(ss), Part(key, ss, name))
             /\ f[name].count = SumFunctionOnSet(ones, Part(key, ss, name))
  <2>1. PICK T : T = Part(key, ss, name)
    OBVIOUS
  <2>2. T \in SUBSET ss
    BY <2>1 DEF Part
  <2>3. f[name].minutes = Minutes(T) /\ f[name].count = Cardinality(T)
    BY <1>1, <2>1 DEF Grouped
  <2>4. Minutes(T) = SumFunctionOnSet(MinutesIn(ss), T)
    BY <2>2, MinutesOfPart
  <2>5. SumFunctionOnSet(ones, T) = Cardinality(T)
    <3>1. Weighs(ones, T)
      BY <1>4, <2>2, PartWeighs
    <3>2. \A s \in T : ones[s] = 1
      BY <1>2, <2>2
    <3> QED BY <3>1, <3>2, SumOfOnes
  <2> QED BY <2>1, <2>3, <2>4, <2>5
<1>7. PICK m, c : m = [x \in DOMAIN f |-> f[x].minutes] /\ c = [x \in DOMAIN f |-> f[x].count]
  OBVIOUS
<1>8. m = Parts(MinutesIn(ss), key, ss, ss) /\ c = Parts(ones, key, ss, ss)
  BY <1>5, <1>6, <1>7 DEF Parts
<1>9. DOMAIN m = Keys(key, ss) /\ DOMAIN c = Keys(key, ss)
  BY <1>5, <1>7
<1>10. SumFunction(m) = SumFunctionOnSet(MinutesIn(ss), ss)
  BY <1>3, <1>8, <1>9, AllPartsAddUp DEF SumFunction, PartsAddUp
<1>11. SumFunction(c) = SumFunctionOnSet(ones, ss)
  BY <1>4, <1>8, <1>9, AllPartsAddUp DEF SumFunction, PartsAddUp
<1>12. SumFunctionOnSet(ones, ss) = Cardinality(ss)
  BY <1>2, <1>4, SumOfOnes
<1>13. Minutes(ss) = SumFunctionOnSet(MinutesIn(ss), ss)
  BY MinutesOfPart
<1> QED BY <1>1, <1>7, <1>10, <1>11, <1>12, <1>13 DEF AreParts

LEMMA SubjectsAddUp ==
    ASSUME NEW ss, IsRead(ss)
    PROVE  AreParts(BySubject(ss), Minutes(ss), Cardinality(ss))
<1>1. PICK key : key = [s \in ss |-> Subject(s)]
  OBVIOUS
<1>2. Keys(key, ss) = {Subject(s) : s \in ss}
  BY <1>1 DEF Keys
<1>3. \A name : Part(key, ss, name) = {s \in ss : Subject(s) = name}
  BY <1>1 DEF Part
<1>4. BySubject(ss) = Grouped(key, ss)
  BY <1>2, <1>3 DEF BySubject, Grouped
<1> QED BY <1>4, GroupsAddUp

LEMMA DaysAddUp ==
    ASSUME NEW ss, IsRead(ss), NEW zone
    PROVE  AreParts(ByDay(zone, ss), Minutes(ss), Cardinality(ss))
<1>1. PICK key : key = [s \in ss |-> LocalDate(zone, s.start)]
  OBVIOUS
<1>2. Keys(key, ss) = Dates(zone, ss)
  BY <1>1 DEF Keys, Dates
<1>3. \A date : Part(key, ss, date) = {s \in ss : LocalDate(zone, s.start) = date}
  BY <1>1 DEF Part
<1>4. ByDay(zone, ss) = Grouped(key, ss)
  BY <1>2, <1>3 DEF ByDay, Grouped
<1> QED BY <1>4, GroupsAddUp

-----------------------------------------------------------------------------
(* Sessions, tasks and the clock.                                           *)

USE CommunityAssumption

Tasks == [user : Users, created : Nat, completed : BOOLEAN]

\* A session that is not finished was started by now, so what is counted of it when it
\* finishes is a number of minutes.
WorkInv ==
    /\ session \subseteq Sessions /\ IsFiniteSet(session)
    /\ \A s \in session : /\ ~s.finished => s.start <= clock
                          /\ s.start \in mix.moments \cup mix.starts
    /\ task \in Seq(Tasks)
    /\ mix \in Mixes /\ clock \in mix.moments

LEMMA ClockIsNat == ASSUME WorkInv PROVE clock \in Nat
BY DEF WorkInv

LEMMA WorkQuiet ==
    ASSUME WorkInv, UNCHANGED <<session, task, clock, mix>>
    PROVE  WorkInv'
BY DEF WorkInv

\* A session more, and time goes no way back.
LEMMA SessionStored ==
    ASSUME WorkInv, NEW s \in Sessions, NEW old \in SUBSET session, session' = old \cup {s},
           ~s.finished => s.start <= clock, s.start \in mix.moments \cup mix.starts,
           UNCHANGED <<task, clock, mix>>
    PROVE  WorkInv'
<1>1. IsFiniteSet(old \cup {s})
  BY FS_Subset, FS_AddElement DEF WorkInv
<1> QED BY <1>1 DEF WorkInv

LEMMA StudyWorks ==
    ASSUME WorkInv, NEW u \in Users, Study(u)
    PROVE  WorkInv'
<1>1. PICK s : s = [user |-> u, start |-> clock, minutes |-> 0, subject |-> NULL, finished |-> FALSE]
  OBVIOUS
<1>2. s \in Sessions /\ s.start = clock
  BY <1>1, ClockIsNat DEF Sessions
<1>3. session' = session \cup {s} /\ UNCHANGED <<task, clock, mix>>
  BY <1>1 DEF Study, Others
<1>4. clock <= clock /\ clock \in mix.moments
  BY ClockIsNat DEF WorkInv
<1> QED BY <1>2, <1>3, <1>4, SessionStored

LEMMA FinishWorks ==
    ASSUME WorkInv, NEW u \in Users, FinishStudy(u)
    PROVE  WorkInv'
<1>1. PICK s \in session :
         /\ ~s.finished
         /\ session' = (session \ {s}) \cup
                          {[s EXCEPT !.finished = TRUE, !.minutes = 60 * (clock - s.start)]}
  BY DEF FinishStudy
<1>2. s \in Sessions /\ s.start <= clock /\ s.start \in Nat /\ clock \in Nat
  BY <1>1, ClockIsNat DEF WorkInv, Sessions
<1>3. PICK n : n = 60 * (clock - s.start)
  OBVIOUS
<1>4. n \in Nat
  BY <1>2, <1>3
<1>5. PICK t : t = [s EXCEPT !.finished = TRUE, !.minutes = n]
  OBVIOUS
<1>6. t \in Sessions /\ t.finished /\ t.start = s.start
  BY <1>2, <1>4, <1>5 DEF Sessions
<1>7. session' = (session \ {s}) \cup {t} /\ UNCHANGED <<task, clock, mix>>
  BY <1>1, <1>3, <1>5 DEF FinishStudy, Others
<1>8. t.start \in mix.moments \cup mix.starts
  BY <1>1, <1>6 DEF WorkInv
<1> QED BY <1>6, <1>7, <1>8, SessionStored

LEMMA RecordWorks ==
    ASSUME WorkInv, NEW u \in Users, NEW start \in mix.starts, NEW subject \in Subjects \cup {NULL},
           Record(u, start, subject)
    PROVE  WorkInv'
<1>1. PICK s : s = [user |-> u, start |-> start, minutes |-> 60, subject |-> subject,
                    finished |-> TRUE]
  OBVIOUS
<1>2. start \in Nat
  BY DEF WorkInv
<1>3. s \in Sessions /\ s.finished /\ s.start \in mix.starts
  BY <1>1, <1>2 DEF Sessions
<1>4. session' = session \cup {s} /\ UNCHANGED <<task, clock, mix>>
  BY <1>1 DEF Record, Others
<1> QED BY <1>3, <1>4, SessionStored

LEMMA PlanWorks ==
    ASSUME WorkInv, NEW u \in Users, Plan(u)
    PROVE  WorkInv'
<1>1. PICK t : t = [user |-> u, created |-> clock, completed |-> FALSE]
  OBVIOUS
<1>2. t \in Tasks
  BY <1>1, ClockIsNat DEF Tasks
<1>3. task' = Append(task, t) /\ UNCHANGED <<session, clock, mix>>
  BY <1>1 DEF Plan, Others
<1>4. task' \in Seq(Tasks)
  BY <1>2, <1>3, AppendProperties DEF WorkInv
<1> QED BY <1>3, <1>4 DEF WorkInv

LEMMA CompleteWorks ==
    ASSUME WorkInv, NEW k, CompleteTask(k)
    PROVE  WorkInv'
<1>1. /\ k \in DOMAIN task /\ UNCHANGED <<session, clock, mix>>
      /\ task' = [task EXCEPT ![k] = [task[k] EXCEPT !.completed = TRUE]]
  BY DEF CompleteTask, Others
<1>2. k \in 1..Len(task) /\ task[k] \in Tasks
  BY <1>1, LenProperties, ElementOfSeq DEF WorkInv
<1>3. PICK t : t = [task[k] EXCEPT !.completed = TRUE]
  OBVIOUS
<1>4. t \in Tasks
  BY <1>2, <1>3 DEF Tasks
<1>5. task' \in Seq(Tasks)
  BY <1>1, <1>2, <1>3, <1>4, ExceptSeq DEF WorkInv
<1> QED BY <1>1, <1>5 DEF WorkInv

LEMMA TickWorks ==
    ASSUME WorkInv, Tick
    PROVE  WorkInv'
<1>1. PICK later : later = {t \in mix.moments : t > clock}
  OBVIOUS
<1>2. later \in SUBSET Nat /\ later # {}
  BY <1>1 DEF WorkInv, Tick
<1>3. clock' \in later
  BY <1>1, <1>2, MinIsLeast DEF Tick
<1>4. clock' \in mix.moments /\ clock' > clock /\ clock' \in Nat /\ clock \in Nat
  BY <1>1, <1>2, <1>3, ClockIsNat
<1>5. UNCHANGED <<session, task, mix>>
  BY DEF Tick, Others
<1>6. \A s \in session : s.start \in Nat
  BY DEF WorkInv, Sessions
<1> QED BY <1>4, <1>5, <1>6 DEF WorkInv

-----------------------------------------------------------------------------
(* Links, groups, members and requests.                                     *)

Links == [user : Users, days : Nat, expiresAt : Nat, isRevoked : BOOLEAN]

TablesInv ==
    /\ link \in Seq(Links)
    /\ group \in [Groups -> Users \cup {NULL}]
    /\ member \in Seq(Memberships \cup {NULL})
    /\ told \subseteq {g \in Groups : group[g] # NULL}

Fields == DOMAIN Idle

\* What a request is about exists, as long as it takes: a link, a group of the user who
\* created it, a group to join, a row of member. A link that was over when a report was
\* asked for does not work when it is checked, and no report is made of it.
RequestOk(q) ==
    /\ DOMAIN q = Fields /\ q.at \in Ats
    /\ q.dead \subseteq DOMAIN link
    /\ q.at \notin {"check", "sessions", "report"} => q.dead = {}
    /\ q.at = "check" => /\ q.of \in DOMAIN link
                         /\ q.of \in q.dead => ~Works(q.of, q.since)
    /\ q.at \in {"sessions", "report"} => q.of \notin q.dead
    /\ q.at = "revoke" => q.of \in DOMAIN link
    /\ q.at = "admin" => q.of \in Groups /\ q.user \in Users /\ group[q.of] = q.user
    /\ q.at = "join" => q.of \in Groups /\ q.user \in Users
    /\ q.at = "leave" => q.of \in DOMAIN member

RequestsInv ==
    /\ req = [c \in Clients |-> req[c]]
    /\ \A c \in Clients : RequestOk(req[c])

AnswersInv ==
    /\ answer = [c \in Clients |-> answer[c]]
    /\ \A c \in Clients : answer[c].is = "report" => answer[c].link \notin answer[c].dead

\* Inductive.
CommunityInv == WorkInv /\ TablesInv /\ RequestsInv /\ AnswersInv /\ CreatorIsAdmin

LEMMA TypesFromInv == ASSUME CommunityInv PROVE TypeOK
BY DEF CommunityInv, WorkInv, TablesInv, RequestsInv, RequestOk, TypeOK, Tasks, Links

LEMMA ReportFromInv == ASSUME CommunityInv PROVE ReportWhileValid
BY DEF CommunityInv, AnswersInv, ReportWhileValid, Got

LEMMA IdleOk == RequestOk(Idle)
BY DEF RequestOk, Idle, Fields, Ats

\* The request that is sent for a user, before it holds anything.
LEMMA Gone ==
    ASSUME NEW c, NEW at
    PROVE  /\ DOMAIN Goes(c, at) = Fields
           /\ Goes(c, at).at = at /\ Goes(c, at).user = Me(c)
           /\ Goes(c, at).of = NULL /\ Goes(c, at).dead = {}
BY DEF Goes, Idle, Fields

LEMMA FieldNames == {"at", "user", "of", "list", "since", "seen", "dead"} = Fields
BY DEF Fields, Idle

\* Who sends a request is a user.
LEMMA SenderIsUser ==
    ASSUME WorkInv, NEW c, NEW op, Sends(c, op)
    PROVE  Me(c) \in Users
BY DEF WorkInv, Sends, Me

\* A step of one request that writes no table, and leaves the request in order.
LEMMA RequestMoves ==
    ASSUME CommunityInv, NEW c \in Clients, NEW new, Becomes(c, new), RequestOk(new),
           UNCHANGED <<session, task, link, group, member, told, left, answer, clock, mix>>
    PROVE  CommunityInv'
<1>1. WorkInv' /\ TablesInv' /\ AnswersInv' /\ CreatorIsAdmin'
  BY WorkQuiet DEF CommunityInv, TablesInv, AnswersInv, CreatorIsAdmin, RowsOf
<1>2. req' = [d \in Clients |-> IF d = c THEN new ELSE req[d]]
  BY DEF CommunityInv, RequestsInv, Becomes
<1>3. \A q : RequestOk(q) => RequestOk(q)'
  BY DEF RequestOk, Works
<1>4. RequestsInv'
  <2>1. ASSUME NEW d \in Clients PROVE RequestOk(req[d])'
    <3>1. RequestOk(req'[d])
      BY <1>2 DEF CommunityInv, RequestsInv
    <3> QED BY <3>1 DEF RequestOk, Works
  <2> QED BY <1>2, <2>1 DEF RequestsInv
<1> QED BY <1>1, <1>4 DEF CommunityInv

\* An answer, of which a report is not of a link that was over.
LEMMA RequestEnds ==
    ASSUME CommunityInv, NEW c \in Clients, NEW a, Answers(c, a), Becomes(c, Idle),
           a.is = "report" => a.link \notin a.dead,
           UNCHANGED <<session, task, link, group, member, told, left, clock, mix>>
    PROVE  CommunityInv'
<1>1. WorkInv' /\ TablesInv' /\ CreatorIsAdmin'
  BY WorkQuiet DEF CommunityInv, TablesInv, CreatorIsAdmin, RowsOf
<1>2. req' = [d \in Clients |-> IF d = c THEN Idle ELSE req[d]]
  BY DEF CommunityInv, RequestsInv, Becomes
<1>3. answer' = [d \in Clients |-> IF d = c THEN a ELSE answer[d]]
  BY DEF CommunityInv, AnswersInv, Answers
<1>4. AnswersInv'
  BY <1>3 DEF CommunityInv, AnswersInv
<1>5. RequestsInv'
  <2>1. ASSUME NEW d \in Clients PROVE RequestOk(req[d])'
    <3>1. RequestOk(req'[d])
      BY <1>2, IdleOk DEF CommunityInv, RequestsInv
    <3> QED BY <3>1 DEF RequestOk, Works
  <2> QED BY <1>2, <2>1 DEF RequestsInv
<1> QED BY <1>1, <1>4, <1>5 DEF CommunityInv

-----------------------------------------------------------------------------
(* Requests that write no table.                                            *)

\* What holds of a request that read no more than sessions, tasks and members.
LEMMA ReadsOn ==
    ASSUME CommunityInv, NEW c \in Clients, NEW new, Becomes(c, new),
           DOMAIN new = Fields, new.at \in {"tasks", "streak", "members", "board"}, new.dead = {},
           UNCHANGED <<session, task, link, group, member, told, left, answer, clock, mix>>
    PROVE  CommunityInv'
<1>1. RequestOk(new)
  BY DEF RequestOk, Ats
<1> QED BY <1>1, RequestMoves

LEMMA AskProgressOk ==
    ASSUME CommunityInv, NEW c \in Clients, AskProgress(c)
    PROVE  CommunityInv'
<1>1. PICK since, seen :
         Becomes(c, [Goes(c, "tasks") EXCEPT !.since = since, !.seen = seen])
  BY DEF AskProgress
<1>2. PICK q : q = Goes(c, "tasks")
  OBVIOUS
<1>3. PICK new : new = [q EXCEPT !.since = since, !.seen = seen]
  OBVIOUS
<1>4. DOMAIN new = Fields /\ new.at = "tasks" /\ new.dead = {}
  BY <1>2, <1>3, Gone, FieldNames
<1>5. Becomes(c, new)
  BY <1>1, <1>2, <1>3
<1> QED BY <1>4, <1>5, ReadsOn DEF AskProgress

LEMMA ProgressTasksOk ==
    ASSUME CommunityInv, NEW c \in Clients, ProgressTasks(c)
    PROVE  CommunityInv'
<1>1. PICK seen : Becomes(c, [req[c] EXCEPT !.at = "streak", !.seen = seen])
  BY DEF ProgressTasks
<1>2. PICK new : new = [req[c] EXCEPT !.at = "streak", !.seen = seen]
  OBVIOUS
<1>3. req[c].at = "tasks" /\ RequestOk(req[c])
  BY DEF ProgressTasks, CommunityInv, RequestsInv
<1>4. DOMAIN new = Fields /\ new.at = "streak" /\ new.dead = {}
  BY <1>2, <1>3, FieldNames DEF RequestOk
<1>5. Becomes(c, new)
  BY <1>1, <1>2
<1> QED BY <1>4, <1>5, ReadsOn DEF ProgressTasks

LEMMA ProgressStreakOk ==
    ASSUME CommunityInv, NEW c \in Clients, ProgressStreak(c)
    PROVE  CommunityInv'
<1>1. PICK total, count, rate, subjects, days, streak, real :
         Answers(c, [is |-> "progress", total |-> total, count |-> count, rate |-> rate,
                     subjects |-> subjects, days |-> days, streak |-> streak, real |-> real])
  BY DEF ProgressStreak
<1>2. PICK a : a = [is |-> "progress", total |-> total, count |-> count, rate |-> rate,
                    subjects |-> subjects, days |-> days, streak |-> streak, real |-> real]
  OBVIOUS
<1>3. Answers(c, a) /\ a.is # "report"
  BY <1>1, <1>2
<1> QED BY <1>3, RequestEnds DEF ProgressStreak

LEMMA AskBoardOk ==
    ASSUME CommunityInv, NEW c \in Clients, NEW g \in Groups, AskBoard(c, g)
    PROVE  CommunityInv'
<1>1. PICK q : q = Goes(c, "members")
  OBVIOUS
<1>2. PICK new : new = [q EXCEPT !.of = g]
  OBVIOUS
<1>3. DOMAIN new = Fields /\ new.at = "members" /\ new.dead = {}
  BY <1>1, <1>2, Gone, FieldNames
<1>4. Becomes(c, new)
  BY <1>1, <1>2 DEF AskBoard
<1> QED BY <1>3, <1>4, ReadsOn DEF AskBoard

LEMMA ReadMembersOk ==
    ASSUME CommunityInv, NEW c \in Clients, ReadMembers(c)
    PROVE  CommunityInv'
<1>1. PICK list, since, seen :
         Becomes(c, [req[c] EXCEPT !.at = "board", !.list = list, !.since = since, !.seen = seen])
  BY DEF ReadMembers
<1>2. PICK new : new = [req[c] EXCEPT !.at = "board", !.list = list, !.since = since, !.seen = seen]
  OBVIOUS
<1>3. req[c].at = "members" /\ RequestOk(req[c])
  BY DEF ReadMembers, CommunityInv, RequestsInv
<1>4. DOMAIN new = Fields /\ new.at = "board" /\ new.dead = {}
  BY <1>2, <1>3, FieldNames DEF RequestOk
<1>5. Becomes(c, new)
  BY <1>1, <1>2
<1> QED BY <1>4, <1>5, ReadsOn DEF ReadMembers

\* Each read for a member of the list adds to what was seen of him.
LEMMA BoardReadsOk ==
    ASSUME CommunityInv, NEW c \in Clients, NEW k, ReadTasks(c, k) \/ ReadSessions(c, k)
    PROVE  CommunityInv'
<1>1. PICK seen : Becomes(c, [req[c] EXCEPT !.seen = seen])
  <2>1. CASE ReadTasks(c, k)
    <3>1. PICK x : Becomes(c, [req[c] EXCEPT !.seen = [req[c].seen EXCEPT ![k] = x]])
      BY <2>1 DEF ReadTasks
    <3> QED BY <3>1
  <2>2. CASE ReadSessions(c, k)
    <3>1. PICK x : Becomes(c, [req[c] EXCEPT !.seen = [req[c].seen EXCEPT ![k] = x]])
      BY <2>2 DEF ReadSessions
    <3> QED BY <3>1
  <2> QED BY <2>1, <2>2
<1>2. PICK new : new = [req[c] EXCEPT !.seen = seen]
  OBVIOUS
<1>3. req[c].at = "board" /\ RequestOk(req[c])
  BY DEF ReadTasks, ReadSessions, CommunityInv, RequestsInv
<1>4. DOMAIN new = Fields /\ new.at = "board" /\ new.dead = {}
  BY <1>2, <1>3, FieldNames DEF RequestOk
<1>5. Becomes(c, new)
  BY <1>1, <1>2
<1>6. UNCHANGED <<session, task, link, group, member, told, left, answer, clock, mix>>
  BY DEF ReadTasks, ReadSessions
<1> QED BY <1>4, <1>5, <1>6, ReadsOn

LEMMA RankOk ==
    ASSUME CommunityInv, NEW c \in Clients, Rank(c)
    PROVE  CommunityInv'
<1>1. PICK ranks : Answers(c, [is |-> "board", ranks |-> ranks])
  BY DEF Rank
<1>2. PICK a : a = [is |-> "board", ranks |-> ranks]
  OBVIOUS
<1>3. Answers(c, a) /\ a.is # "report"
  BY <1>1, <1>2
<1> QED BY <1>3, RequestEnds DEF Rank

LEMMA AbortOk ==
    ASSUME CommunityInv, NEW c \in Clients, Abort(c)
    PROVE  CommunityInv'
BY IdleOk, RequestMoves DEF Abort

-----------------------------------------------------------------------------
(* Links and reports.                                                       *)

LEMMA RevokeOk ==
    ASSUME CommunityInv, NEW c \in Clients, NEW k, Revoke(c, k)
    PROVE  CommunityInv'
<1>1. PICK q : q = Goes(c, "revoke")
  OBVIOUS
<1>2. PICK new : new = [q EXCEPT !.of = k]
  OBVIOUS
<1>3. DOMAIN new = Fields /\ new.at = "revoke" /\ new.of = k /\ new.dead = {}
  BY <1>1, <1>2, Gone, FieldNames
<1>4. k \in DOMAIN link /\ Becomes(c, new)
  BY <1>1, <1>2 DEF Revoke
<1>5. RequestOk(new)
  BY <1>3, <1>4 DEF RequestOk, Ats
<1> QED BY <1>4, <1>5, RequestMoves DEF Revoke

\* What is over does not work.
LEMMA OverIsOver ==
    ASSUME WorkInv, link \in Seq(Links), NEW k \in Over
    PROVE  ~Works(k, clock)
<1>1. k \in 1..Len(link) /\ (link[k].isRevoked \/ link[k].expiresAt <= clock)
  BY LenProperties DEF Over
<1>2. link[k].expiresAt \in Nat /\ clock \in Nat
  <2>1. link[k] \in Links
    BY <1>1, ElementOfSeq
  <2> QED BY <2>1, ClockIsNat DEF Links
<1>3. CASE link[k].isRevoked
  BY <1>3 DEF Works
<1>4. CASE link[k].expiresAt <= clock
  <2>1. ~(link[k].expiresAt > clock)
    BY <1>2, <1>4
  <2> QED BY <2>1 DEF Works
<1> QED BY <1>1, <1>3, <1>4

LEMMA AskReportOk ==
    ASSUME CommunityInv, NEW c \in Clients, NEW k, AskReport(c, k)
    PROVE  CommunityInv'
<1>1. PICK q : q = Goes(c, "check")
  OBVIOUS
<1>2. PICK dead, now : dead = Over /\ now = clock
  OBVIOUS
<1>3. PICK new : new = [q EXCEPT !.of = k, !.since = now, !.dead = dead]
  OBVIOUS
<1>4. DOMAIN new = Fields /\ new.at = "check" /\ new.of = k /\ new.since = now /\ new.dead = dead
  BY <1>1, <1>3, Gone, FieldNames
<1>5. Becomes(c, new) /\ k \in DOMAIN link
  BY <1>1, <1>2, <1>3 DEF AskReport
<1>6. dead \subseteq DOMAIN link /\ (k \in dead => ~Works(k, now))
  BY <1>2, OverIsOver DEF Over, CommunityInv, TablesInv
<1>7. RequestOk(new)
  BY <1>4, <1>5, <1>6 DEF RequestOk, Ats
<1> QED BY <1>5, <1>7, RequestMoves DEF AskReport

\* A link that works was not over when the request arrived.
LEMMA CheckReportOk ==
    ASSUME CommunityInv, NEW c \in Clients, CheckReport(c)
    PROVE  CommunityInv'
<1>1. PICK q : q = req[c]
  OBVIOUS
<1>2. q.at = "check" /\ RequestOk(q)
  BY <1>1 DEF CheckReport, CommunityInv, RequestsInv
<1>3. CASE ~Works(q.of, q.since)
  BY <1>1, <1>3, IdleOk, RequestMoves DEF CheckReport
<1>4. CASE Works(q.of, q.since)
  <2>1. PICK since : Becomes(c, [q EXCEPT !.at = "sessions", !.since = since])
    BY <1>1, <1>4 DEF CheckReport
  <2>2. PICK new : new = [q EXCEPT !.at = "sessions", !.since = since]
    OBVIOUS
  <2>3. DOMAIN new = Fields /\ new.at = "sessions" /\ new.of = q.of /\ new.dead = q.dead
    BY <1>2, <2>2, FieldNames DEF RequestOk
  <2>4. RequestOk(new)
    BY <1>2, <1>4, <2>3 DEF RequestOk, Ats
  <2> QED BY <2>1, <2>2, <2>4, RequestMoves DEF CheckReport
<1> QED BY <1>3, <1>4

LEMMA ReportSessionsOk ==
    ASSUME CommunityInv, NEW c \in Clients, ReportSessions(c)
    PROVE  CommunityInv'
<1>1. PICK seen : Becomes(c, [req[c] EXCEPT !.at = "report", !.seen = seen])
  BY DEF ReportSessions
<1>2. PICK new : new = [req[c] EXCEPT !.at = "report", !.seen = seen]
  OBVIOUS
<1>3. req[c].at = "sessions" /\ RequestOk(req[c])
  BY DEF ReportSessions, CommunityInv, RequestsInv
<1>4. /\ DOMAIN new = Fields /\ new.at = "report"
      /\ new.of = req[c].of /\ new.dead = req[c].dead
  BY <1>2, <1>3, FieldNames DEF RequestOk
<1>5. RequestOk(new) /\ Becomes(c, new)
  BY <1>1, <1>2, <1>3, <1>4 DEF RequestOk, Ats
<1> QED BY <1>5, RequestMoves DEF ReportSessions

LEMMA ReportTasksOk ==
    ASSUME CommunityInv, NEW c \in Clients, ReportTasks(c)
    PROVE  CommunityInv'
<1>1. PICK total, count, rate :
         Answers(c, [is |-> "report", link |-> req[c].of, dead |-> req[c].dead,
                     total |-> total, count |-> count, rate |-> rate])
  BY DEF ReportTasks
<1>2. PICK a : a = [is |-> "report", link |-> req[c].of, dead |-> req[c].dead,
                    total |-> total, count |-> count, rate |-> rate]
  OBVIOUS
<1>3. req[c].of \notin req[c].dead
  BY DEF ReportTasks, CommunityInv, RequestsInv, RequestOk
<1>4. Answers(c, a) /\ a.link \notin a.dead
  BY <1>1, <1>2, <1>3
<1> QED BY <1>4, RequestEnds DEF ReportTasks

\* A step that writes links only: there are no fewer, and none works again.
LEMMA LinksWritten ==
    ASSUME CommunityInv, link' \in Seq(Links), DOMAIN link \subseteq DOMAIN link',
           \A k \in DOMAIN link : \A now : Works(k, now)' => Works(k, now),
           req' = [c \in Clients |-> req'[c]],
           \A c \in Clients : req'[c] \in {req[c], Idle},
           UNCHANGED <<session, task, group, member, told, left, answer, clock, mix>>
    PROVE  CommunityInv'
<1>1. WorkInv' /\ TablesInv' /\ AnswersInv' /\ CreatorIsAdmin'
  BY WorkQuiet DEF CommunityInv, TablesInv, AnswersInv, CreatorIsAdmin, RowsOf
<1>2. ASSUME NEW c \in Clients PROVE RequestOk(req[c])'
  <2>1. RequestOk(req'[c])
    BY IdleOk DEF CommunityInv, RequestsInv
  <2> QED BY <2>1 DEF RequestOk
<1> QED BY <1>1, <1>2 DEF CommunityInv, RequestsInv

LEMMA ShareOk ==
    ASSUME CommunityInv, NEW c \in Clients, NEW lasts \in Nat, NEW days \in Nat,
           Share(c, lasts, days)
    PROVE  CommunityInv'
<1>1. PICK l : l = [user |-> Me(c), days |-> days, expiresAt |-> clock + Day * lasts,
                    isRevoked |-> FALSE]
  OBVIOUS
<1>2. Me(c) \in Users /\ clock \in Nat /\ Day * lasts \in Nat
  BY SenderIsUser, ClockIsNat DEF Share, CommunityInv, Day
<1>3. l \in Links
  BY <1>1, <1>2 DEF Links
<1>4. link' = Append(link, l) /\ link \in Seq(Links)
  BY <1>1 DEF Share, CommunityInv, TablesInv
<1>5. link' \in Seq(Links) /\ DOMAIN link \subseteq DOMAIN link'
  BY <1>3, <1>4, AppendProperties, LenProperties
<1>6. \A k \in DOMAIN link : link'[k] = link[k]
  BY <1>3, <1>4, AppendProperties, LenProperties
<1>7. \A k \in DOMAIN link : \A now : Works(k, now)' => Works(k, now)
  BY <1>6 DEF Works
<1> QED BY <1>5, <1>7, LinksWritten DEF Share, CommunityInv, RequestsInv

LEMMA WriteRevokedOk ==
    ASSUME CommunityInv, NEW c \in Clients, WriteRevoked(c)
    PROVE  CommunityInv'
<1>1. PICK k : k = req[c].of
  OBVIOUS
<1>2. k \in DOMAIN link /\ link \in Seq(Links)
  BY <1>1 DEF WriteRevoked, CommunityInv, RequestsInv, RequestOk, TablesInv
<1>3. k \in 1..Len(link) /\ link[k] \in Links
  BY <1>2, LenProperties, ElementOfSeq
<1>4. PICK l : l = [link[k] EXCEPT !.isRevoked = TRUE]
  OBVIOUS
<1>5. l \in Links
  BY <1>3, <1>4 DEF Links
<1>6. link' = [link EXCEPT ![k] = l]
  BY <1>1, <1>4 DEF WriteRevoked
<1>7. link' \in Seq(Links) /\ DOMAIN link' = DOMAIN link
  BY <1>2, <1>3, <1>5, <1>6, ExceptSeq
<1>8. req' = [d \in Clients |-> IF d = c THEN Idle ELSE req[d]]
  BY DEF CommunityInv, RequestsInv, Becomes, WriteRevoked
<1>9. \A j \in DOMAIN link : \A now : Works(j, now)' => Works(j, now)
  <2>1. ASSUME NEW j \in DOMAIN link, NEW now, Works(j, now)' PROVE Works(j, now)
    <3>1. link'[j] = IF j = k THEN l ELSE link[j]
      BY <1>2, <1>6
    <3>2. l.isRevoked
      BY <1>3, <1>4 DEF Links
    <3>3. j # k
      BY <2>1, <3>1, <3>2 DEF Works
    <3> QED BY <2>1, <3>1, <3>3 DEF Works
  <2> QED BY <2>1
<1> QED BY <1>7, <1>8, <1>9, LinksWritten DEF WriteRevoked

-----------------------------------------------------------------------------
(* Groups and their members.                                                *)

\* A row that says that a user is the ADMIN of a group.
IsAdmin(row, g, u) == row # NULL /\ row.group = g /\ row.user = u /\ row.role = "ADMIN"

LEMMA CreateGroupOk ==
    ASSUME CommunityInv, NEW c \in Clients, NEW g \in Groups, CreateGroup(c, g)
    PROVE  CommunityInv'
<1>1. PICK q : q = Goes(c, "admin")
  OBVIOUS
<1>2. PICK new : new = [q EXCEPT !.of = g]
  OBVIOUS
<1>3. /\ DOMAIN new = Fields /\ new.at = "admin" /\ new.of = g /\ new.user = Me(c)
      /\ new.dead = {}
  BY <1>1, <1>2, Gone, FieldNames
<1>4. Me(c) \in Users
  BY SenderIsUser DEF CreateGroup, CommunityInv
<1>5. /\ group[g] = NULL /\ group' = [group EXCEPT ![g] = Me(c)]
      /\ Becomes(c, new)
      /\ UNCHANGED <<session, task, link, member, told, left, answer, clock, mix>>
  BY <1>1, <1>2 DEF CreateGroup
<1>6. /\ group \in [Groups -> Users \cup {NULL}] /\ group' \in [Groups -> Users \cup {NULL}]
      /\ group'[g] = Me(c)
      /\ \A h \in Groups : group[h] # NULL => group'[h] = group[h]
  BY <1>4, <1>5 DEF CommunityInv, TablesInv
<1>7. WorkInv' /\ AnswersInv'
  BY <1>5, WorkQuiet DEF CommunityInv, AnswersInv
<1>8. TablesInv'
  BY <1>5, <1>6 DEF CommunityInv, TablesInv
<1>9. CreatorIsAdmin'
  <2>1. ASSUME NEW h \in told
        PROVE  \/ <<h, group[h]>> \in left
               \/ \E k \in DOMAIN member' : IsAdmin(member'[k], h, group[h])
    BY <1>5 DEF CommunityInv, CreatorIsAdmin, RowsOf, IsAdmin
  <2>2. \A h \in told : group'[h] = group[h]
    BY <1>6 DEF CommunityInv, TablesInv
  <2> QED BY <1>5, <2>1, <2>2 DEF CreatorIsAdmin, RowsOf, IsAdmin
<1>10. req' = [d \in Clients |-> IF d = c THEN new ELSE req[d]]
  BY <1>5 DEF CommunityInv, RequestsInv, Becomes
<1>11. ASSUME NEW d \in Clients PROVE RequestOk(req[d])'
  <2>1. CASE d = c
    BY <1>3, <1>4, <1>5, <1>6, <1>10, <2>1 DEF RequestOk, Ats
  <2>2. CASE d # c
    <3>1. req'[d] = req[d] /\ RequestOk(req[d])
      BY <1>10, <2>2 DEF CommunityInv, RequestsInv
    <3> QED BY <1>5, <1>6, <3>1 DEF RequestOk, Works
  <2> QED BY <2>1, <2>2
<1> QED BY <1>7, <1>8, <1>9, <1>10, <1>11 DEF CommunityInv, RequestsInv

LEMMA JoinOk ==
    ASSUME CommunityInv, NEW c \in Clients, NEW g \in Groups, Join(c, g)
    PROVE  CommunityInv'
<1>1. PICK q : q = Goes(c, "join")
  OBVIOUS
<1>2. PICK new : new = [q EXCEPT !.of = g]
  OBVIOUS
<1>3. /\ DOMAIN new = Fields /\ new.at = "join" /\ new.of = g /\ new.user = Me(c)
      /\ new.dead = {}
  BY <1>1, <1>2, Gone, FieldNames
<1>4. Me(c) \in Users /\ Becomes(c, new)
  BY <1>1, <1>2, SenderIsUser DEF Join, CommunityInv
<1>5. RequestOk(new)
  BY <1>3, <1>4 DEF RequestOk, Ats
<1> QED BY <1>4, <1>5, RequestMoves DEF Join

LEMMA LeaveOk ==
    ASSUME CommunityInv, NEW c \in Clients, NEW g \in Groups, Leave(c, g)
    PROVE  CommunityInv'
<1>1. PICK k \in RowsOf(g, Me(c)) : Becomes(c, [Goes(c, "leave") EXCEPT !.of = k])
  BY DEF Leave
<1>2. PICK q : q = Goes(c, "leave")
  OBVIOUS
<1>3. PICK new : new = [q EXCEPT !.of = k]
  OBVIOUS
<1>4. DOMAIN new = Fields /\ new.at = "leave" /\ new.of = k /\ new.dead = {}
  BY <1>2, <1>3, Gone, FieldNames
<1>5. k \in DOMAIN member /\ Becomes(c, new)
  BY <1>1, <1>2, <1>3 DEF RowsOf, IsAdmin
<1>6. RequestOk(new)
  BY <1>4, <1>5 DEF RequestOk, Ats
<1> QED BY <1>5, <1>6, RequestMoves DEF Leave

\* A step that writes members: none goes out of the table.
LEMMA MembersWritten ==
    ASSUME CommunityInv, NEW c \in Clients, Becomes(c, Idle),
           member' \in Seq(Memberships \cup {NULL}), DOMAIN member \subseteq DOMAIN member',
           told' \subseteq {g \in Groups : group[g] # NULL}, CreatorIsAdmin',
           UNCHANGED <<session, task, link, group, answer, clock, mix>>
    PROVE  CommunityInv'
<1>1. WorkInv' /\ TablesInv' /\ AnswersInv'
  BY WorkQuiet DEF CommunityInv, TablesInv, AnswersInv
<1>2. req' = [d \in Clients |-> IF d = c THEN Idle ELSE req[d]]
  BY DEF CommunityInv, RequestsInv, Becomes
<1>3. ASSUME NEW d \in Clients PROVE RequestOk(req[d])'
  <2>1. RequestOk(req'[d])
    BY <1>2, IdleOk DEF CommunityInv, RequestsInv
  <2> QED BY <2>1 DEF RequestOk, Works
<1> QED BY <1>1, <1>2, <1>3 DEF CommunityInv, RequestsInv

\* A membership more, and the rows of before.
LEMMA MemberAppended ==
    ASSUME NEW rows \in Seq(Memberships \cup {NULL}), NEW new \in Memberships, NEW more,
           more = Append(rows, new)
    PROVE  /\ more \in Seq(Memberships \cup {NULL}) /\ DOMAIN rows \subseteq DOMAIN more
           /\ \A k \in DOMAIN rows : more[k] = rows[k]
           /\ \E k \in DOMAIN more : more[k] = new
<1>1. new \in Memberships \cup {NULL}
  OBVIOUS
<1>2. /\ more \in Seq(Memberships \cup {NULL}) /\ Len(more) = Len(rows) + 1
      /\ \A k \in 1..Len(rows) : more[k] = rows[k]
      /\ more[Len(rows) + 1] = new
  BY <1>1, AppendProperties
<1>3. DOMAIN rows = 1..Len(rows) /\ DOMAIN more = 1..Len(more) /\ Len(rows) \in Nat
  BY <1>2, LenProperties
<1> QED BY <1>2, <1>3

LEMMA InsertAdminOk ==
    ASSUME CommunityInv, NEW c \in Clients, InsertAdmin(c)
    PROVE  CommunityInv'
<1>1. PICK g : g = req[c].of
  OBVIOUS
<1>2. PICK u : u = req[c].user
  OBVIOUS
<1>3. PICK new : new = Row(g, u, "ADMIN")
  OBVIOUS
<1>4. g \in Groups /\ u \in Users /\ group[g] = u
  BY <1>1, <1>2 DEF InsertAdmin, CommunityInv, RequestsInv, RequestOk
<1>5. /\ new \in Memberships /\ new # NULL
      /\ new.group = g /\ new.user = u /\ new.role = "ADMIN"
  BY <1>3, <1>4 DEF Row, Memberships
<1>6. /\ member' = Append(member, new) /\ told' = told \cup {g} /\ Becomes(c, Idle)
      /\ UNCHANGED <<session, task, link, group, left, answer, clock, mix>>
  BY <1>1, <1>2, <1>3 DEF InsertAdmin
<1>7. member \in Seq(Memberships \cup {NULL})
  BY DEF CommunityInv, TablesInv
<1>8. /\ member' \in Seq(Memberships \cup {NULL}) /\ DOMAIN member \subseteq DOMAIN member'
      /\ \A k \in DOMAIN member : member'[k] = member[k]
      /\ \E k \in DOMAIN member' : member'[k] = new
  BY <1>5, <1>6, <1>7, MemberAppended
<1>9. told' \subseteq {h \in Groups : group[h] # NULL}
  BY <1>4, <1>6 DEF CommunityInv, TablesInv
<1>10. CreatorIsAdmin'
  <2> SUFFICES ASSUME NEW h \in told'
               PROVE  \/ <<h, group[h]>> \in left
                      \/ \E k \in DOMAIN member' : IsAdmin(member'[k], h, group[h])
    BY <1>6 DEF CreatorIsAdmin, RowsOf, IsAdmin
  <2>1. CASE h = g
    BY <1>4, <1>5, <1>8, <2>1 DEF RowsOf, IsAdmin
  <2>2. CASE h # g
    <3>1. h \in told
      BY <1>6, <2>2
    <3> QED BY <1>8, <3>1 DEF CommunityInv, CreatorIsAdmin, RowsOf, IsAdmin
  <2> QED BY <2>1, <2>2
<1> QED BY <1>6, <1>8, <1>9, <1>10, MembersWritten

LEMMA InsertMemberOk ==
    ASSUME CommunityInv, NEW c \in Clients, InsertMember(c)
    PROVE  CommunityInv'
<1>1. PICK g : g = req[c].of
  OBVIOUS
<1>2. PICK u : u = req[c].user
  OBVIOUS
<1>3. PICK new : new = Row(g, u, "MEMBER")
  OBVIOUS
<1>4. g \in Groups /\ u \in Users
  BY <1>1, <1>2 DEF InsertMember, CommunityInv, RequestsInv, RequestOk
<1>5. new \in Memberships
  BY <1>3, <1>4 DEF Row, Memberships
<1>6. /\ member' = Append(member, new) \/ member' = member
      /\ Becomes(c, Idle)
      /\ UNCHANGED <<session, task, link, group, told, left, answer, clock, mix>>
  BY <1>1, <1>2, <1>3 DEF InsertMember
<1>7. member \in Seq(Memberships \cup {NULL}) /\ told \subseteq {h \in Groups : group[h] # NULL}
  BY DEF CommunityInv, TablesInv
<1>8. /\ member' \in Seq(Memberships \cup {NULL}) /\ DOMAIN member \subseteq DOMAIN member'
      /\ \A k \in DOMAIN member : member'[k] = member[k]
  BY <1>5, <1>6, <1>7, MemberAppended
<1>9. CreatorIsAdmin'
  <2> SUFFICES ASSUME NEW h \in told
               PROVE  \/ <<h, group[h]>> \in left
                      \/ \E k \in DOMAIN member' : IsAdmin(member'[k], h, group[h])
    BY <1>6 DEF CreatorIsAdmin, RowsOf, IsAdmin
  <2> QED BY <1>8 DEF CommunityInv, CreatorIsAdmin, RowsOf, IsAdmin
<1> QED BY <1>6, <1>7, <1>8, <1>9, MembersWritten

\* The row that goes is that of a user who left.
LEMMA RemoveMemberOk ==
    ASSUME CommunityInv, NEW c \in Clients, RemoveMember(c)
    PROVE  CommunityInv'
<1>1. PICK k : k = req[c].of
  OBVIOUS
<1>2. /\ member \in Seq(Memberships \cup {NULL}) /\ k \in DOMAIN member
      /\ told \subseteq {h \in Groups : group[h] # NULL}
  BY <1>1 DEF RemoveMember, CommunityInv, RequestsInv, RequestOk, TablesInv
<1>3. k \in 1..Len(member) /\ NULL \in Memberships \cup {NULL}
  BY <1>2, LenProperties
<1>4. /\ member' = [member EXCEPT ![k] = NULL]
      /\ left' = IF member[k] = NULL THEN left
                 ELSE left \cup {<<member[k].group, member[k].user>>}
      /\ Becomes(c, Idle)
      /\ UNCHANGED <<session, task, link, group, told, answer, clock, mix>>
  BY <1>1 DEF RemoveMember
<1>5. /\ member' \in Seq(Memberships \cup {NULL}) /\ Len(member') = Len(member)
      /\ \A j \in 1..Len(member) : member'[j] = IF j = k THEN NULL ELSE member[j]
  BY <1>2, <1>3, <1>4, ExceptSeq
<1>6. DOMAIN member = 1..Len(member) /\ DOMAIN member' = DOMAIN member
  BY <1>2, <1>5, LenProperties
<1>7. CreatorIsAdmin'
  <2> SUFFICES ASSUME NEW h \in told, <<h, group[h]>> \notin left'
               PROVE  \E j \in DOMAIN member' : IsAdmin(member'[j], h, group[h])
    BY <1>4 DEF CreatorIsAdmin, RowsOf, IsAdmin
  <2>1. <<h, group[h]>> \notin left
    BY <1>4
  <2>2. PICK j \in RowsOf(h, group[h]) : member[j].role = "ADMIN"
    BY <2>1 DEF CommunityInv, CreatorIsAdmin
  <2>3. j # k
    BY <1>4, <2>2 DEF RowsOf, IsAdmin
  <2>4. j \in DOMAIN member' /\ member'[j] = member[j]
    BY <1>5, <1>6, <2>2, <2>3 DEF RowsOf, IsAdmin
  <2> QED BY <1>4, <2>2, <2>4 DEF RowsOf, IsAdmin
<1> QED BY <1>2, <1>4, <1>5, <1>6, <1>7, MembersWritten

-----------------------------------------------------------------------------
(* What requests have read, and what is answered from it.                   *)

\* The rows j and k make the same user a member of the same group.
SameMember(j, k) ==
    /\ member[j] # NULL /\ member[k] # NULL
    /\ member[j].group = member[k].group /\ member[j].user = member[k].user

\* Nobody is a member of a group twice: there are members only once its creator was told of
\* it, until then one request holds the group, and nobody else inserts its ADMIN.
RowsInv ==
    /\ \A k \in DOMAIN member : member[k] # NULL => member[k].group \in told
    /\ \A j, k \in DOMAIN member : SameMember(j, k) => j = k
    /\ \A c \in Clients : req[c].at = "join" => req[c].of \in told
    /\ \A c \in Clients : req[c].at = "admin" => req[c].of \notin told
    /\ \A c, d \in Clients :
         req[c].at = "admin" /\ req[d].at = "admin" /\ req[c].of = req[d].of => c = d

AreTasks(t) == t.done \in Nat /\ t.all \in Nat /\ t.done <= t.all

\* What was read of a member: nothing, his tasks, or his tasks and sessions.
SawOf(x) ==
    \/ x = <<>>
    \/ x = <<x[1]>> /\ AreTasks(x[1])
    \/ x = <<x[1], x[2]>> /\ AreTasks(x[1]) /\ IsRead(x[2])

BoardOk(list, seen) ==
    /\ IsFiniteSet(DOMAIN list) /\ DOMAIN list \subseteq Nat
    /\ seen = [k \in DOMAIN list |-> seen[k]]
    /\ \A k \in DOMAIN list : SawOf(seen[k])
    /\ \A j, k \in DOMAIN list : list[j].user = list[k].user => j = k

SeenOk(q) ==
    /\ q.at = "tasks" => q.seen = <<q.seen[1]>> /\ IsRead(q.seen[1])
    /\ q.at = "streak" => q.seen = <<q.seen[1], q.seen[2]>> /\ IsRead(q.seen[1])
    /\ q.at = "board" => BoardOk(q.list, q.seen)

SeenInv == \A c \in Clients : SeenOk(req[c])

\* The rows i and j of a leaderboard, as BoardIsFair wants them.
FairPair(i, j, e, f) ==
    /\ e.score \in 0..100
    /\ i # j => e.user # f.user
    /\ i < j => e.score >= f.score
    /\ e.done * f.all >= f.done * e.all /\ e.days >= f.days /\ (e.all > 0 \/ f.all = 0)
           => e.score >= f.score

Fair(ranks) == \A i, j \in DOMAIN ranks : FairPair(i, j, ranks[i], ranks[j])

AnswerOk(a) ==
    /\ a.is = "board" => Fair(a.ranks)
    /\ a.is = "progress" => /\ EvenDays => a.streak = a.real
                            /\ AreParts(a.subjects, a.total, a.count)
                            /\ AreParts(a.days, a.total, a.count)

AnswersOk == \A c \in Clients : AnswerOk(answer[c])

\* Inductive, with CommunityInv.
ReadsInv == RowsInv /\ SeenInv /\ AnswersOk

LEMMA BoardFromInv == ASSUME ReadsInv PROVE BoardIsFair
BY DEF ReadsInv, AnswersOk, AnswerOk, Fair, FairPair, BoardIsFair, Got

LEMMA ProgressFromInv == ASSUME ReadsInv PROVE ProgressIsReal
<1>1. ASSUME NEW a \in Got("progress") PROVE AnswerOk(a) /\ a.is = "progress"
  BY DEF ReadsInv, AnswersOk, Got
<1>2. EvenDays => StreakIsReal
  BY <1>1 DEF AnswerOk, StreakIsReal
<1>3. ProgressAddsUp
  BY <1>1 DEF AnswerOk, AreParts, ProgressAddsUp
<1> QED BY <1>2, <1>3 DEF ProgressIsReal

LEMMA ReadsStart == Init => ReadsInv
<1> SUFFICES ASSUME Init PROVE ReadsInv
  OBVIOUS
<1>1. \A c \in Clients : req[c] = Idle /\ answer[c] = NoAnswer
  BY DEF Init
<1>2. RowsInv
  BY <1>1 DEF Init, RowsInv, SameMember, Idle
<1>3. SeenInv
  BY <1>1 DEF SeenInv, SeenOk, Idle
<1>4. AnswersOk
  BY <1>1 DEF AnswersOk, AnswerOk, NoAnswer
<1> QED BY <1>2, <1>3, <1>4 DEF ReadsInv

LEMMA ReadsQuiet ==
    ASSUME ReadsInv, UNCHANGED <<member, told, req, answer, mix>>
    PROVE  ReadsInv'
<1>1. RowsInv'
  BY DEF ReadsInv, RowsInv, SameMember
<1>2. SeenInv'
  BY DEF ReadsInv, SeenInv
<1>3. AnswersOk'
  BY DEF ReadsInv, AnswersOk, AnswerOk, EvenDays
<1> QED BY <1>1, <1>2, <1>3 DEF ReadsInv

-----------------------------------------------------------------------------
(* One request moves.                                                       *)

LEMMA Becoming ==
    ASSUME CommunityInv, NEW c \in Clients, NEW new, Becomes(c, new)
    PROVE  req' = [d \in Clients |-> IF d = c THEN new ELSE req[d]]
BY DEF CommunityInv, RequestsInv, Becomes

LEMMA SeenMoves ==
    ASSUME CommunityInv, SeenInv, NEW c \in Clients, NEW new, Becomes(c, new), SeenOk(new)
    PROVE  SeenInv'
<1>1. req' = [d \in Clients |-> IF d = c THEN new ELSE req[d]]
  BY Becoming
<1>2. ASSUME NEW d \in Clients PROVE SeenOk(req'[d])
  BY <1>1 DEF SeenInv
<1> QED BY <1>2 DEF SeenInv

LEMMA RowsStay ==
    ASSUME CommunityInv, RowsInv, NEW c \in Clients, NEW new, Becomes(c, new),
           new.at \notin {"admin", "join"}, UNCHANGED <<member, told>>
    PROVE  RowsInv'
<1>1. req' = [d \in Clients |-> IF d = c THEN new ELSE req[d]]
  BY Becoming
<1>2. \A d \in Clients : req'[d].at \in {"admin", "join"} => req'[d] = req[d]
  BY <1>1
<1> QED BY <1>2 DEF RowsInv, SameMember

LEMMA AnswersStay ==
    ASSUME AnswersOk, UNCHANGED <<answer, mix>>
    PROVE  AnswersOk'
BY DEF AnswersOk, AnswerOk, EvenDays

LEMMA ReadMoves ==
    ASSUME CommunityInv, ReadsInv, NEW c \in Clients, NEW new, Becomes(c, new), SeenOk(new),
           new.at \notin {"admin", "join"}, UNCHANGED <<member, told, answer, mix>>
    PROVE  ReadsInv'
BY SeenMoves, RowsStay, AnswersStay DEF ReadsInv

LEMMA NothingSeen ==
    ASSUME NEW q, q.at \notin {"tasks", "streak", "board"}
    PROVE  SeenOk(q)
BY DEF SeenOk

LEMMA ReadEnds ==
    ASSUME CommunityInv, ReadsInv, NEW c \in Clients, NEW a, Answers(c, a), Becomes(c, Idle),
           AnswerOk(a), UNCHANGED <<member, told, mix>>
    PROVE  ReadsInv'
<1>1. Idle.at = "idle"
  BY DEF Idle
<1>2. SeenInv' /\ RowsInv'
  BY <1>1, NothingSeen, SeenMoves, RowsStay DEF ReadsInv
<1>3. answer' = [d \in Clients |-> IF d = c THEN a ELSE answer[d]]
  BY DEF CommunityInv, AnswersInv, Answers
<1>4. ASSUME NEW d \in Clients PROVE AnswerOk(answer'[d])
  BY <1>3 DEF ReadsInv, AnswersOk
<1>5. AnswersOk'
  BY <1>4 DEF AnswersOk, AnswerOk, EvenDays
<1> QED BY <1>2, <1>5 DEF ReadsInv

LEMMA AppendSecond == ASSUME NEW x, NEW y PROVE Append(<<x>>, y) = <<x, y>>
<1>1. PICK S : S = {x, y}
  OBVIOUS
<1>2. PICK s, t : s = <<x>> /\ t = <<x, y>>
  OBVIOUS
<1>3. s \in Seq(S) /\ y \in S /\ Len(s) = 1 /\ s[1] = x
  BY <1>1, <1>2
<1>4. PICK u : u = Append(s, y)
  OBVIOUS
<1>5. u \in Seq(S) /\ Len(u) = 2 /\ u[1] = x /\ u[2] = y
  BY <1>3, <1>4, AppendProperties
<1>6. t \in Seq(S) /\ Len(t) = 2 /\ t[1] = x /\ t[2] = y
  BY <1>1, <1>2
<1>7. \A i \in 1..2 : u[i] = t[i]
  BY <1>5, <1>6
<1>8. u = t
  BY <1>5, <1>6, <1>7, SeqEqual
<1> QED BY <1>2, <1>4, <1>8

-----------------------------------------------------------------------------
(* The reads of progress.                                                   *)

LEMMA SessionsRead ==
    ASSUME WorkInv, NEW ss \in SUBSET session
    PROVE  IsRead(ss)
BY FS_Subset DEF WorkInv, IsRead

LEMMA AskProgressReads ==
    ASSUME CommunityInv, ReadsInv, NEW c \in Clients, AskProgress(c)
    PROVE  ReadsInv'
<1>1. PICK read : read = {s \in Of(Me(c)) : s.finished /\ s.start \in (clock - Week)..clock}
  OBVIOUS
<1>2. read \in SUBSET session
  BY <1>1 DEF Of
<1>3. PICK since : Becomes(c, [Goes(c, "tasks") EXCEPT !.since = since, !.seen = <<read>>])
  BY <1>1 DEF AskProgress
<1>4. PICK q : q = Goes(c, "tasks")
  OBVIOUS
<1>5. PICK seen : seen = <<read>>
  OBVIOUS
<1>6. PICK new : new = [q EXCEPT !.since = since, !.seen = seen]
  OBVIOUS
<1>7. new.at = "tasks" /\ new.seen = <<read>> /\ Becomes(c, new)
  BY <1>3, <1>4, <1>5, <1>6, Gone, FieldNames
<1>8. IsRead(read)
  BY <1>2, SessionsRead DEF CommunityInv
<1>9. SeenOk(new)
  BY <1>7, <1>8 DEF SeenOk
<1> QED BY <1>7, <1>9, ReadMoves DEF AskProgress

LEMMA ProgressTasksReads ==
    ASSUME CommunityInv, ReadsInv, NEW c \in Clients, ProgressTasks(c)
    PROVE  ReadsInv'
<1>1. PICK t : t = TasksOf(req[c].user, req[c].since)
  OBVIOUS
<1>2. PICK ss : req[c].seen = <<ss>> /\ IsRead(ss)
  BY DEF ProgressTasks, ReadsInv, SeenInv, SeenOk
<1>3. PICK seen : seen = Append(req[c].seen, t)
  OBVIOUS
<1>4. seen = <<ss, t>>
  BY <1>2, <1>3, AppendSecond
<1>5. PICK new : new = [req[c] EXCEPT !.at = "streak", !.seen = seen]
  OBVIOUS
<1>6. DOMAIN req[c] = Fields
  BY DEF CommunityInv, RequestsInv, RequestOk
<1>7. new.at = "streak" /\ new.seen = <<ss, t>>
  BY <1>4, <1>5, <1>6, FieldNames
<1>8. Becomes(c, new)
  BY <1>1, <1>3, <1>5 DEF ProgressTasks
<1>9. SeenOk(new)
  BY <1>2, <1>7 DEF SeenOk
<1> QED BY <1>7, <1>8, <1>9, ReadMoves DEF ProgressTasks

\* The dates of the sessions of a user, and the present moment, in a zone without changes.
LEMMA StreakTrue ==
    ASSUME WorkInv, EvenDays, NEW ss \in SUBSET session
    PROVE  Streak(mix.zone, Dates(mix.zone, ss), clock)
             = RealStreak(Dates(mix.zone, ss), LocalDate(mix.zone, clock))
<1>1. PICK zone, now : zone = mix.zone /\ now = clock
  OBVIOUS
<1>2. /\ mix \in Mixes /\ now \in mix.moments /\ now \in Int
      /\ \A s \in ss : s.start \in mix.moments \cup mix.starts
  <2>1. mix \in Mixes /\ now \in mix.moments
    BY <1>1 DEF WorkInv
  <2>2. now \in Int
    BY <1>1, ClockIsNat
  <2>3. ASSUME NEW s \in ss PROVE s.start \in mix.moments \cup mix.starts
    <3>1. s \in session
      OBVIOUS
    <3> QED BY <3>1 DEF WorkInv
  <2> QED BY <2>1, <2>2, <2>3
<1>3. /\ IsFiniteSet(zone) /\ zone \in SUBSET Int
      /\ \A t \in mix.moments \cup mix.starts : \E z \in zone : z <= t
  BY <1>1, <1>2
<1>4. PICK n \in Nat : n = Cardinality(zone)
  BY <1>3, FS_CardinalityType
<1>5. PICK first \in zone :
        /\ zone = {first + Day * d : d \in 0..(n - 1)}
        /\ \A t \in mix.moments \cup mix.starts : t < first + Day * n
  BY <1>1, <1>4 DEF EvenDays
<1>6. first \in Int
  BY <1>3
<1>7. Even(zone, first, n)
  BY <1>4, <1>5, <1>6 DEF Even
<1>8. first <= now /\ now < first + Day * n
  <2>1. PICK z \in zone : z <= now
    BY <1>2, <1>3
  <2>2. PICK d \in 0..(n - 1) : z = first + Day * d
    BY <1>5
  <2>3. first <= z /\ z \in Int
    BY <1>6, <2>2 DEF Day
  <2>4. first <= now
    BY <1>2, <1>6, <2>1, <2>3
  <2> QED BY <1>2, <1>5, <2>4
<1>9. IsFiniteSet(ss)
  BY FS_Subset DEF WorkInv
<1>10. PICK dates : dates = Dates(zone, ss)
  OBVIOUS
<1>11. dates \in SUBSET (Nat \ {0}) /\ IsFiniteSet(dates)
  <2>1. \A s \in ss : \E m \in zone : m <= s.start
    BY <1>2, <1>3
  <2> QED BY <1>3, <1>9, <1>10, <2>1, DatesAre
<1>12. Streak(zone, dates, now) = RealStreak(dates, LocalDate(zone, now))
  BY <1>2, <1>7, <1>8, <1>11, StreakReal
<1> QED BY <1>1, <1>10, <1>12

LEMMA ProgressStreakReads ==
    ASSUME CommunityInv, ReadsInv, NEW c \in Clients, ProgressStreak(c)
    PROVE  ReadsInv'
<1>1. PICK ss : ss = req[c].seen[1] /\ IsRead(ss)
  BY DEF ProgressStreak, ReadsInv, SeenInv, SeenOk
<1>2. PICK finished : finished = {s \in Of(req[c].user) : s.finished}
  OBVIOUS
<1>3. finished \in SUBSET session
  BY <1>2 DEF Of
<1>4. PICK dates : dates = Dates(mix.zone, finished)
  OBVIOUS
<1>5. PICK total, count, subjects, days, streak, real :
        /\ total = Minutes(ss) /\ count = Cardinality(ss)
        /\ subjects = BySubject(ss) /\ days = ByDay(mix.zone, ss)
        /\ streak = Streak(mix.zone, dates, clock)
        /\ real = RealStreak(dates, LocalDate(mix.zone, clock))
  OBVIOUS
<1>6. PICK rate : rate = Rate(req[c].seen[2].done, req[c].seen[2].all)
  OBVIOUS
<1>7. PICK a : a = [is |-> "progress", total |-> total, count |-> count, rate |-> rate,
                    subjects |-> subjects, days |-> days, streak |-> streak, real |-> real]
  OBVIOUS
<1>8. Answers(c, a)
  BY <1>1, <1>2, <1>4, <1>5, <1>6, <1>7 DEF ProgressStreak
<1>9. EvenDays => streak = real
  BY <1>3, <1>4, <1>5, StreakTrue DEF CommunityInv
<1>10. AreParts(subjects, total, count) /\ AreParts(days, total, count)
  BY <1>1, <1>5, SubjectsAddUp, DaysAddUp
<1>11. /\ a.is = "progress" /\ a.total = total /\ a.count = count /\ a.subjects = subjects
       /\ a.days = days /\ a.streak = streak /\ a.real = real
  BY <1>7
<1>12. AnswerOk(a)
  BY <1>9, <1>10, <1>11 DEF AnswerOk
<1> QED BY <1>8, <1>12, ReadEnds DEF ProgressStreak

-----------------------------------------------------------------------------
(* Leaderboards.                                                            *)

\* A ranking of entries for distinct users, each with a score of what he did, is fair.
IsEntry(e) ==
    /\ e.done \in Nat /\ e.all \in Nat /\ e.done <= e.all /\ e.days \in Nat
    /\ e.score = Score(e.done, e.all, e.days)

LEMMA EntryScore ==
    ASSUME NEW e, IsEntry(e)
    PROVE  e.score \in 0..100
<1>1. Points(e.days) \in 0..50
  BY PointsBounded DEF IsEntry
<1>2. e.score \in Points(e.days)..100
  BY ScoreBounded DEF IsEntry
<1> QED BY <1>1, <1>2

LEMMA EntryScores ==
    ASSUME NEW e, IsEntry(e), NEW f, IsEntry(f),
           e.done * f.all >= f.done * e.all, e.days >= f.days, e.all > 0 \/ f.all = 0
    PROVE  e.score >= f.score
<1>1. /\ e.done \in Nat /\ e.all \in Nat /\ e.days \in Nat /\ e.done <= e.all
      /\ f.done \in Nat /\ f.all \in Nat /\ f.days \in Nat /\ f.done <= f.all
  BY DEF IsEntry
<1>2. Score(e.done, e.all, e.days) >= Score(f.done, f.all, f.days)
  BY <1>1, ScoreGrows, Zenon
<1> QED BY <1>2 DEF IsEntry

LEMMA RankingIsFair ==
    ASSUME NEW entries, IsFiniteSet(DOMAIN entries), DOMAIN entries \subseteq Nat,
           \A k \in DOMAIN entries : IsEntry(entries[k]),
           \A j, k \in DOMAIN entries : entries[j].user = entries[k].user => j = k
    PROVE  Fair(Ranking(entries))
<1>1. Scored(entries)
  <2>1. ASSUME NEW k \in DOMAIN entries PROVE entries[k].score \in Nat
    BY EntryScore
  <2> QED BY <2>1 DEF Scored
<1>2. PICK ranks : ranks = Ranking(entries)
  OBVIOUS
<1>3. ASSUME NEW i \in DOMAIN ranks, NEW j \in DOMAIN ranks
      PROVE  FairPair(i, j, ranks[i], ranks[j])
  <2>1. PICK a \in DOMAIN entries, b \in DOMAIN entries :
          /\ ranks[i] = entries[a] /\ ranks[j] = entries[b]
          /\ i # j => a # b
          /\ i < j => entries[a].score >= entries[b].score
    BY <1>1, <1>2, RankingSorts
  <2>2. PICK e, f : e = entries[a] /\ f = entries[b]
    OBVIOUS
  <2>3. IsEntry(e) /\ IsEntry(f) /\ (i # j => e.user # f.user)
    BY <2>1, <2>2
  <2>4. e.score \in 0..100
    BY <2>3, EntryScore
  <2>5. e.done * f.all >= f.done * e.all /\ e.days >= f.days /\ (e.all > 0 \/ f.all = 0)
          => e.score >= f.score
    BY <2>3, EntryScores
  <2>6. FairPair(i, j, e, f)
    BY <2>1, <2>2, <2>3, <2>4, <2>5 DEF FairPair
  <2> QED BY <2>1, <2>2, <2>6
<1> QED BY <1>2, <1>3 DEF Fair

LEMMA EntryOfReads ==
    ASSUME NEW row, NEW tasks, NEW ss, AreTasks(tasks), IsRead(ss)
    PROVE  IsEntry(Entry(row, tasks, ss)) /\ Entry(row, tasks, ss).user = row.user
<1>1. PICK days : days = Cardinality(Dates(UTC, ss))
  OBVIOUS
<1>2. days \in Nat
  <2>1. PICK f : f = [s \in ss |-> LocalDate(UTC, s.start)]
    OBVIOUS
  <2>2. f \in Surjection(ss, Dates(UTC, ss))
    BY <2>1 DEF Surjection, Dates
  <2>3. IsFiniteSet(Dates(UTC, ss))
    BY <2>2, FS_Surjection DEF IsRead
  <2> QED BY <1>1, <2>3, FS_CardinalityType
<1>3. PICK score, minutes : score = Score(tasks.done, tasks.all, days) /\ minutes = Minutes(ss)
  OBVIOUS
<1>4. Entry(row, tasks, ss) = [user |-> row.user, role |-> row.role, minutes |-> minutes,
                               days |-> days, done |-> tasks.done, all |-> tasks.all,
                               score |-> score]
  BY <1>1, <1>3 DEF Entry
<1> QED BY <1>2, <1>3, <1>4 DEF IsEntry, AreTasks

\* When of each member both were read.
LEMMA BoardsRank ==
    ASSUME NEW list, NEW seen, BoardOk(list, seen), \A k \in DOMAIN list : Len(seen[k]) = 2
    PROVE  Fair(Ranking([k \in DOMAIN list |-> Entry(list[k], seen[k][1], seen[k][2])]))
<1>1. PICK entries : entries = [k \in DOMAIN list |-> Entry(list[k], seen[k][1], seen[k][2])]
  OBVIOUS
<1>2. ASSUME NEW k \in DOMAIN list
      PROVE  IsEntry(entries[k]) /\ entries[k].user = list[k].user
  <2>1. PICK x : x = seen[k]
    OBVIOUS
  <2>2. SawOf(x) /\ Len(x) = 2
    BY <2>1 DEF BoardOk
  <2>3. AreTasks(x[1]) /\ IsRead(x[2])
    <3>1. Len(<<>>) = 0 /\ \A y : Len(<<y>>) = 1
      OBVIOUS
    <3> QED BY <2>2, <3>1 DEF SawOf
  <2> QED BY <1>1, <2>1, <2>3, EntryOfReads
<1>3. /\ DOMAIN entries = DOMAIN list /\ IsFiniteSet(DOMAIN entries)
      /\ DOMAIN entries \subseteq Nat
      /\ \A j, k \in DOMAIN list : list[j].user = list[k].user => j = k
  BY <1>1 DEF BoardOk
<1>4. \A j, k \in DOMAIN entries : entries[j].user = entries[k].user => j = k
  BY <1>2, <1>3
<1>5. Fair(Ranking(entries))
  BY <1>2, <1>3, <1>4, RankingIsFair
<1> QED BY <1>1, <1>5

LEMMA RankReads ==
    ASSUME CommunityInv, ReadsInv, NEW c \in Clients, Rank(c)
    PROVE  ReadsInv'
<1>1. PICK list, seen : list = req[c].list /\ seen = req[c].seen
  OBVIOUS
<1>2. BoardOk(list, seen) /\ \A k \in DOMAIN list : Len(seen[k]) = 2
  BY <1>1 DEF Rank, ReadsInv, SeenInv, SeenOk
<1>3. PICK ranks :
        ranks = Ranking([k \in DOMAIN list |-> Entry(list[k], seen[k][1], seen[k][2])])
  OBVIOUS
<1>4. Fair(ranks)
  BY <1>2, <1>3, BoardsRank
<1>5. PICK a : a = [is |-> "board", ranks |-> ranks]
  OBVIOUS
<1>6. Answers(c, a)
  BY <1>1, <1>3, <1>5 DEF Rank
<1>7. AnswerOk(a)
  BY <1>4, <1>5 DEF AnswerOk
<1> QED BY <1>6, <1>7, ReadEnds DEF Rank

\* The rows of a group, each of another user.
LEMMA ReadMembersReads ==
    ASSUME CommunityInv, ReadsInv, NEW c \in Clients, ReadMembers(c)
    PROVE  ReadsInv'
<1>1. PICK rows : rows = {k \in DOMAIN member : member[k] # NULL /\ member[k].group = req[c].of}
  OBVIOUS
<1>2. PICK list, seen : list = [k \in rows |-> member[k]] /\ seen = [k \in rows |-> <<>>]
  OBVIOUS
<1>3. PICK since : Becomes(c, [req[c] EXCEPT !.at = "board", !.list = list, !.since = since,
                                             !.seen = seen])
  BY <1>1, <1>2 DEF ReadMembers
<1>4. PICK new : new = [req[c] EXCEPT !.at = "board", !.list = list, !.since = since,
                                      !.seen = seen]
  OBVIOUS
<1>5. DOMAIN req[c] = Fields
  BY DEF CommunityInv, RequestsInv, RequestOk
<1>6. new.at = "board" /\ new.list = list /\ new.seen = seen /\ Becomes(c, new)
  BY <1>3, <1>4, <1>5, FieldNames
<1>7. IsFiniteSet(rows) /\ rows \subseteq Nat
  <2>1. PICK n \in Nat : DOMAIN member = 1..n
    BY LenProperties DEF CommunityInv, TablesInv
  <2>2. rows \in SUBSET (1..n)
    BY <1>1, <2>1
  <2>3. 1 \in Int /\ n \in Int
    BY <2>1
  <2>4. IsFiniteSet(1..n)
    BY <2>3, FS_Interval
  <2>5. IsFiniteSet(rows)
    BY <2>2, <2>4, FS_Subset
  <2> QED BY <2>2, <2>5
<1>8. \A j, k \in rows : member[j].user = member[k].user => j = k
  BY <1>1 DEF ReadsInv, RowsInv, SameMember
<1>9. BoardOk(list, seen)
  BY <1>2, <1>7, <1>8 DEF BoardOk, SawOf
<1>10. SeenOk(new)
  BY <1>6, <1>9 DEF SeenOk
<1> QED BY <1>6, <1>10, ReadMoves DEF ReadMembers

\* What is seen of one member changes to what may be seen of him.
LEMMA BoardSees ==
    ASSUME CommunityInv, ReadsInv, NEW c \in Clients, req[c].at = "board",
           NEW k \in DOMAIN req[c].list, NEW x, SawOf(x),
           Becomes(c, [req[c] EXCEPT !.seen = [req[c].seen EXCEPT ![k] = x]]),
           UNCHANGED <<member, told, answer, mix>>
    PROVE  ReadsInv'
<1>1. PICK list, old : list = req[c].list /\ old = req[c].seen
  OBVIOUS
<1>2. BoardOk(list, old)
  BY <1>1 DEF ReadsInv, SeenInv, SeenOk
<1>3. PICK seen : seen = [old EXCEPT ![k] = x]
  OBVIOUS
<1>4. BoardOk(list, seen)
  <2>1. seen = [j \in DOMAIN list |-> IF j = k THEN x ELSE old[j]]
    BY <1>1, <1>2, <1>3 DEF BoardOk
  <2> QED BY <1>2, <2>1 DEF BoardOk
<1>5. PICK new : new = [req[c] EXCEPT !.seen = seen]
  OBVIOUS
<1>6. DOMAIN req[c] = Fields
  BY DEF CommunityInv, RequestsInv, RequestOk
<1>7. new.at = "board" /\ new.list = list /\ new.seen = seen /\ Becomes(c, new)
  BY <1>1, <1>3, <1>5, <1>6, FieldNames
<1>8. SeenOk(new)
  BY <1>4, <1>7 DEF SeenOk
<1> QED BY <1>7, <1>8, ReadMoves

\* Some of the tasks are completed.
LEMMA TasksCounted ==
    ASSUME WorkInv, NEW u, NEW since
    PROVE  AreTasks(TasksOf(u, since))
<1>1. PICK mine : mine = {k \in DOMAIN task : task[k].user = u /\ task[k].created >= since}
  OBVIOUS
<1>2. PICK done : done = {k \in mine : task[k].completed}
  OBVIOUS
<1>3. PICK n \in Nat : DOMAIN task = 1..n
  BY LenProperties DEF WorkInv
<1>4. mine \in SUBSET (1..n) /\ done \in SUBSET mine
  BY <1>1, <1>2, <1>3
<1>5. IsFiniteSet(mine)
  <2>1. IsFiniteSet(1..n)
    BY FS_Interval
  <2> QED BY <1>4, <2>1, FS_Subset
<1>6. /\ IsFiniteSet(done) /\ Cardinality(done) <= Cardinality(mine)
  BY <1>4, <1>5, FS_Subset
<1>7. Cardinality(mine) \in Nat /\ Cardinality(done) \in Nat
  BY <1>5, <1>6, FS_CardinalityType
<1>8. TasksOf(u, since) = [all |-> Cardinality(mine), done |-> Cardinality(done)]
  BY <1>1, <1>2 DEF TasksOf
<1> QED BY <1>6, <1>7, <1>8 DEF AreTasks

LEMMA ReadTasksReads ==
    ASSUME CommunityInv, ReadsInv, NEW c \in Clients, NEW k, ReadTasks(c, k)
    PROVE  ReadsInv'
<1>1. PICK t : t = TasksOf(req[c].list[k].user, req[c].since + 1)
  OBVIOUS
<1>2. AreTasks(t)
  BY <1>1, TasksCounted DEF CommunityInv
<1>3. PICK x : x = <<t>>
  OBVIOUS
<1>4. SawOf(x)
  BY <1>2, <1>3 DEF SawOf
<1>5. /\ req[c].at = "board" /\ k \in DOMAIN req[c].list
      /\ Becomes(c, [req[c] EXCEPT !.seen = [req[c].seen EXCEPT ![k] = x]])
      /\ UNCHANGED <<member, told, answer, mix>>
  BY <1>1, <1>3 DEF ReadTasks
<1> QED BY <1>4, <1>5, BoardSees

LEMMA ReadSessionsReads ==
    ASSUME CommunityInv, ReadsInv, NEW c \in Clients, NEW k, ReadSessions(c, k)
    PROVE  ReadsInv'
<1>1. PICK ss : ss = {s \in Of(req[c].list[k].user) : s.start > req[c].since}
  OBVIOUS
<1>2. ss \in SUBSET session
  BY <1>1 DEF Of
<1>3. IsRead(ss)
  BY <1>2, SessionsRead DEF CommunityInv
<1>4. req[c].at = "board" /\ k \in DOMAIN req[c].list /\ Len(req[c].seen[k]) = 1
  BY DEF ReadSessions
<1>5. PICK t : req[c].seen[k] = <<t>> /\ AreTasks(t)
  <2>1. SawOf(req[c].seen[k])
    BY <1>4 DEF ReadsInv, SeenInv, SeenOk, BoardOk
  <2>2. Len(<<>>) = 0 /\ \A y, z : Len(<<y, z>>) = 2
    OBVIOUS
  <2> QED BY <1>4, <2>1, <2>2 DEF SawOf
<1>6. PICK x : x = Append(req[c].seen[k], ss)
  OBVIOUS
<1>7. x = <<t, ss>>
  BY <1>5, <1>6, AppendSecond
<1>8. SawOf(x)
  BY <1>3, <1>5, <1>7 DEF SawOf
<1>9. /\ Becomes(c, [req[c] EXCEPT !.seen = [req[c].seen EXCEPT ![k] = x]])
      /\ UNCHANGED <<member, told, answer, mix>>
  BY <1>1, <1>6 DEF ReadSessions
<1> QED BY <1>4, <1>8, <1>9, BoardSees

-----------------------------------------------------------------------------
(* Requests that are about nothing that was read before.                    *)

\* What goes to a state in which nothing of sessions, tasks and members is held.
LEMMA Forgets ==
    ASSUME CommunityInv, ReadsInv, NEW c \in Clients, NEW new, Becomes(c, new),
           new.at \notin {"tasks", "streak", "board", "admin", "join"},
           UNCHANGED <<member, told, answer, mix>>
    PROVE  ReadsInv'
<1>1. SeenOk(new)
  BY NothingSeen
<1> QED BY <1>1, ReadMoves

LEMMA LinkReads ==
    ASSUME CommunityInv, ReadsInv, NEW c \in Clients,
           \/ \E k : Revoke(c, k) \/ AskReport(c, k)
           \/ WriteRevoked(c) \/ CheckReport(c) \/ ReportSessions(c)
    PROVE  ReadsInv'
<1>1. Idle.at = "idle" /\ DOMAIN Idle = Fields
  BY DEF Idle, Fields
<1>2. ASSUME NEW k, Revoke(c, k) PROVE ReadsInv'
  <2>1. PICK q : q = Goes(c, "revoke")
    OBVIOUS
  <2>2. PICK new : new = [q EXCEPT !.of = k]
    OBVIOUS
  <2>3. new.at = "revoke" /\ Becomes(c, new)
    BY <1>2, <2>1, <2>2, Gone, FieldNames DEF Revoke
  <2> QED BY <1>2, <2>3, Forgets DEF Revoke
<1>3. ASSUME NEW k, AskReport(c, k) PROVE ReadsInv'
  <2>1. PICK q : q = Goes(c, "check")
    OBVIOUS
  <2>2. PICK since, dead :
          Becomes(c, [Goes(c, "check") EXCEPT !.of = k, !.since = since, !.dead = dead])
    BY <1>3 DEF AskReport
  <2>3. PICK new : new = [q EXCEPT !.of = k, !.since = since, !.dead = dead]
    OBVIOUS
  <2>4. new.at = "check" /\ Becomes(c, new)
    BY <2>1, <2>2, <2>3, Gone, FieldNames
  <2> QED BY <1>3, <2>4, Forgets DEF AskReport
<1>4. ASSUME WriteRevoked(c) PROVE ReadsInv'
  BY <1>1, <1>4, Forgets DEF WriteRevoked
<1>5. ASSUME ReportSessions(c) PROVE ReadsInv'
  <2>1. PICK seen : Becomes(c, [req[c] EXCEPT !.at = "report", !.seen = seen])
    BY <1>5 DEF ReportSessions
  <2>2. PICK new : new = [req[c] EXCEPT !.at = "report", !.seen = seen]
    OBVIOUS
  <2>3. DOMAIN req[c] = Fields
    BY DEF CommunityInv, RequestsInv, RequestOk
  <2>4. new.at = "report" /\ Becomes(c, new)
    BY <2>1, <2>2, <2>3, FieldNames
  <2> QED BY <1>5, <2>4, Forgets DEF ReportSessions
<1>6. ASSUME CheckReport(c) PROVE ReadsInv'
  <2>1. CASE Becomes(c, Idle)
    BY <1>1, <1>6, <2>1, Forgets DEF CheckReport
  <2>2. ASSUME NEW since, Becomes(c, [req[c] EXCEPT !.at = "sessions", !.since = since])
        PROVE  ReadsInv'
    <3>1. PICK new : new = [req[c] EXCEPT !.at = "sessions", !.since = since]
      OBVIOUS
    <3>2. DOMAIN req[c] = Fields
      BY DEF CommunityInv, RequestsInv, RequestOk
    <3>3. new.at = "sessions" /\ Becomes(c, new)
      BY <2>2, <3>1, <3>2, FieldNames
    <3> QED BY <1>6, <3>3, Forgets DEF CheckReport
  <2> QED BY <1>6, <2>1, <2>2 DEF CheckReport
<1> QED BY <1>2, <1>3, <1>4, <1>5, <1>6

LEMMA ReportTasksReads ==
    ASSUME CommunityInv, ReadsInv, NEW c \in Clients, ReportTasks(c)
    PROVE  ReadsInv'
<1>1. PICK total, count, rate :
         Answers(c, [is |-> "report", link |-> req[c].of, dead |-> req[c].dead,
                     total |-> total, count |-> count, rate |-> rate])
  BY DEF ReportTasks
<1>2. PICK a : a = [is |-> "report", link |-> req[c].of, dead |-> req[c].dead,
                    total |-> total, count |-> count, rate |-> rate]
  OBVIOUS
<1>3. Answers(c, a) /\ AnswerOk(a)
  BY <1>1, <1>2 DEF AnswerOk
<1> QED BY <1>3, ReadEnds DEF ReportTasks

LEMMA LeaveReads ==
    ASSUME CommunityInv, ReadsInv, NEW c \in Clients, NEW g, Leave(c, g)
    PROVE  ReadsInv'
<1>1. PICK k : Becomes(c, [Goes(c, "leave") EXCEPT !.of = k])
  BY DEF Leave
<1>2. PICK q : q = Goes(c, "leave")
  OBVIOUS
<1>3. PICK new : new = [q EXCEPT !.of = k]
  OBVIOUS
<1>4. new.at = "leave" /\ Becomes(c, new)
  BY <1>1, <1>2, <1>3, Gone, FieldNames
<1> QED BY <1>4, Forgets DEF Leave

LEMMA AskBoardReads ==
    ASSUME CommunityInv, ReadsInv, NEW c \in Clients, NEW g, AskBoard(c, g)
    PROVE  ReadsInv'
<1>1. PICK q : q = Goes(c, "members")
  OBVIOUS
<1>2. PICK new : new = [q EXCEPT !.of = g]
  OBVIOUS
<1>3. new.at = "members" /\ Becomes(c, new)
  BY <1>1, <1>2, Gone, FieldNames DEF AskBoard
<1> QED BY <1>3, Forgets DEF AskBoard

LEMMA AbortReads ==
    ASSUME CommunityInv, ReadsInv, NEW c \in Clients, Abort(c)
    PROVE  ReadsInv'
<1>1. Idle.at = "idle"
  BY DEF Idle
<1> QED BY <1>1, Forgets DEF Abort

-----------------------------------------------------------------------------
(* Nobody is a member twice.                                                *)

\* A group that was not there before: no request is about to insert its ADMIN.
LEMMA CreateGroupReads ==
    ASSUME CommunityInv, ReadsInv, NEW c \in Clients, NEW g \in Groups, CreateGroup(c, g)
    PROVE  ReadsInv'
<1>1. PICK q : q = Goes(c, "admin")
  OBVIOUS
<1>2. PICK new : new = [q EXCEPT !.of = g]
  OBVIOUS
<1>3. new.at = "admin" /\ new.of = g /\ Becomes(c, new)
  BY <1>1, <1>2, Gone, FieldNames DEF CreateGroup
<1>4. group[g] = NULL /\ UNCHANGED <<member, told, answer, mix>>
  BY DEF CreateGroup
<1>5. SeenInv' /\ AnswersOk'
  BY <1>3, <1>4, NothingSeen, SeenMoves, AnswersStay DEF ReadsInv
<1>6. req' = [d \in Clients |-> IF d = c THEN new ELSE req[d]]
  BY <1>3, Becoming
<1>7. g \notin told
  BY <1>4 DEF CommunityInv, TablesInv
<1>8. ASSUME NEW d \in Clients, req[d].at = "admin" PROVE req[d].of # g
  <2>1. RequestOk(req[d])
    BY DEF CommunityInv, RequestsInv
  <2>2. req[d].user \in Users /\ group[req[d].of] = req[d].user
    BY <1>8, <2>1 DEF RequestOk
  <2> QED BY <1>4, <2>2
<1>9. RowsInv'
  <2>1. \A d \in Clients : req'[d].at = "join" => req'[d].of \in told
    BY <1>3, <1>6 DEF ReadsInv, RowsInv
  <2>2. \A d \in Clients : req'[d].at = "admin" => req'[d].of \notin told
    BY <1>3, <1>6, <1>7 DEF ReadsInv, RowsInv
  <2>3. ASSUME NEW d \in Clients, NEW e \in Clients, req'[d].at = "admin", req'[e].at = "admin",
               req'[d].of = req'[e].of
        PROVE  d = e
    <3>1. CASE d = c
      BY <1>3, <1>6, <1>8, <2>3, <3>1
    <3>2. CASE e = c
      BY <1>3, <1>6, <1>8, <2>3, <3>2
    <3>3. CASE d # c /\ e # c
      BY <1>6, <2>3, <3>3 DEF ReadsInv, RowsInv
    <3> QED BY <3>1, <3>2, <3>3
  <2> QED BY <1>4, <2>1, <2>2, <2>3 DEF ReadsInv, RowsInv, SameMember
<1> QED BY <1>5, <1>9 DEF ReadsInv

LEMMA JoinReads ==
    ASSUME CommunityInv, ReadsInv, NEW c \in Clients, NEW g \in Groups, Join(c, g)
    PROVE  ReadsInv'
<1>1. PICK q : q = Goes(c, "join")
  OBVIOUS
<1>2. PICK new : new = [q EXCEPT !.of = g]
  OBVIOUS
<1>3. new.at = "join" /\ new.of = g /\ Becomes(c, new)
  BY <1>1, <1>2, Gone, FieldNames DEF Join
<1>4. g \in told /\ UNCHANGED <<member, told, answer, mix>>
  BY DEF Join
<1>5. SeenInv' /\ AnswersOk'
  BY <1>3, <1>4, NothingSeen, SeenMoves, AnswersStay DEF ReadsInv
<1>6. req' = [d \in Clients |-> IF d = c THEN new ELSE req[d]]
  BY <1>3, Becoming
<1>7. /\ \A d \in Clients : req'[d].at = "join" => req'[d].of \in told
      /\ \A d \in Clients : req'[d].at = "admin" => d # c /\ req'[d] = req[d]
  BY <1>3, <1>4, <1>6 DEF ReadsInv, RowsInv
<1>8. RowsInv'
  BY <1>4, <1>7 DEF ReadsInv, RowsInv, SameMember
<1> QED BY <1>5, <1>8 DEF ReadsInv

\* A request ends that wrote members: its group is told of, if it was not.
LEMMA RowsWritten ==
    ASSUME CommunityInv, ReadsInv, NEW c \in Clients, Becomes(c, Idle),
           \A k \in DOMAIN member' : member'[k] # NULL => member'[k].group \in told',
           \A j, k \in DOMAIN member' : SameMember(j, k)' => j = k,
           told \subseteq told',
           \A d \in Clients : d # c /\ req[d].at = "admin" => req[d].of \notin told',
           UNCHANGED <<answer, mix>>
    PROVE  ReadsInv'
<1>1. Idle.at = "idle"
  BY DEF Idle
<1>2. SeenInv' /\ AnswersOk'
  BY <1>1, NothingSeen, SeenMoves, AnswersStay DEF ReadsInv
<1>3. req' = [d \in Clients |-> IF d = c THEN Idle ELSE req[d]]
  BY Becoming
<1>4. \A d \in Clients : req'[d].at \in {"admin", "join"} => d # c /\ req'[d] = req[d]
  BY <1>1, <1>3
<1>5. /\ \A d \in Clients : req'[d].at = "join" => req'[d].of \in told'
      /\ \A d \in Clients : req'[d].at = "admin" => req'[d].of \notin told'
      /\ \A d, e \in Clients :
           req'[d].at = "admin" /\ req'[e].at = "admin" /\ req'[d].of = req'[e].of => d = e
  BY <1>4 DEF ReadsInv, RowsInv
<1>6. RowsInv'
  BY <1>5 DEF RowsInv
<1> QED BY <1>2, <1>6 DEF ReadsInv

\* A row more, of no member of before.
LEMMA RowAdded ==
    ASSUME RowsInv, NEW new \in Memberships, member \in Seq(Memberships \cup {NULL}),
           member' = Append(member, new), RowsOf(new.group, new.user) = {},
           told \subseteq told', new.group \in told'
    PROVE  /\ \A k \in DOMAIN member' : member'[k] # NULL => member'[k].group \in told'
           /\ \A j, k \in DOMAIN member' : SameMember(j, k)' => j = k
<1>1. PICK n \in Nat : n = Len(member) /\ DOMAIN member = 1..n
  BY LenProperties
<1>2. new \in Memberships \cup {NULL}
  OBVIOUS
<1>3. /\ DOMAIN member' = 1..(n + 1) /\ member'[n + 1] = new
      /\ \A k \in 1..n : member'[k] = member[k]
  BY <1>1, <1>2, AppendProperties, LenProperties
<1>4. \A k \in 1..n : ~(/\ member[k] # NULL /\ member[k].group = new.group
                        /\ member[k].user = new.user)
  BY <1>1 DEF RowsOf
<1>5. ASSUME NEW k \in DOMAIN member', member'[k] # NULL PROVE member'[k].group \in told'
  <2>1. k \in 1..n \/ k = n + 1
    BY <1>1, <1>3
  <2>2. CASE k \in 1..n
    BY <1>1, <1>3, <1>5, <2>2 DEF RowsInv
  <2>3. CASE k = n + 1
    BY <1>3, <2>3
  <2> QED BY <2>1, <2>2, <2>3
<1>6. ASSUME NEW j \in DOMAIN member', NEW k \in DOMAIN member', SameMember(j, k)' PROVE j = k
  <2>1. (j \in 1..n \/ j = n + 1) /\ (k \in 1..n \/ k = n + 1)
    BY <1>1, <1>3
  <2>2. /\ member'[j] # NULL /\ member'[k] # NULL
        /\ member'[j].group = member'[k].group /\ member'[j].user = member'[k].user
    BY <1>6 DEF SameMember
  <2>3. CASE j \in 1..n /\ k \in 1..n
    BY <1>1, <1>3, <2>2, <2>3 DEF RowsInv, SameMember
  <2>4. CASE j \in 1..n /\ k = n + 1
    BY <1>3, <1>4, <2>2, <2>4
  <2>5. CASE j = n + 1 /\ k \in 1..n
    BY <1>3, <1>4, <2>2, <2>5
  <2> QED BY <2>1, <2>3, <2>4, <2>5
<1> QED BY <1>5, <1>6

LEMMA InsertAdminReads ==
    ASSUME CommunityInv, ReadsInv, NEW c \in Clients, InsertAdmin(c)
    PROVE  ReadsInv'
<1>1. PICK g, u : g = req[c].of /\ u = req[c].user
  OBVIOUS
<1>2. PICK new : new = Row(g, u, "ADMIN")
  OBVIOUS
<1>3. g \in Groups /\ u \in Users
  BY <1>1 DEF InsertAdmin, CommunityInv, RequestsInv, RequestOk
<1>4. new \in Memberships /\ new.group = g /\ new.user = u
  BY <1>2, <1>3 DEF Row, Memberships
<1>5. /\ member' = Append(member, new) /\ told' = told \cup {g} /\ Becomes(c, Idle)
      /\ req[c].at = "admin" /\ UNCHANGED <<answer, mix>>
  BY <1>1, <1>2 DEF InsertAdmin
<1>6. RowsInv /\ member \in Seq(Memberships \cup {NULL})
  BY DEF ReadsInv, CommunityInv, TablesInv
<1>7. g \notin told
  BY <1>1, <1>5, <1>6 DEF RowsInv
<1>8. RowsOf(g, u) = {}
  BY <1>6, <1>7 DEF RowsOf, RowsInv
<1>9. /\ \A k \in DOMAIN member' : member'[k] # NULL => member'[k].group \in told'
      /\ \A j, k \in DOMAIN member' : SameMember(j, k)' => j = k
  BY <1>4, <1>5, <1>6, <1>8, RowAdded
<1>10. \A d \in Clients : d # c /\ req[d].at = "admin" => req[d].of \notin told'
  BY <1>1, <1>5, <1>6 DEF RowsInv
<1> QED BY <1>5, <1>9, <1>10, RowsWritten

LEMMA InsertMemberReads ==
    ASSUME CommunityInv, ReadsInv, NEW c \in Clients, InsertMember(c)
    PROVE  ReadsInv'
<1>1. PICK g, u : g = req[c].of /\ u = req[c].user
  OBVIOUS
<1>2. PICK new : new = Row(g, u, "MEMBER")
  OBVIOUS
<1>3. g \in Groups /\ u \in Users
  BY <1>1 DEF InsertMember, CommunityInv, RequestsInv, RequestOk
<1>4. new \in Memberships /\ new.group = g /\ new.user = u
  BY <1>2, <1>3 DEF Row, Memberships
<1>5. /\ member' = IF RowsOf(g, u) = {} THEN Append(member, new) ELSE member
      /\ told' = told /\ Becomes(c, Idle)
      /\ req[c].at = "join" /\ UNCHANGED <<answer, mix>>
  BY <1>1, <1>2 DEF InsertMember
<1>6. RowsInv /\ member \in Seq(Memberships \cup {NULL})
  BY DEF ReadsInv, CommunityInv, TablesInv
<1>7. g \in told
  BY <1>1, <1>5, <1>6 DEF RowsInv
<1>8. /\ \A k \in DOMAIN member' : member'[k] # NULL => member'[k].group \in told'
      /\ \A j, k \in DOMAIN member' : SameMember(j, k)' => j = k
  <2>1. CASE RowsOf(g, u) = {}
    BY <1>4, <1>5, <1>6, <1>7, <2>1, RowAdded
  <2>2. CASE RowsOf(g, u) # {}
    BY <1>5, <1>6, <2>2 DEF RowsInv, SameMember
  <2> QED BY <2>1, <2>2
<1>9. \A d \in Clients : d # c /\ req[d].at = "admin" => req[d].of \notin told'
  BY <1>5, <1>6 DEF RowsInv
<1> QED BY <1>5, <1>8, <1>9, RowsWritten

LEMMA RemoveMemberReads ==
    ASSUME CommunityInv, ReadsInv, NEW c \in Clients, RemoveMember(c)
    PROVE  ReadsInv'
<1>1. PICK k : k = req[c].of
  OBVIOUS
<1>2. /\ member' = [member EXCEPT ![k] = NULL] /\ told' = told /\ Becomes(c, Idle)
      /\ UNCHANGED <<answer, mix>>
  BY <1>1 DEF RemoveMember
<1>3. RowsInv
  BY DEF ReadsInv
<1>4. DOMAIN member' = DOMAIN member
  BY <1>2
<1>5. ASSUME NEW j \in DOMAIN member', member'[j] # NULL PROVE member'[j] = member[j]
  BY <1>2, <1>4, <1>5
<1>6. /\ \A j \in DOMAIN member' : member'[j] # NULL => member'[j].group \in told'
      /\ \A i, j \in DOMAIN member' : SameMember(i, j)' => i = j
  BY <1>2, <1>3, <1>4, <1>5 DEF RowsInv, SameMember
<1>7. \A d \in Clients : d # c /\ req[d].at = "admin" => req[d].of \notin told'
  BY <1>2, <1>3 DEF RowsInv
<1> QED BY <1>2, <1>6, <1>7, RowsWritten

-----------------------------------------------------------------------------
(* All the reads.                                                           *)

LEMMA ReadsStep == CommunityInv /\ ReadsInv /\ [Next]_vars => ReadsInv'
<1> SUFFICES ASSUME CommunityInv, ReadsInv, [Next]_vars PROVE ReadsInv'
  OBVIOUS
<1>1. ASSUME NEW u \in Users, Study(u) \/ FinishStudy(u) \/ Plan(u) PROVE ReadsInv'
  BY <1>1, ReadsQuiet DEF Study, FinishStudy, Plan, Others
<1>2. ASSUME NEW u \in Users, NEW s \in Subjects \cup {NULL}, NEW t \in mix.starts, Record(u, t, s)
      PROVE ReadsInv'
  BY <1>2, ReadsQuiet DEF Record, Others
<1>3. ASSUME NEW k \in 1..MaxRows, CompleteTask(k) PROVE ReadsInv'
  BY <1>3, ReadsQuiet DEF CompleteTask, Others
<1>4. ASSUME Tick PROVE ReadsInv'
  BY <1>4, ReadsQuiet DEF Tick, Others
<1>5. ASSUME NEW c \in Clients, AskProgress(c) \/ ProgressTasks(c) \/ ProgressStreak(c)
      PROVE ReadsInv'
  BY <1>5, AskProgressReads, ProgressTasksReads, ProgressStreakReads
<1>6. ASSUME NEW c \in Clients, Share(c, 1, 7) PROVE ReadsInv'
  BY <1>6, ReadsQuiet DEF Share
<1>7. ASSUME NEW c \in Clients,
             WriteRevoked(c) \/ CheckReport(c) \/ ReportSessions(c) \/ ReportTasks(c)
      PROVE ReadsInv'
  BY <1>7, LinkReads, ReportTasksReads
<1>8. ASSUME NEW c \in Clients, NEW k \in 1..MaxRows, Revoke(c, k) \/ AskReport(c, k)
      PROVE ReadsInv'
  BY <1>8, LinkReads
<1>9. ASSUME NEW c \in Clients, NEW g \in Groups,
             CreateGroup(c, g) \/ Join(c, g) \/ Leave(c, g) \/ AskBoard(c, g)
      PROVE ReadsInv'
  BY <1>9, CreateGroupReads, JoinReads, LeaveReads, AskBoardReads
<1>10. ASSUME NEW c \in Clients, InsertAdmin(c) \/ InsertMember(c) \/ RemoveMember(c)
       PROVE ReadsInv'
  BY <1>10, InsertAdminReads, InsertMemberReads, RemoveMemberReads
<1>11. ASSUME NEW c \in Clients, ReadMembers(c) \/ Rank(c) \/ Abort(c) PROVE ReadsInv'
  BY <1>11, ReadMembersReads, RankReads, AbortReads
<1>12. ASSUME NEW c \in Clients, NEW k \in 1..MaxRows, ReadTasks(c, k) \/ ReadSessions(c, k)
       PROVE ReadsInv'
  BY <1>12, ReadTasksReads, ReadSessionsReads
<1>13. ASSUME UNCHANGED vars PROVE ReadsInv'
  BY <1>13, ReadsQuiet DEF vars
<1> QED
  BY <1>1, <1>2, <1>3, <1>4, <1>5, <1>6, <1>7, <1>8, <1>9, <1>10, <1>11, <1>12, <1>13 DEF Next

-----------------------------------------------------------------------------
(* The theorems.                                                            *)

\* What is done of sessions, tasks and time leaves the rest as it is.
LEMMA WorkOk ==
    ASSUME CommunityInv, WorkInv', UNCHANGED Others
    PROVE  CommunityInv'
<1>1. TablesInv' /\ AnswersInv' /\ CreatorIsAdmin'
  BY DEF CommunityInv, TablesInv, AnswersInv, CreatorIsAdmin, RowsOf, Others
<1>2. RequestsInv'
  BY DEF CommunityInv, RequestsInv, RequestOk, Works, Others
<1> QED BY <1>1, <1>2 DEF CommunityInv

LEMMA CommunityStart == Init => CommunityInv
<1> SUFFICES ASSUME Init PROVE CommunityInv
  OBVIOUS
<1>1. mix \in Mixes /\ clock \in mix.moments
  <2>1. mix \in Mixes /\ clock = Min(mix.moments)
    BY DEF Init
  <2>2. mix.moments \in SUBSET Nat /\ mix.moments # {}
    BY <2>1
  <2> QED BY <2>1, <2>2, MinIsLeast
<1>2. WorkInv
  BY <1>1, EmptySeq, FS_EmptySet DEF Init, WorkInv
<1>3. TablesInv
  BY EmptySeq DEF Init, TablesInv
<1>4. RequestsInv
  BY IdleOk DEF Init, RequestsInv
<1>5. AnswersInv
  BY DEF Init, AnswersInv, NoAnswer
<1>6. CreatorIsAdmin
  BY DEF Init, CreatorIsAdmin
<1> QED BY <1>2, <1>3, <1>4, <1>5, <1>6 DEF CommunityInv

LEMMA CommunityStep == CommunityInv /\ [Next]_vars => CommunityInv'
<1> SUFFICES ASSUME CommunityInv, [Next]_vars PROVE CommunityInv'
  OBVIOUS
<1>w. WorkInv
  BY DEF CommunityInv
<1>1. ASSUME NEW u \in Users, Study(u) \/ FinishStudy(u) \/ Plan(u) PROVE CommunityInv'
  <2>1. WorkInv' /\ UNCHANGED Others
    BY <1>1, <1>w, StudyWorks, FinishWorks, PlanWorks DEF Study, FinishStudy, Plan
  <2> QED BY <2>1, WorkOk
<1>2. ASSUME NEW u \in Users, NEW s \in Subjects \cup {NULL}, NEW t \in mix.starts, Record(u, t, s)
      PROVE CommunityInv'
  <2>1. WorkInv' /\ UNCHANGED Others
    BY <1>2, <1>w, RecordWorks DEF Record
  <2> QED BY <2>1, WorkOk
<1>3. ASSUME NEW k \in 1..MaxRows, CompleteTask(k) PROVE CommunityInv'
  <2>1. WorkInv' /\ UNCHANGED Others
    BY <1>3, <1>w, CompleteWorks DEF CompleteTask
  <2> QED BY <2>1, WorkOk
<1>4. ASSUME Tick PROVE CommunityInv'
  <2>1. WorkInv' /\ UNCHANGED Others
    BY <1>4, <1>w, TickWorks DEF Tick
  <2> QED BY <2>1, WorkOk
<1>5. ASSUME NEW c \in Clients, AskProgress(c) \/ ProgressTasks(c) \/ ProgressStreak(c)
      PROVE CommunityInv'
  BY <1>5, AskProgressOk, ProgressTasksOk, ProgressStreakOk
<1>6. ASSUME NEW c \in Clients,
             \/ Share(c, 1, 7) \/ WriteRevoked(c) \/ CheckReport(c) \/ ReportSessions(c)
             \/ ReportTasks(c)
      PROVE CommunityInv'
  <2>1. 1 \in Nat /\ 7 \in Nat
    OBVIOUS
  <2> QED BY <1>6, <2>1, ShareOk, WriteRevokedOk, CheckReportOk, ReportSessionsOk, ReportTasksOk
<1>7. ASSUME NEW c \in Clients, NEW k \in 1..MaxRows, Revoke(c, k) \/ AskReport(c, k)
      PROVE CommunityInv'
  BY <1>7, RevokeOk, AskReportOk
<1>8. ASSUME NEW c \in Clients, NEW g \in Groups,
             CreateGroup(c, g) \/ Join(c, g) \/ Leave(c, g) \/ AskBoard(c, g)
      PROVE CommunityInv'
  BY <1>8, CreateGroupOk, JoinOk, LeaveOk, AskBoardOk
<1>9. ASSUME NEW c \in Clients, InsertAdmin(c) \/ InsertMember(c) \/ RemoveMember(c)
      PROVE CommunityInv'
  BY <1>9, InsertAdminOk, InsertMemberOk, RemoveMemberOk
<1>10. ASSUME NEW c \in Clients, ReadMembers(c) \/ Rank(c) \/ Abort(c) PROVE CommunityInv'
  BY <1>10, ReadMembersOk, RankOk, AbortOk
<1>11. ASSUME NEW c \in Clients, NEW k \in 1..MaxRows, ReadTasks(c, k) \/ ReadSessions(c, k)
       PROVE CommunityInv'
  BY <1>11, BoardReadsOk
<1>12. ASSUME UNCHANGED vars PROVE CommunityInv'
  <2>1. WorkInv' /\ UNCHANGED Others
    BY <1>12, <1>w, WorkQuiet DEF vars, Others
  <2> QED BY <2>1, WorkOk
<1> QED
  BY <1>1, <1>2, <1>3, <1>4, <1>5, <1>6, <1>7, <1>8, <1>9, <1>10, <1>11, <1>12 DEF Next

LEMMA Always == Spec => []CommunityInv
BY CommunityStart, CommunityStep, PTL DEF Spec

LEMMA AlwaysReads == Spec => []ReadsInv
BY Always, ReadsStart, ReadsStep, PTL DEF Spec

\* Every variable keeps its type, in every instance.
THEOREM TypeCorrect == Spec => []TypeOK
<1>1. CommunityInv => TypeOK
  BY TypesFromInv
<1> QED BY <1>1, Always, PTL

\* Whoever joins and leaves at the same time, the creator of a group whose creation was
\* answered is its ADMIN until he leaves (501-579).
THEOREM CreatorStaysAdmin == Spec => []CreatorIsAdmin
<1>1. CommunityInv => CreatorIsAdmin
  BY DEF CommunityInv
<1> QED BY <1>1, Always, PTL

\* Whatever overlaps, no report is answered to a request that arrived when its link was
\* revoked or had expired (417-442).
THEOREM RevokedLinksEnd == Spec => []ReportWhileValid
<1>1. CommunityInv => ReportWhileValid
  BY ReportFromInv
<1> QED BY <1>1, Always, PTL

\* Whatever is read in between, a progress report adds up, and its streak is the number of
\* consecutive dates wherever no clocks change (study-sessions.service 198-407).
THEOREM ProgressTrue == Spec => []ProgressIsReal
<1>1. ReadsInv => ProgressIsReal
  BY ProgressFromInv
<1> QED BY <1>1, AlwaysReads, PTL

\* Whoever joins, leaves, studies and plans while it is read, a leaderboard has each member
\* once, in the order of scores between 0 and 100 that grow with what a member did
\* (accountability.service 581-663).
THEOREM BoardsAreFair == Spec => []BoardIsFair
<1>1. ReadsInv => BoardIsFair
  BY BoardFromInv
<1> QED BY <1>1, AlwaysReads, PTL
=============================================================================
