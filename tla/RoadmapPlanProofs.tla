------------------------- MODULE RoadmapPlanProofs -------------------------
(***************************************************************************)
(* Theorems about RoadmapPlan.                                             *)
(***************************************************************************)
EXTENDS RoadmapPlan, SequenceTheorems, FiniteSetTheorems, WellFoundedInduction, TLAPS

-----------------------------------------------------------------------------
(* Recursion by halves: a function of the parts of 1..N that starts with    *)
(* what the part begins `on'.                                               *)

LEMMA LeastOf ==
    ASSUME NEW S \in SUBSET Nat, S # {}
    PROVE  \E n \in S : \A m \in S : n <= m
<1>1. PICK x \in S : \A y \in S : ~(<<y, x>> \in OpToRel(<, Nat))
  BY WFMin, NatLessThanWellFounded
<1>2. ASSUME NEW y \in S PROVE x <= y
  <2>1. ~(<<y, x>> \in Nat \X Nat /\ y < x)
    BY <1>1 DEF OpToRel
  <2> QED BY <2>1
<1> QED BY <1>2

PartsOf(N, A) == [from : 1..(N + 1), to : 0..N, on : A]
Middle(p) == (p.from + p.to) \div 2
Former(p) == [from |-> p.from, to |-> Middle(p), on |-> p.on]
Latter(p, a) == [from |-> Middle(p) + 1, to |-> p.to, on |-> a]

\* What a part gives, when its halves give what run says.
Halved(run, step, p) ==
    IF p.from > p.to THEN p.on
    ELSE IF p.from = p.to THEN step[p.from][p.on]
    ELSE run[Latter(p, run[Former(p)])]

\* Halves are parts, and smaller.
LEMMA HalvesOfParts ==
    ASSUME NEW N \in Nat, NEW A, NEW p \in PartsOf(N, A), p.from < p.to
    PROVE  /\ Middle(p) \in p.from..(p.to - 1)
           /\ Former(p) \in PartsOf(N, A)
           /\ Former(p) = [from |-> p.from, to |-> Middle(p), on |-> p.on]
           /\ \A a \in A : /\ Latter(p, a) \in PartsOf(N, A)
                           /\ Latter(p, a) = [from |-> Middle(p) + 1, to |-> p.to, on |-> a]
<1>1. /\ p = [from |-> p.from, to |-> p.to, on |-> p.on]
      /\ p.from \in 1..(N + 1) /\ p.to \in 0..N /\ p.on \in A
  BY DEF PartsOf
<1>2. PICK m : m = Middle(p)
  OBVIOUS
<1>3. m \in Int /\ m >= p.from /\ m < p.to
  BY <1>1, <1>2 DEF Middle
<1>4. Former(p) = [from |-> p.from, to |-> m, on |-> p.on]
  BY <1>1, <1>2 DEF Former
<1>5. Former(p) \in PartsOf(N, A)
  BY <1>1, <1>3, <1>4 DEF PartsOf
<1>6. ASSUME NEW a \in A
      PROVE  Latter(p, a) = [from |-> m + 1, to |-> p.to, on |-> a]
  BY <1>1, <1>2 DEF Latter
<1>7. ASSUME NEW a \in A PROVE Latter(p, a) \in PartsOf(N, A)
  BY <1>1, <1>3, <1>6 DEF PartsOf
<1> QED BY <1>1, <1>2, <1>3, <1>4, <1>5, <1>6, <1>7

\* There is such a function.
LEMMA HalvesDefined ==
    ASSUME NEW N \in Nat, NEW A, NEW step \in [1..N -> [A -> A]]
    PROVE  \E run \in [PartsOf(N, A) -> A] : \A p \in PartsOf(N, A) : run[p] = Halved(run, step, p)
<1> DEFINE Parts == PartsOf(N, A)
           Upto(n) == \E run \in [Parts -> A] :
                         \A p \in Parts : p.to - p.from < n => run[p] = Halved(run, step, p)
           Beyond == {n \in Nat : ~Upto(n)}
<1>1. ASSUME NEW p \in Parts PROVE p.from \in 1..(N + 1) /\ p.to \in 0..N /\ p.on \in A
  BY DEF PartsOf
<1>2. Upto(0)
  <2> DEFINE run == [p \in Parts |-> p.on]
  <2>1. run \in [Parts -> A]
    BY <1>1
  <2>2. ASSUME NEW p \in Parts, p.to - p.from < 0 PROVE run[p] = Halved(run, step, p)
    BY <1>1, <2>2 DEF Halved
  <2> QED BY <2>1, <2>2
<1>3. ASSUME NEW n \in Nat, Upto(n) PROVE Upto(n + 1)
  <2>1. PICK run \in [Parts -> A] :
          \A p \in Parts : p.to - p.from < n => run[p] = Halved(run, step, p)
    BY <1>3
  <2> DEFINE next == [p \in Parts |-> Halved(run, step, p)]
  <2>2. ASSUME NEW p \in Parts PROVE Halved(run, step, p) \in A
    <3>1. CASE p.from > p.to
      BY <1>1, <3>1 DEF Halved
    <3>2. CASE p.from = p.to
      <4>1. step[p.from][p.on] \in A
        BY <1>1, <3>2
      <4> QED BY <1>1, <3>2, <4>1 DEF Halved
    <3>3. CASE p.from < p.to
      <4>1. Former(p) \in Parts
        BY <3>3, HalvesOfParts
      <4>2. run[Former(p)] \in A
        BY <2>1, <4>1
      <4>3. Latter(p, run[Former(p)]) \in Parts
        BY <3>3, <4>2, HalvesOfParts
      <4>4. run[Latter(p, run[Former(p)])] \in A
        BY <2>1, <4>3
      <4> QED BY <1>1, <3>3, <4>4 DEF Halved
    <3> QED BY <1>1, <3>1, <3>2, <3>3
  <2>3. next \in [Parts -> A]
    BY <2>2
  <2>4. ASSUME NEW p \in Parts, p.to - p.from < n PROVE next[p] = run[p]
    BY <2>1, <2>4
  <2>5. ASSUME NEW p \in Parts, p.to - p.from < n + 1 PROVE next[p] = Halved(next, step, p)
    <3>1. CASE p.from >= p.to
      <4>1. next[p] = Halved(run, step, p)
        OBVIOUS
      <4>2. p.from > p.to \/ p.from = p.to
        BY <1>1, <3>1
      <4>3. Halved(run, step, p) = Halved(next, step, p)
        BY <4>2 DEF Halved
      <4> QED BY <4>1, <4>3
    <3>2. CASE p.from < p.to
      <4> DEFINE a == run[Former(p)]
      <4>1. /\ Middle(p) \in p.from..(p.to - 1) /\ Former(p) \in Parts
            /\ Former(p) = [from |-> p.from, to |-> Middle(p), on |-> p.on]
        BY <3>2, HalvesOfParts
      <4>2. Former(p).to - Former(p).from < n
        BY <1>1, <2>5, <4>1
      <4>3. next[Former(p)] = a /\ a \in A
        BY <2>1, <2>4, <4>1, <4>2
      <4>4. /\ Latter(p, a) \in Parts
            /\ Latter(p, a) = [from |-> Middle(p) + 1, to |-> p.to, on |-> a]
        BY <3>2, <4>3, HalvesOfParts
      <4>5. Latter(p, a).to - Latter(p, a).from < n
        BY <1>1, <2>5, <4>1, <4>4
      <4>6. next[Latter(p, a)] = run[Latter(p, a)]
        BY <2>4, <4>4, <4>5
      <4> QED BY <1>1, <3>2, <4>3, <4>6 DEF Halved
    <3> QED BY <1>1, <3>1, <3>2
  <2> QED BY <2>3, <2>5
<1>4. Beyond = {}
  <2> SUFFICES ASSUME Beyond # {} PROVE FALSE
    OBVIOUS
  <2>1. PICK n \in Beyond : \A m \in Beyond : n <= m
    BY LeastOf
  <2>2. n # 0
    BY <1>2, <2>1
  <2>3. n - 1 \in Nat /\ n - 1 \notin Beyond
    BY <2>1, <2>2
  <2>4. Upto(n - 1)
    BY <2>3
  <2>5. Upto(n - 1 + 1)
    BY <1>3, <2>3, <2>4
  <2>6. n - 1 + 1 = n
    BY <2>1
  <2> QED BY <2>1, <2>5, <2>6
<1>5. N + 1 \in Nat
  OBVIOUS
<1>6. Upto(N + 1)
  BY <1>4, <1>5
<1>7. \A p \in Parts : p.to - p.from < N + 1
  BY <1>1
<1> HIDE DEF Parts
<1> QED BY <1>6, <1>7 DEF Parts

\* What the steps keep, the parts keep: if step i leads from good[i - 1] to good[i], then a
\* part leads from what is good before it to what is good after it.
LEMMA HalvesKeep ==
    ASSUME NEW N \in Nat, NEW A, NEW step \in [1..N -> [A -> A]],
           NEW run \in [PartsOf(N, A) -> A],
           \A p \in PartsOf(N, A) : run[p] = Halved(run, step, p),
           NEW good \in [0..N -> SUBSET A],
           \A i \in 1..N : \A a \in good[i - 1] : step[i][a] \in good[i]
    PROVE  \A p \in PartsOf(N, A) :
              p.from <= p.to + 1 /\ p.on \in good[p.from - 1] => run[p] \in good[p.to]
<1> DEFINE Parts == PartsOf(N, A)
           Keeps(p) == p.from <= p.to + 1 /\ p.on \in good[p.from - 1] => run[p] \in good[p.to]
           Bad == {n \in Nat : \E p \in Parts : p.to - p.from = n - 1 /\ ~Keeps(p)}
<1>1. ASSUME NEW p \in Parts PROVE p.from \in 1..(N + 1) /\ p.to \in 0..N /\ p.on \in A
  BY DEF PartsOf
<1>2. ASSUME NEW n \in Bad, \A m \in Bad : n <= m PROVE FALSE
  <2>1. PICK p \in Parts : p.to - p.from = n - 1 /\ ~Keeps(p)
    OBVIOUS
  <2>2. /\ p.from <= p.to + 1 /\ p.on \in good[p.from - 1] /\ run[p] \notin good[p.to]
        /\ p.from \in 1..(N + 1) /\ p.to \in 0..N /\ p.on \in A
    BY <1>1, <2>1
  <2>3. run[p] = Halved(run, step, p)
    OBVIOUS
  <2>4. CASE p.from > p.to
    <3>1. p.from - 1 = p.to /\ run[p] = p.on
      BY <2>2, <2>3, <2>4 DEF Halved
    <3> QED BY <2>2, <3>1
  <2>5. CASE p.from = p.to
    <3>1. run[p] = step[p.from][p.on] /\ p.from \in 1..N
      BY <2>2, <2>3, <2>5 DEF Halved
    <3>2. step[p.from][p.on] \in good[p.from]
      BY <2>2, <3>1
    <3> QED BY <2>2, <2>5, <3>1, <3>2
  <2>6. CASE p.from < p.to
    <3> DEFINE q == Former(p)
               a == run[q]
               r == Latter(p, a)
    <3>1. /\ Middle(p) \in p.from..(p.to - 1) /\ q \in Parts
          /\ q = [from |-> p.from, to |-> Middle(p), on |-> p.on]
      BY <2>6, HalvesOfParts
    <3>2. a \in A
      BY <3>1
    <3>3. r \in Parts /\ r = [from |-> Middle(p) + 1, to |-> p.to, on |-> a]
      BY <2>6, <3>2, HalvesOfParts
    <3>4. run[p] = run[r]
      BY <2>2, <2>3, <2>6 DEF Halved
    <3>5. /\ q.from = p.from /\ q.to = Middle(p) /\ q.on = p.on
          /\ r.from = Middle(p) + 1 /\ r.to = p.to /\ r.on = a
      BY <3>1, <3>3
    <3>6. ASSUME NEW t \in Parts, t.from <= t.to, t.to - t.from < n - 1 PROVE Keeps(t)
      <4>1. t.from \in Int /\ t.to \in Int /\ n \in Nat
        BY <1>1
      <4>2. t.to - t.from + 1 \in Nat /\ t.to - t.from + 1 < n
        BY <3>6, <4>1
      <4>3. t.to - t.from + 1 \notin Bad
        BY <1>2, <4>2
      <4>4. t.to - t.from = (t.to - t.from + 1) - 1
        BY <4>1
      <4> QED BY <4>2, <4>3, <4>4
    <3>7. q.from <= q.to /\ q.to - q.from < n - 1 /\ r.from <= r.to /\ r.to - r.from < n - 1
      BY <2>1, <2>2, <3>1, <3>5
    <3>8. Keeps(q) /\ Keeps(r)
      BY <3>1, <3>3, <3>6, <3>7
    <3>9. q.from <= q.to + 1 /\ q.on \in good[q.from - 1]
      BY <2>2, <3>1, <3>5
    <3>10. a \in good[Middle(p)]
      BY <3>5, <3>8, <3>9
    <3>11. r.from - 1 = Middle(p) /\ r.from <= r.to + 1
      BY <2>2, <3>1, <3>5
    <3>12. run[r] \in good[p.to]
      BY <3>5, <3>8, <3>10, <3>11
    <3> QED BY <2>2, <3>4, <3>12
  <2> QED BY <2>2, <2>4, <2>5, <2>6
<1>3. Bad = {}
  <2>1. Bad \in SUBSET Nat
    OBVIOUS
  <2> QED BY <1>2, <2>1, LeastOf
<1>4. ASSUME NEW p \in Parts PROVE Keeps(p)
  <2>1. CASE p.from <= p.to + 1
    <3>1. p.to - p.from + 1 \in Nat /\ p.to - p.from = (p.to - p.from + 1) - 1
      BY <1>1, <2>1
    <3> QED BY <1>3, <3>1
  <2>2. CASE ~(p.from <= p.to + 1)
    BY <2>2
  <2> QED BY <2>1, <2>2
<1> QED BY <1>4

\* Any such function gives what the steps give.
LEMMA HalvesTyped ==
    ASSUME NEW N \in Nat, NEW A, NEW step \in [1..N -> [A -> A]],
           NEW run, run = [p \in PartsOf(N, A) |-> Halved(run, step, p)]
    PROVE  run \in [PartsOf(N, A) -> A]
<1> DEFINE Parts == PartsOf(N, A)
           Bad == {n \in Nat : \E p \in Parts : p.to - p.from = n - 1 /\ run[p] \notin A}
<1>1. ASSUME NEW p \in Parts PROVE p.from \in 1..(N + 1) /\ p.to \in 0..N /\ p.on \in A
  BY DEF PartsOf
<1>2. ASSUME NEW p \in Parts, p.from >= p.to PROVE run[p] \in A
  <2>1. run[p] = Halved(run, step, p)
    OBVIOUS
  <2>2. CASE p.from > p.to
    BY <1>1, <2>1, <2>2 DEF Halved
  <2>3. CASE p.from = p.to
    <3>1. step[p.from][p.on] \in A
      BY <1>1, <2>3
    <3> QED BY <1>1, <2>1, <2>3, <3>1 DEF Halved
  <2> QED BY <1>1, <1>2, <2>2, <2>3
<1>3. ASSUME NEW n \in Bad, \A m \in Bad : n <= m PROVE FALSE
  <2>1. PICK p \in Parts : p.to - p.from = n - 1 /\ run[p] \notin A
    OBVIOUS
  <2>2. p.from < p.to
    BY <1>1, <1>2, <2>1
  <2>3. run[p] = run[Latter(p, run[Former(p)])]
    <3>1. run[p] = Halved(run, step, p)
      OBVIOUS
    <3>2. ~(p.from > p.to) /\ p.from # p.to
      BY <1>1, <2>2
    <3> QED BY <3>1, <3>2 DEF Halved
  <2>4. /\ Middle(p) \in p.from..(p.to - 1) /\ Former(p) \in Parts
        /\ Former(p) = [from |-> p.from, to |-> Middle(p), on |-> p.on]
    BY <2>2, HalvesOfParts
  <2>5. ASSUME NEW t \in Parts, t.from <= t.to, t.to - t.from < n - 1 PROVE run[t] \in A
    <3>1. t.from \in Int /\ t.to \in Int /\ n \in Nat
      BY <1>1
    <3>2. PICK m : m = t.to - t.from + 1
      OBVIOUS
    <3>3. m \in Nat /\ m < n /\ t.to - t.from = m - 1
      BY <2>5, <3>1, <3>2
    <3>4. m \notin Bad
      <4> HIDE DEF Bad
      <4> QED BY <1>3, <3>1, <3>3
    <3> QED BY <3>3, <3>4
  <2>6. Former(p).from <= Former(p).to /\ Former(p).to - Former(p).from < n - 1
    BY <1>1, <2>1, <2>4
  <2>7. run[Former(p)] \in A
    BY <2>4, <2>5, <2>6
  <2>8. PICK a \in A : a = run[Former(p)]
    BY <2>7
  <2>9. /\ Latter(p, a) \in Parts
        /\ Latter(p, a) = [from |-> Middle(p) + 1, to |-> p.to, on |-> a]
    BY <2>2, <2>8, HalvesOfParts
  <2>10. Latter(p, a).from <= Latter(p, a).to /\ Latter(p, a).to - Latter(p, a).from < n - 1
    BY <1>1, <2>1, <2>4, <2>9
  <2> QED BY <2>1, <2>3, <2>5, <2>8, <2>9, <2>10
<1>4. Bad = {}
  <2>1. Bad \in SUBSET Nat
    OBVIOUS
  <2> HIDE DEF Bad
  <2> QED BY <1>3, <2>1, LeastOf
<1>5. ASSUME NEW p \in Parts PROVE run[p] \in A
  <2>1. CASE p.from < p.to
    <3>1. p.to - p.from + 1 \in Nat /\ p.to - p.from = (p.to - p.from + 1) - 1
      BY <1>1, <2>1
    <3> QED BY <1>4, <3>1
  <2> QED BY <1>1, <1>2, <2>1
<1> QED BY <1>5

-----------------------------------------------------------------------------
(* Sums over finite sets.                                                   *)

LEMMA SetInduction ==
    ASSUME NEW S, IsFiniteSet(S), NEW G \in SUBSET SUBSET S, {} \in G,
           \A T \in G : \A x \in S \ T : T \cup {x} \in G
    PROVE  S \in G
<1> DEFINE Sizes == {Cardinality(S \ T) : T \in G}
<1>1. ASSUME NEW T \in G PROVE IsFiniteSet(S \ T) /\ Cardinality(S \ T) \in Nat
  <2>1. S \ T \in SUBSET S
    OBVIOUS
  <2> QED BY <2>1, FS_Subset, FS_CardinalityType
<1>2. Sizes \in SUBSET Nat /\ Sizes # {}
  BY <1>1
<1>3. PICK n \in Sizes : \A m \in Sizes : n <= m
  BY <1>2, LeastOf
<1>4. PICK T \in G : Cardinality(S \ T) = n
  BY <1>3
<1>5. CASE S \ T = {}
  <2>1. T = S
    BY <1>5
  <2> QED BY <2>1
<1>6. CASE S \ T # {}
  <2>1. PICK x \in S \ T : TRUE
    BY <1>6
  <2>2. T \cup {x} \in G
    BY <2>1
  <2>3. S \ (T \cup {x}) = (S \ T) \ {x}
    OBVIOUS
  <2>4. Cardinality((S \ T) \ {x}) = Cardinality(S \ T) - 1
    BY <1>1, <2>1, FS_RemoveElement
  <2>5. n - 1 \in Sizes
    BY <1>4, <2>2, <2>3, <2>4
  <2>6. n \in Nat /\ n <= n - 1
    BY <1>2, <1>3, <2>5
  <2> QED BY <2>6
<1> QED BY <1>5, <1>6

\* What the fold of the weights w over s gives, when iter says what those of smaller sets give.
Folded(iter, w, s) ==
    IF s = {} THEN 0 ELSE w[CHOOSE x \in s : TRUE] + iter[s \ {CHOOSE x \in s : TRUE}]

IsFold(iter, w, S) ==
    iter \in [SUBSET S -> Int] /\ \A s \in SUBSET S : iter[s] = Folded(iter, w, s)

LEMMA FoldDefined ==
    ASSUME NEW D, NEW w \in [D -> Int], NEW S \in SUBSET D, IsFiniteSet(S)
    PROVE  \E iter : IsFold(iter, w, S)
<1> DEFINE Upto(n) == \E iter \in [SUBSET S -> Int] :
                         \A s \in SUBSET S : Cardinality(s) < n => iter[s] = Folded(iter, w, s)
           Beyond == {n \in Nat : ~Upto(n)}
<1>1. ASSUME NEW s \in SUBSET S
      PROVE  IsFiniteSet(s) /\ Cardinality(s) \in Nat /\ Cardinality(s) <= Cardinality(S)
  BY FS_Subset, FS_CardinalityType
<1>2. Upto(0)
  <2> DEFINE iter == [s \in SUBSET S |-> 0]
  <2>1. iter \in [SUBSET S -> Int]
    OBVIOUS
  <2>2. \A s \in SUBSET S : ~(Cardinality(s) < 0)
    BY <1>1
  <2> QED BY <2>1, <2>2
<1>3. ASSUME NEW n \in Nat, Upto(n) PROVE Upto(n + 1)
  <2>1. PICK iter \in [SUBSET S -> Int] :
          \A s \in SUBSET S : Cardinality(s) < n => iter[s] = Folded(iter, w, s)
    BY <1>3
  <2> DEFINE next == [s \in SUBSET S |-> Folded(iter, w, s)]
  <2>2. ASSUME NEW s \in SUBSET S PROVE Folded(iter, w, s) \in Int
    <3>1. CASE s = {}
      BY <3>1 DEF Folded
    <3>2. CASE s # {}
      <4>1. PICK x : x = CHOOSE y \in s : TRUE
        OBVIOUS
      <4>2. x \in s
        BY <3>2, <4>1
      <4>3. s \ {x} \in SUBSET S
        OBVIOUS
      <4>4. w[x] \in Int /\ iter[s \ {x}] \in Int
        BY <2>1, <4>2, <4>3
      <4>5. Folded(iter, w, s) = w[x] + iter[s \ {x}]
        BY <3>2, <4>1 DEF Folded
      <4> QED BY <4>4, <4>5
    <3> QED BY <3>1, <3>2
  <2>3. next \in [SUBSET S -> Int]
    BY <2>2
  <2>4. ASSUME NEW s \in SUBSET S, Cardinality(s) < n + 1 PROVE next[s] = Folded(next, w, s)
    <3>1. CASE s = {}
      BY <3>1 DEF Folded
    <3>2. CASE s # {}
      <4>1. PICK x : x = CHOOSE y \in s : TRUE
        OBVIOUS
      <4>2. x \in s
        BY <3>2, <4>1
      <4>3. s \ {x} \in SUBSET S
        OBVIOUS
      <4>4. Cardinality(s \ {x}) = Cardinality(s) - 1
        BY <1>1, <4>2, FS_RemoveElement
      <4>5. Cardinality(s \ {x}) < n
        BY <1>1, <2>4, <4>4
      <4>6. next[s \ {x}] = iter[s \ {x}]
        BY <2>1, <4>3, <4>5
      <4>7. next[s] = w[x] + iter[s \ {x}]
        BY <3>2, <4>1 DEF Folded
      <4> QED BY <3>2, <4>1, <4>6, <4>7 DEF Folded
    <3> QED BY <3>1, <3>2
  <2> QED BY <2>3, <2>4
<1>4. Beyond = {}
  <2> SUFFICES ASSUME Beyond # {} PROVE FALSE
    OBVIOUS
  <2>1. PICK n \in Beyond : \A m \in Beyond : n <= m
    BY LeastOf
  <2>2. n # 0
    BY <1>2, <2>1
  <2>3. PICK m \in Nat : m = n - 1
    BY <2>1, <2>2
  <2>4. Upto(m)
    <3>1. m < n
      <4>1. n \in Nat
        OBVIOUS
      <4> HIDE DEF Beyond
      <4> QED BY <2>3, <4>1
    <3>2. m \notin Beyond
      <4>1. n \in Nat
        OBVIOUS
      <4> HIDE DEF Beyond
      <4> QED BY <2>1, <3>1, <4>1
    <3> QED BY <3>2
  <2>5. Upto(m + 1)
    BY <1>3, <2>4
  <2>6. m + 1 = n
    BY <2>1, <2>3
  <2> QED BY <2>1, <2>5, <2>6
<1>5. S \in SUBSET S
  OBVIOUS
<1>6. Cardinality(S) + 1 \in Nat
  BY <1>1, <1>5
<1>7. Upto(Cardinality(S) + 1)
  BY <1>4, <1>6
<1>8. \A s \in SUBSET S : Cardinality(s) < Cardinality(S) + 1
  BY <1>1, <1>5
<1> QED BY <1>7, <1>8 DEF IsFold

\* It does not matter which element is taken first.
TakesAny(iter, w, S) == \A s \in SUBSET S : \A y \in s : iter[s] = w[y] + iter[s \ {y}]

LEMMA FoldTakes ==
    ASSUME NEW D, NEW w \in [D -> Int], NEW S \in SUBSET D, IsFiniteSet(S),
           NEW iter, IsFold(iter, w, S)
    PROVE  TakesAny(iter, w, S)
<1>0. iter \in [SUBSET S -> Int] /\ \A s \in SUBSET S : iter[s] = Folded(iter, w, s)
  BY DEF IsFold
<1> DEFINE Takes(s) == \A y \in s : iter[s] = w[y] + iter[s \ {y}]
           Bad == {n \in Nat : \E s \in SUBSET S : Cardinality(s) = n /\ ~Takes(s)}
<1>1. ASSUME NEW s \in SUBSET S PROVE IsFiniteSet(s) /\ Cardinality(s) \in Nat
  BY FS_Subset, FS_CardinalityType
<1>2. ASSUME NEW n \in Bad, \A m \in Bad : n <= m PROVE FALSE
  <2>1. PICK s \in SUBSET S : ~Takes(s) /\ Cardinality(s) = n
    OBVIOUS
  <2>2. PICK y \in s : iter[s] # w[y] + iter[s \ {y}]
    BY <2>1
  <2>3. PICK x : x = CHOOSE z \in s : TRUE
    OBVIOUS
  <2>4. x \in s /\ iter[s] = w[x] + iter[s \ {x}]
    BY <1>0, <2>2, <2>3 DEF Folded
  <2>5. x # y
    BY <2>2, <2>4
  <2>6. ASSUME NEW z \in s PROVE Takes(s \ {z})
    <3>1. s \ {z} \in SUBSET S /\ Cardinality(s \ {z}) = Cardinality(s) - 1
      BY <1>1, FS_RemoveElement
    <3>2. PICK m \in Nat : m = Cardinality(s \ {z})
      BY <1>1, <3>1
    <3>3. m < n
      BY <1>1, <2>1, <3>1, <3>2
    <3>4. m \notin Bad
      <4>1. n \in Nat
        OBVIOUS
      <4> HIDE DEF Bad
      <4> QED BY <1>2, <3>3, <4>1
    <3> QED BY <3>1, <3>2, <3>4
  <2>7. iter[s \ {x}] = w[y] + iter[(s \ {x}) \ {y}]
    BY <2>4, <2>5, <2>6
  <2>8. iter[s \ {y}] = w[x] + iter[(s \ {y}) \ {x}]
    BY <2>4, <2>5, <2>6
  <2>9. (s \ {x}) \ {y} = (s \ {y}) \ {x} /\ (s \ {x}) \ {y} \in SUBSET S
    OBVIOUS
  <2>10. iter[(s \ {x}) \ {y}] \in Int /\ w[x] \in Int /\ w[y] \in Int
    BY <1>0, <2>4, <2>9
  <2>11. PICK rest \in Int : rest = iter[(s \ {x}) \ {y}]
    BY <2>10
  <2>12. iter[s] = w[x] + (w[y] + rest) /\ iter[s \ {y}] = w[x] + rest
    BY <2>4, <2>7, <2>8, <2>9, <2>11
  <2>13. iter[s] = w[y] + iter[s \ {y}]
    BY <2>10, <2>12
  <2> QED BY <2>2, <2>13
<1>3. Bad \in SUBSET Nat
  OBVIOUS
<1>4. Bad = {}
  BY <1>2, <1>3, LeastOf
<1>5. ASSUME NEW s \in SUBSET S PROVE Takes(s)
  BY <1>1, <1>4
<1> QED BY <1>5 DEF TakesAny

LEMMA SumIsFold ==
    ASSUME NEW D, NEW w \in [D -> Int], NEW S \in SUBSET D, IsFiniteSet(S)
    PROVE  \E iter : IsFold(iter, w, S) /\ SumFunctionOnSet(w, S) = iter[S]
<1> DEFINE It == CHOOSE f : f = [s \in SUBSET S |->
                     IF s = {} THEN 0
                     ELSE w[CHOOSE x \in s : TRUE] + f[s \ {CHOOSE x \in s : TRUE}]]
<1>1. SumFunctionOnSet(w, S) = It[S]
  BY DEF SumFunctionOnSet, FoldFunctionOnSet, MapThenFoldSet
<1>2. PICK iter : IsFold(iter, w, S)
  <2> HIDE DEF It
  <2> QED BY FoldDefined
<1>3. iter = [s \in SUBSET S |->
                 IF s = {} THEN 0
                 ELSE w[CHOOSE x \in s : TRUE] + iter[s \ {CHOOSE x \in s : TRUE}]]
  BY <1>2 DEF IsFold, Folded
<1>4. It = [s \in SUBSET S |->
                 IF s = {} THEN 0
                 ELSE w[CHOOSE x \in s : TRUE] + It[s \ {CHOOSE x \in s : TRUE}]]
  BY <1>3
<1> HIDE DEF It
<1>5. \A s \in SUBSET S : It[s] = Folded(It, w, s)
  BY <1>4 DEF Folded
<1> DEFINE Bad == {n \in Nat : \E s \in SUBSET S : Cardinality(s) = n /\ It[s] \notin Int}
<1>6. ASSUME NEW s \in SUBSET S PROVE IsFiniteSet(s) /\ Cardinality(s) \in Nat
  BY FS_Subset, FS_CardinalityType
<1>7. ASSUME NEW n \in Bad, \A m \in Bad : n <= m PROVE FALSE
  <2>1. PICK s \in SUBSET S : Cardinality(s) = n /\ It[s] \notin Int
    OBVIOUS
  <2>2. PICK x : x = CHOOSE y \in s : TRUE
    OBVIOUS
  <2>3. s # {}
    BY <1>5, <2>1 DEF Folded
  <2>4. x \in s
    BY <2>2, <2>3
  <2>5. It[s] = w[x] + It[s \ {x}]
    BY <1>5, <2>2, <2>3 DEF Folded
  <2>6. s \ {x} \in SUBSET S /\ Cardinality(s \ {x}) = n - 1
    BY <1>6, <2>1, <2>4, FS_RemoveElement
  <2>7. It[s \ {x}] \notin Int
    BY <2>1, <2>4, <2>5
  <2>8. PICK m : m = n - 1
    OBVIOUS
  <2>9. m \in Nat /\ m \in Bad
    BY <1>6, <2>6, <2>7, <2>8
  <2>10. n \in Nat
    OBVIOUS
  <2> HIDE DEF Bad
  <2> QED BY <1>7, <2>8, <2>9, <2>10
<1>8. Bad = {}
  <2>1. Bad \in SUBSET Nat
    OBVIOUS
  <2> HIDE DEF Bad
  <2> QED BY <1>7, <2>1, LeastOf
<1>9. \A s \in SUBSET S : It[s] \in Int
  BY <1>6, <1>8
<1>10. It \in [SUBSET S -> Int]
  BY <1>4, <1>9
<1> QED BY <1>1, <1>5, <1>10 DEF IsFold

LEMMA SumOfNone == ASSUME NEW D, NEW w \in [D -> Int] PROVE SumFunctionOnSet(w, {}) = 0
<1>1. IsFiniteSet({}) /\ {} \in SUBSET D
  BY FS_EmptySet
<1>2. PICK iter : IsFold(iter, w, {}) /\ SumFunctionOnSet(w, {}) = iter[{}]
  BY <1>1, SumIsFold
<1> QED BY <1>2 DEF IsFold, Folded

LEMMA SumTakes ==
    ASSUME NEW D, NEW w \in [D -> Int], NEW S \in SUBSET D, IsFiniteSet(S), NEW y \in S
    PROVE  SumFunctionOnSet(w, S) \in Int /\ SumFunctionOnSet(w, S \ {y}) \in Int /\ SumFunctionOnSet(w, S) = w[y] + SumFunctionOnSet(w, S \ {y})
<1> DEFINE R == S \ {y}
<1>1. PICK iter : IsFold(iter, w, S) /\ SumFunctionOnSet(w, S) = iter[S]
  BY SumIsFold
<1>2. R \in SUBSET S /\ R \in SUBSET D /\ IsFiniteSet(R)
  BY FS_RemoveElement
<1>3. PICK other : IsFold(other, w, R) /\ SumFunctionOnSet(w, R) = other[R]
  BY <1>2, SumIsFold
<1> HIDE DEF R
<1>4. TakesAny(iter, w, S) /\ TakesAny(other, w, R)
  BY <1>1, <1>2, <1>3, FoldTakes
<1> DEFINE Same == {s \in SUBSET R : iter[s] = other[s]}
<1>6. {} \in Same
  BY <1>1, <1>3 DEF IsFold, Folded
<1>7. ASSUME NEW s \in Same, NEW x \in R \ s PROVE s \cup {x} \in Same
  <2>1. s \cup {x} \in SUBSET R /\ s \cup {x} \in SUBSET S /\ x \in s \cup {x}
    BY <1>2
  <2>2. (s \cup {x}) \ {x} = s
    OBVIOUS
  <2> HIDE DEF Same
  <2>3. iter[s \cup {x}] = w[x] + iter[s] /\ other[s \cup {x}] = w[x] + other[s]
    BY <1>4, <2>1, <2>2 DEF TakesAny
  <2>4. iter[s] = other[s]
    BY DEF Same
  <2> QED BY <2>1, <2>3, <2>4 DEF Same
<1>8. R \in Same
  <2>1. Same \in SUBSET SUBSET R
    OBVIOUS
  <2> HIDE DEF Same, R
  <2> QED BY <1>2, <1>6, <1>7, <2>1, SetInduction
<1>9. iter[S] = w[y] + iter[R] /\ iter[R] = other[R] /\ iter[S] \in Int /\ other[R] \in Int
  BY <1>1, <1>2, <1>3, <1>4, <1>8 DEF R, Same, IsFold, TakesAny
<1> QED BY <1>1, <1>3, <1>9 DEF R

LEMMA SumAdds ==
    ASSUME NEW D, NEW w \in [D -> Int], NEW S \in SUBSET D, IsFiniteSet(S), NEW y \in D \ S
    PROVE  SumFunctionOnSet(w, S \cup {y}) = SumFunctionOnSet(w, S) + w[y] /\ SumFunctionOnSet(w, S) \in Int
<1>1. IsFiniteSet(S \cup {y}) /\ S \cup {y} \in SUBSET D /\ (S \cup {y}) \ {y} = S /\ y \in S \cup {y}
  BY FS_AddElement
<1>2. PICK T : T = S \cup {y}
  OBVIOUS
<1>3. /\ SumFunctionOnSet(w, T) \in Int /\ SumFunctionOnSet(w, T \ {y}) \in Int
      /\ SumFunctionOnSet(w, T) = w[y] + SumFunctionOnSet(w, T \ {y})
  BY <1>1, <1>2, SumTakes
<1>4. w[y] \in Int
  OBVIOUS
<1>5. SumFunctionOnSet(w, T \ {y}) = SumFunctionOnSet(w, S)
  BY <1>1, <1>2
<1> QED BY <1>2, <1>3, <1>4, <1>5

\* S is a finite set of what has a weight.
Weighs(w, S) == IsFiniteSet(S) /\ \E D : w \in [D -> Int] /\ S \in SUBSET D

LEMMA SumMore ==
    ASSUME NEW w, NEW S, NEW y, y \notin S, Weighs(w, S \cup {y})
    PROVE  /\ SumFunctionOnSet(w, S \cup {y}) = SumFunctionOnSet(w, S) + w[y]
           /\ SumFunctionOnSet(w, S) \in Int /\ w[y] \in Int
<1>1. PICK D : w \in [D -> Int] /\ S \cup {y} \in SUBSET D
  BY DEF Weighs
<1>2. IsFiniteSet(S)
  <2>1. IsFiniteSet(S \cup {y}) /\ S \in SUBSET (S \cup {y})
    BY DEF Weighs
  <2> QED BY <2>1, FS_Subset
<1>3. S \in SUBSET D /\ y \in D \ S
  BY <1>1
<1>4. w[y] \in Int
  BY <1>1, <1>3
<1> QED BY <1>1, <1>2, <1>3, <1>4, SumAdds

-----------------------------------------------------------------------------
(* Sums of weights that are not negative.                                   *)

LEMMA SumIsInt ==
    ASSUME NEW w, w \in [DOMAIN w -> Int], NEW S \in SUBSET DOMAIN w, IsFiniteSet(S)
    PROVE  SumFunctionOnSet(w, S) \in Int
<1>1. CASE S = {}
  <2>1. SumFunctionOnSet(w, {}) = 0
    BY SumOfNone
  <2> QED BY <1>1, <2>1
<1>2. CASE S # {}
  <2>1. PICK y \in S : TRUE
    BY <1>2
  <2> QED BY <2>1, SumTakes
<1> QED BY <1>1, <1>2

LEMMA SumLess ==
    ASSUME NEW w, w \in [DOMAIN w -> Nat], NEW S \in SUBSET DOMAIN w, IsFiniteSet(S),
           NEW T \in SUBSET S
    PROVE  /\ SumFunctionOnSet(w, T) \in Int /\ SumFunctionOnSet(w, S) \in Int
           /\ SumFunctionOnSet(w, T) <= SumFunctionOnSet(w, S)
<1> DEFINE R == S \ T
           G == {U \in SUBSET R : SumFunctionOnSet(w, T) <= SumFunctionOnSet(w, T \cup U)}
<1>1. w \in [DOMAIN w -> Int]
  OBVIOUS
<1>2. ASSUME NEW U \in SUBSET S
      PROVE  IsFiniteSet(U) /\ U \in SUBSET DOMAIN w /\ SumFunctionOnSet(w, U) \in Int
  <2>1. IsFiniteSet(U) /\ U \in SUBSET DOMAIN w
    BY FS_Subset
  <2> QED BY <1>1, <2>1, SumIsInt
<1>3. {} \in G
  <2>1. T \cup {} = T /\ SumFunctionOnSet(w, T) \in Int
    BY <1>2
  <2> QED BY <2>1
<1>4. ASSUME NEW U \in G, NEW x \in R \ U PROVE U \cup {x} \in G
  <2>1. PICK V : V = T \cup U
    OBVIOUS
  <2>2. V \in SUBSET S /\ x \in DOMAIN w \ V /\ V \cup {x} = T \cup (U \cup {x})
    BY <2>1
  <2>3. SumFunctionOnSet(w, V \cup {x}) = SumFunctionOnSet(w, V) + w[x]
    BY <1>1, <1>2, <2>2, SumAdds
  <2>4. w[x] \in Nat /\ SumFunctionOnSet(w, V) \in Int /\ SumFunctionOnSet(w, T) \in Int
    BY <1>2, <2>2
  <2>5. SumFunctionOnSet(w, T) <= SumFunctionOnSet(w, V)
    BY <2>1
  <2>6. SumFunctionOnSet(w, T) <= SumFunctionOnSet(w, V \cup {x})
    BY <2>3, <2>4, <2>5
  <2>7. U \cup {x} \in SUBSET R
    OBVIOUS
  <2> QED BY <2>2, <2>6, <2>7
<1>5. R \in G
  <2>1. IsFiniteSet(R) /\ G \in SUBSET SUBSET R
    BY <1>2
  <2> HIDE DEF R, G
  <2> QED BY <1>3, <1>4, <2>1, SetInduction
<1>6. T \cup R = S
  OBVIOUS
<1> QED BY <1>2, <1>5, <1>6

-----------------------------------------------------------------------------
(* The weeks of the items.                                                  *)

StepsOf(which, loads, weekly, last) ==
    [i \in 1..Len(loads) |-> [f \in Filling |->
        IF i \in which THEN Put(f, loads[i][1], loads[i][2], weekly, last) ELSE Skip(f)]]

IsLoads(loads) ==
    /\ Len(loads) \in Nat
    /\ \A i \in 1..Len(loads) : loads[i][1] \in Nat /\ loads[i][2] \in Nat

LEMMA FillingOf ==
    ASSUME NEW f \in Filling
    PROVE  /\ f = [used |-> f.used, week |-> f.week, weeks |-> f.weeks]
           /\ f.used \in Nat /\ f.week \in Nat /\ f.weeks \in Seq(Nat)
BY DEF Filling

LEMMA StepsType ==
    ASSUME NEW which, NEW loads, IsLoads(loads), NEW weekly \in Nat, NEW last \in Nat
    PROVE  StepsOf(which, loads, weekly, last) \in [1..Len(loads) -> [Filling -> Filling]]
<1>1. ASSUME NEW i \in 1..Len(loads), NEW f \in Filling
      PROVE  Put(f, loads[i][1], loads[i][2], weekly, last) \in Filling
  <2>1. f.used \in Nat /\ f.week \in Nat /\ f.weeks \in Seq(Nat)
    BY FillingOf
  <2>2. f.used + loads[i][2] \in Nat /\ loads[i][2] \in Nat /\ f.week + 1 \in Nat
    BY <2>1 DEF IsLoads
  <2>3. Append(f.weeks, f.week) \in Seq(Nat) /\ Append(f.weeks, f.week + 1) \in Seq(Nat)
    BY <2>1, <2>2, AppendProperties
  <2> QED BY <2>1, <2>2, <2>3 DEF Put, Filling
<1>2. ASSUME NEW f \in Filling PROVE Skip(f) \in Filling
  <2>1. f.week \in Nat /\ f.weeks \in Seq(Nat)
    BY FillingOf
  <2>2. Append(f.weeks, f.week) \in Seq(Nat)
    BY <2>1, AppendProperties
  <2> QED BY <2>2 DEF Skip, Filling
<1> QED BY <1>1, <1>2 DEF StepsOf

\* Each item leads from what is good before it to what is good after it.
Kept(good, which, loads, weekly, last) ==
    \A i \in 1..Len(loads) : \A f \in good[i - 1] :
       (IF i \in which THEN Put(f, loads[i][1], loads[i][2], weekly, last) ELSE Skip(f)) \in good[i]

\* What putting or skipping the items one after the other leads to.
LEMMA PlacedKeeps ==
    ASSUME NEW which, NEW loads, IsLoads(loads), NEW weekly \in Nat, NEW first \in Nat,
           NEW last \in Nat, NEW good \in [0..Len(loads) -> SUBSET Filling],
           [used |-> 0, week |-> first, weeks |-> <<>>] \in good[0],
           Kept(good, which, loads, weekly, last)
    PROVE  \E f \in good[Len(loads)] : Placed(which, loads, weekly, first, last) = f.weeks
<1> DEFINE N == Len(loads)
           step == StepsOf(which, loads, weekly, last)
           none == [used |-> 0, week |-> first, weeks |-> <<>>]
           whole == [from |-> 1, to |-> N, on |-> none]
           Parts == [from : 1..(Len(loads) + 1), to : 0..Len(loads), on : Filling]
           Body(run, p) ==
              IF p.from > p.to THEN p.on
              ELSE IF p.from = p.to
              THEN IF p.from \in which
                   THEN Put(p.on, loads[p.from][1], loads[p.from][2], weekly, last)
                   ELSE Skip(p.on)
              ELSE run[[from |-> (p.from + p.to) \div 2 + 1, to |-> p.to,
                        on |-> run[[from |-> p.from, to |-> (p.from + p.to) \div 2,
                                    on |-> p.on]]]]
           It == CHOOSE run : run = [p \in Parts |-> Body(run, p)]
<1>1. Placed(which, loads, weekly, first, last) = It[whole].weeks
  BY DEF Placed
<1>2. N \in Nat /\ step \in [1..N -> [Filling -> Filling]] /\ Parts = PartsOf(N, Filling)
  BY StepsType DEF IsLoads, PartsOf
<1>3. ASSUME NEW p \in Parts, p.from = p.to
      PROVE  step[p.from][p.on] =
                IF p.from \in which
                THEN Put(p.on, loads[p.from][1], loads[p.from][2], weekly, last) ELSE Skip(p.on)
  <2>1. p.from \in 1..N /\ p.on \in Filling
    BY <1>2, <1>3 DEF PartsOf
  <2> QED BY <2>1 DEF StepsOf
<1> HIDE DEF It
<1>4. ASSUME NEW run, NEW p \in Parts PROVE Halved(run, step, p) = Body(run, p)
  <2>1. CASE p.from = p.to
    <3>1. ~(p.from > p.to)
      BY <2>1 DEF PartsOf
    <3> QED BY <1>3, <2>1, <3>1 DEF Halved
  <2>2. CASE p.from # p.to
    <3> HIDE DEF step, Parts
    <3> QED BY <2>2 DEF Halved, Latter, Former, Middle
  <2> QED BY <2>1, <2>2
<1> HIDE DEF step, Parts, Body
<1>5. PICK run : run = [p \in Parts |-> Body(run, p)]
  <2>1. PICK run \in [Parts -> Filling] : \A p \in Parts : run[p] = Halved(run, step, p)
    BY <1>2, HalvesDefined
  <2>2. \A p \in Parts : run[p] = Body(run, p)
    BY <1>4, <2>1
  <2>3. run = [p \in Parts |-> Body(run, p)]
    BY <2>1, <2>2
  <2> QED BY <2>3
<1>6. It = [p \in Parts |-> Halved(It, step, p)]
  <2>1. It = [p \in Parts |-> Body(It, p)]
    BY <1>5 DEF It
  <2> QED BY <1>4, <2>1
<1>7. It \in [PartsOf(N, Filling) -> Filling]
  BY <1>2, <1>6, HalvesTyped
<1>8. \A p \in PartsOf(N, Filling) : It[p] = Halved(It, step, p)
  BY <1>2, <1>6
<1>9. \A i \in 1..N : \A f \in good[i - 1] : step[i][f] \in good[i]
  <2> SUFFICES ASSUME NEW i \in 1..N, NEW f \in good[i - 1] PROVE step[i][f] \in good[i]
    OBVIOUS
  <2>1. f \in Filling
    <3>1. i - 1 \in 0..N
      BY <1>2
    <3> QED BY <3>1
  <2> QED BY <2>1 DEF step, StepsOf, Kept
<1>10. /\ whole \in PartsOf(N, Filling) /\ whole.from = 1 /\ whole.to = N /\ whole.on = none
       /\ none \in Filling
  <2>1. none \in Filling
    BY DEF Filling
  <2> HIDE DEF none
  <2> QED BY <1>2, <2>1 DEF PartsOf
<1>11. It[whole] \in good[N]
  <2>1. whole.from <= whole.to + 1 /\ whole.on \in good[whole.from - 1]
    BY <1>2, <1>10
  <2>2. \A p \in PartsOf(N, Filling) :
           p.from <= p.to + 1 /\ p.on \in good[p.from - 1] => It[p] \in good[p.to]
    <3> HIDE DEF step
    <3> QED BY <1>2, <1>7, <1>8, <1>9, HalvesKeep
  <2> HIDE DEF whole
  <2> QED BY <1>10, <2>1, <2>2
<1> QED BY <1>1, <1>11

\* Of the items `which', those in week k.
AtWeek(weeks, which, k) == {j \in which : j \in 1..Len(weeks) /\ weeks[j] = k}

Adds(loads) == [i \in 1..Len(loads) |-> loads[i][2]]

\* The items S of a week are none or one, or leave room for the last but for what it adds
\* besides.
Fits(S, loads, weekly) ==
    \/ S = {}
    \/ \E m \in S : /\ \A j \in S : j <= m
                    /\ \/ S = {m}
                       \/ SumFunctionOnSet(Adds(loads), S) - loads[m][2] + loads[m][1] <= weekly

\* After the first n items.
PutWell(n, which, loads, weekly, first, last) ==
    {f \in Filling :
        /\ Len(f.weeks) = n
        /\ first <= f.week /\ f.week <= last
        /\ \A j \in 1..n : first <= f.weeks[j] /\ f.weeks[j] <= f.week
        /\ f.used = SumFunctionOnSet(Adds(loads), AtWeek(f.weeks, which, f.week))
        /\ \A k \in first..last : k < last => Fits(AtWeek(f.weeks, which, k), loads, weekly)}

LEMMA AtWeekAppend ==
    ASSUME NEW weeks \in Seq(Nat), NEW w \in Nat, NEW which, NEW k
    PROVE  AtWeek(Append(weeks, w), which, k) =
              AtWeek(weeks, which, k) \cup
              (IF k = w /\ Len(weeks) + 1 \in which THEN {Len(weeks) + 1} ELSE {})
<1>1. PICK more : more = Append(weeks, w)
  OBVIOUS
<1>2. /\ Len(weeks) \in Nat /\ Len(more) = Len(weeks) + 1 /\ more[Len(weeks) + 1] = w
      /\ \A j \in 1..Len(weeks) : more[j] = weeks[j]
  BY <1>1, AppendProperties
<1>3. ASSUME NEW j PROVE j \in 1..Len(more) <=> j \in 1..Len(weeks) \/ j = Len(weeks) + 1
  BY <1>2
<1>4. Len(weeks) + 1 \notin 1..Len(weeks)
  BY <1>2
<1>5. ASSUME NEW j \in AtWeek(more, which, k)
      PROVE  j \in AtWeek(weeks, which, k) \/ (k = w /\ Len(weeks) + 1 \in which /\ j = Len(weeks) + 1)
  BY <1>2, <1>3 DEF AtWeek
<1>6. ASSUME NEW j \in AtWeek(weeks, which, k) PROVE j \in AtWeek(more, which, k)
  BY <1>2, <1>3 DEF AtWeek
<1>7. ASSUME k = w, Len(weeks) + 1 \in which PROVE Len(weeks) + 1 \in AtWeek(more, which, k)
  BY <1>2, <1>3, <1>7 DEF AtWeek
<1> QED BY <1>1, <1>5, <1>6, <1>7

LEMMA AtWeekType ==
    ASSUME NEW weeks \in Seq(Nat), NEW which, NEW k
    PROVE  /\ AtWeek(weeks, which, k) \in SUBSET (1..Len(weeks))
           /\ IsFiniteSet(AtWeek(weeks, which, k))
<1>1. IsFiniteSet(1..Len(weeks))
  BY FS_Interval, LenProperties
<1>2. AtWeek(weeks, which, k) \in SUBSET (1..Len(weeks))
  BY DEF AtWeek
<1> QED BY <1>1, <1>2, FS_Subset

\* Another item is put well.
LEMMA PutKeeps ==
    ASSUME NEW which, NEW loads, IsLoads(loads), NEW weekly \in Nat, NEW first \in Nat,
           NEW last \in Nat, first <= last, NEW i \in 1..Len(loads), i \in which,
           NEW f \in PutWell(i - 1, which, loads, weekly, first, last)
    PROVE  Put(f, loads[i][1], loads[i][2], weekly, last)
              \in PutWell(i, which, loads, weekly, first, last)
<1> DEFINE g == Put(f, loads[i][1], loads[i][2], weekly, last)
           D == 1..Len(loads)
           w == Adds(loads)
           Old(k) == AtWeek(f.weeks, which, k)
           New(k) == AtWeek(g.weeks, which, k)
<1>1. /\ f \in Filling /\ f.used \in Nat /\ f.week \in Nat /\ f.weeks \in Seq(Nat)
      /\ Len(f.weeks) = i - 1
      /\ first <= f.week /\ f.week <= last
      /\ \A j \in 1..(i - 1) : first <= f.weeks[j] /\ f.weeks[j] <= f.week
      /\ f.used = SumFunctionOnSet(w, Old(f.week))
      /\ \A k \in first..last : k < last => Fits(Old(k), loads, weekly)
  BY FillingOf DEF PutWell
<1>2. /\ loads[i][1] \in Nat /\ loads[i][2] \in Nat /\ w \in [D -> Int] /\ w[i] = loads[i][2]
      /\ Len(loads) \in Nat /\ i \in D
  BY DEF IsLoads, Adds
<1>3. g \in Filling
  <2>2. f.used + loads[i][2] \in Nat /\ f.week + 1 \in Nat
    BY <1>1, <1>2
  <2>3. Append(f.weeks, f.week) \in Seq(Nat) /\ Append(f.weeks, f.week + 1) \in Seq(Nat)
    BY <1>1, <2>2, AppendProperties
  <2> QED BY <1>1, <1>2, <2>2, <2>3 DEF Put, Filling
<1>4. ASSUME NEW k \in Nat
      PROVE  Old(k) \in SUBSET (1..(i - 1)) /\ IsFiniteSet(Old(k)) /\ Old(k) \in SUBSET D /\ i \notin Old(k)
  <2>1. Old(k) \in SUBSET (1..(i - 1)) /\ IsFiniteSet(Old(k))
    BY <1>1, AtWeekType
  <2>2. (1..(i - 1)) \in SUBSET D /\ i \notin 1..(i - 1)
    BY <1>2
  <2> QED BY <2>1, <2>2
<1>5. CASE Full(f.used, loads[i][1], weekly) /\ f.week < last
  <2>1. g = [used |-> loads[i][2], week |-> f.week + 1, weeks |-> Append(f.weeks, f.week + 1)]
    BY <1>5 DEF Put
  <2>2. g.used = loads[i][2] /\ g.week = f.week + 1 /\ g.weeks = Append(f.weeks, f.week + 1)
    BY <2>1
  <2> HIDE DEF g
  <2>3. ASSUME NEW k \in Nat PROVE New(k) = Old(k) \cup (IF k = f.week + 1 THEN {i} ELSE {})
    <3>1. f.week + 1 \in Nat /\ Len(f.weeks) + 1 = i
      BY <1>1, <1>2
    <3>2. PICK v \in Nat : v = f.week + 1
      BY <3>1
    <3>3. AtWeek(Append(f.weeks, v), which, k) =
             Old(k) \cup (IF k = v /\ Len(f.weeks) + 1 \in which THEN {Len(f.weeks) + 1} ELSE {})
      <4>1. f.weeks \in Seq(Nat)
        BY <1>1
      <4> HIDE DEF D, w
      <4> QED BY <4>1, AtWeekAppend
    <3> QED BY <2>2, <3>1, <3>2, <3>3
  <2>4. Old(f.week + 1) = {}
    <3>1. ASSUME NEW j \in Old(f.week + 1) PROVE FALSE
      <4>1. j \in 1..(i - 1) /\ f.weeks[j] = f.week + 1
        BY <1>1, <1>2 DEF AtWeek
      <4>2. f.weeks[j] <= f.week
        BY <1>1, <4>1
      <4> QED BY <1>1, <4>1, <4>2
    <3> QED BY <3>1
  <2>5. New(f.week + 1) = {i}
    BY <1>1, <2>3, <2>4
  <2>6. SumFunctionOnSet(w, {i}) = loads[i][2]
    <3>1. SumFunctionOnSet(w, {}) = 0
      BY <1>2, SumOfNone
    <3>2. IsFiniteSet({}) /\ {} \in SUBSET D /\ i \in D \ {} /\ {} \cup {i} = {i}
      BY <1>2, FS_EmptySet
    <3>3. SumFunctionOnSet(w, {} \cup {i}) = SumFunctionOnSet(w, {}) + w[i]
      <4>1. Weighs(w, {} \cup {i})
        <5>1. IsFiniteSet({i}) /\ {i} \in SUBSET D
          BY <1>2, FS_Singleton
        <5> QED BY <1>2, <3>2, <5>1 DEF Weighs
      <4> HIDE DEF w
      <4> QED BY <4>1, SumMore
    <3> HIDE DEF w, D
    <3> QED BY <1>2, <3>1, <3>2, <3>3
  <2>7. ASSUME NEW k \in first..last, k < last PROVE Fits(New(k), loads, weekly)
    <3>1. CASE k = f.week + 1
      <4>1. New(k) = {i}
        BY <2>5, <3>1
      <4>2. \A j \in {i} : j <= i
        BY <1>2
      <4> QED BY <4>1, <4>2 DEF Fits
    <3>2. CASE k # f.week + 1
      <4>1. New(k) = Old(k)
        <5>1. k \in Nat
          OBVIOUS
        <5> HIDE DEF New, Old
        <5> QED BY <2>3, <3>2, <5>1
      <4> QED BY <1>1, <2>7, <4>1
    <3> QED BY <3>1, <3>2
  <2>8. Len(g.weeks) = i /\ \A j \in 1..i : first <= g.weeks[j] /\ g.weeks[j] <= g.week
    <3>1. f.week + 1 \in Nat
      BY <1>1
    <3>2. /\ Len(g.weeks) = i /\ g.weeks[i] = f.week + 1
          /\ \A j \in 1..(i - 1) : g.weeks[j] = f.weeks[j]
      BY <1>1, <1>2, <2>2, <3>1, AppendProperties
    <3>3. ASSUME NEW j \in 1..i PROVE first <= g.weeks[j] /\ g.weeks[j] <= g.week
      <4>1. CASE j = i
        BY <1>1, <2>2, <3>2, <4>1
      <4>2. CASE j # i
        <5>1. j \in 1..(i - 1)
          BY <1>2, <4>2
        <5>2. f.weeks[j] \in Nat
          BY <1>1, <5>1, ElementOfSeq
        <5> QED BY <1>1, <2>2, <3>2, <5>1, <5>2
      <4> QED BY <4>1, <4>2
    <3> QED BY <3>2, <3>3
  <2>9. first <= g.week /\ g.week <= last
    BY <1>1, <1>5, <2>2
  <2>10. g.used = SumFunctionOnSet(w, New(g.week))
    BY <2>2, <2>5, <2>6
  <2> QED BY <1>3, <2>7, <2>8, <2>9, <2>10 DEF PutWell, g
<1>6. CASE ~(Full(f.used, loads[i][1], weekly) /\ f.week < last)
  <2>1. g = [used |-> f.used + loads[i][2], week |-> f.week, weeks |-> Append(f.weeks, f.week)]
    BY <1>6 DEF Put
  <2>2. g.used = f.used + loads[i][2] /\ g.week = f.week /\ g.weeks = Append(f.weeks, f.week)
    BY <2>1
  <2> HIDE DEF g
  <2>3. ASSUME NEW k \in Nat PROVE New(k) = Old(k) \cup (IF k = f.week THEN {i} ELSE {})
    <3>1. Len(f.weeks) + 1 = i
      BY <1>1, <1>2
    <3> QED BY <1>1, <2>2, <3>1, AtWeekAppend
  <2>4. New(f.week) = Old(f.week) \cup {i}
    BY <1>1, <2>3
  <2>5. /\ SumFunctionOnSet(w, New(f.week)) = f.used + loads[i][2]
    <3>1. i \in D \ Old(f.week) /\ Old(f.week) \in SUBSET D /\ IsFiniteSet(Old(f.week))
      BY <1>1, <1>2, <1>4
    <3>2. SumFunctionOnSet(w, Old(f.week) \cup {i}) = SumFunctionOnSet(w, Old(f.week)) + w[i]
      <4>1. w \in [D -> Int]
        BY <1>2
      <4>2. PICK S : S = Old(f.week)
        OBVIOUS
      <4> HIDE DEF w, D, Old
      <4>3. i \notin S /\ S \cup {i} \in SUBSET D /\ IsFiniteSet(S \cup {i})
        BY <3>1, <4>2, FS_AddElement
      <4>4. Weighs(w, S \cup {i})
        BY <4>1, <4>3 DEF Weighs
      <4>5. SumFunctionOnSet(w, S \cup {i}) = SumFunctionOnSet(w, S) + w[i]
        BY <4>3, <4>4, SumMore
      <4> QED BY <4>2, <4>5
    <3> QED BY <1>1, <1>2, <2>4, <3>2
  <2>6. ASSUME NEW k \in first..last, k < last PROVE Fits(New(k), loads, weekly)
    <3>1. CASE k = f.week
      <4>1. f.used + loads[i][1] <= weekly
        BY <1>1, <1>2, <1>6, <2>6, <3>1 DEF Full
      <4>2. \A j \in New(k) : j <= i
        BY <1>1, <1>2, <1>4, <2>4, <3>1
      <4>3. SumFunctionOnSet(w, New(k)) - loads[i][2] + loads[i][1] <= weekly
        BY <1>1, <1>2, <2>5, <3>1, <4>1
      <4>4. i \in New(k)
        BY <2>4, <3>1
      <4> QED BY <4>2, <4>3, <4>4 DEF Fits
    <3>2. CASE k # f.week
      <4>1. New(k) = Old(k)
        <5>1. k \in Nat
          OBVIOUS
        <5> HIDE DEF New, Old
        <5> QED BY <2>3, <3>2, <5>1
      <4> QED BY <1>1, <2>6, <4>1
    <3> QED BY <3>1, <3>2
  <2>7. Len(g.weeks) = i /\ \A j \in 1..i : first <= g.weeks[j] /\ g.weeks[j] <= g.week
    <3>1. /\ Len(g.weeks) = i /\ g.weeks[i] = f.week
          /\ \A j \in 1..(i - 1) : g.weeks[j] = f.weeks[j]
      BY <1>1, <1>2, <2>2, AppendProperties
    <3>2. ASSUME NEW j \in 1..i PROVE first <= g.weeks[j] /\ g.weeks[j] <= g.week
      <4>1. CASE j = i
        BY <1>1, <2>2, <3>1, <4>1
      <4>2. CASE j # i
        <5>1. j \in 1..(i - 1)
          BY <1>2, <4>2
        <5> QED BY <1>1, <2>2, <3>1, <5>1
      <4> QED BY <4>1, <4>2
    <3> QED BY <3>1, <3>2
  <2>8. first <= g.week /\ g.week <= last
    BY <1>1, <2>2
  <2>9. g.used = SumFunctionOnSet(w, New(g.week))
    BY <2>2, <2>5
  <2> QED BY <1>3, <2>6, <2>7, <2>8, <2>9 DEF PutWell, g
<1> QED BY <1>5, <1>6

LEMMA SkipKeeps ==
    ASSUME NEW which, NEW loads, IsLoads(loads), NEW weekly \in Nat, NEW first \in Nat,
           NEW last \in Nat, first <= last, NEW i \in 1..Len(loads), i \notin which,
           NEW f \in PutWell(i - 1, which, loads, weekly, first, last)
    PROVE  Skip(f) \in PutWell(i, which, loads, weekly, first, last)
<1> DEFINE g == Skip(f)
<1>1. /\ f \in Filling /\ f.used \in Nat /\ f.week \in Nat /\ f.weeks \in Seq(Nat)
      /\ Len(f.weeks) = i - 1
      /\ first <= f.week /\ f.week <= last
      /\ \A j \in 1..(i - 1) : first <= f.weeks[j] /\ f.weeks[j] <= f.week
      /\ f.used = SumFunctionOnSet(Adds(loads), AtWeek(f.weeks, which, f.week))
      /\ \A k \in first..last : k < last => Fits(AtWeek(f.weeks, which, k), loads, weekly)
      /\ f = [used |-> f.used, week |-> f.week, weeks |-> f.weeks]
  BY FillingOf DEF PutWell
<1>2. g.used = f.used /\ g.week = f.week /\ g.weeks = Append(f.weeks, f.week) /\ g \in Filling
  <2>1. g = [used |-> f.used, week |-> f.week, weeks |-> Append(f.weeks, f.week)]
    <3>1. g = [f EXCEPT !.weeks = Append(f.weeks, f.week)]
      BY DEF Skip
    <3>2. f = [used |-> f.used, week |-> f.week, weeks |-> f.weeks]
      BY <1>1
    <3> HIDE DEF g
    <3> QED BY <3>1, <3>2
  <2>2. Append(f.weeks, f.week) \in Seq(Nat)
    BY <1>1, AppendProperties
  <2> HIDE DEF g
  <2> QED BY <1>1, <2>1, <2>2 DEF Filling
<1> HIDE DEF g
<1>3. ASSUME NEW k PROVE AtWeek(g.weeks, which, k) = AtWeek(f.weeks, which, k)
  <2>1. f.weeks \in Seq(Nat) /\ f.week \in Nat /\ Len(f.weeks) + 1 = i
    BY <1>1
  <2>2. AtWeek(Append(f.weeks, f.week), which, k) =
           AtWeek(f.weeks, which, k) \cup
           (IF k = f.week /\ Len(f.weeks) + 1 \in which THEN {Len(f.weeks) + 1} ELSE {})
    BY <2>1, AtWeekAppend
  <2> QED BY <1>2, <2>1, <2>2
<1>4. Len(g.weeks) = i /\ \A j \in 1..i : first <= g.weeks[j] /\ g.weeks[j] <= g.week
  <2>1. /\ Len(g.weeks) = i /\ g.weeks[i] = f.week
        /\ \A j \in 1..(i - 1) : g.weeks[j] = f.weeks[j]
    BY <1>1, <1>2, AppendProperties
  <2>2. ASSUME NEW j \in 1..i PROVE first <= g.weeks[j] /\ g.weeks[j] <= g.week
    <3>1. CASE j = i
      BY <1>1, <1>2, <2>1, <3>1
    <3>2. CASE j # i
      <4>1. j \in 1..(i - 1)
        BY <3>2
      <4> QED BY <1>1, <1>2, <2>1, <4>1
    <3> QED BY <3>1, <3>2
  <2> QED BY <2>1, <2>2
<1>5. g \in PutWell(i, which, loads, weekly, first, last)
  BY <1>1, <1>2, <1>3, <1>4 DEF PutWell
<1> QED BY <1>5 DEF g

\* Every item has a week from the first to the last, and before the last the items of a week fit.
WellPlaced(weeks, which, loads, weekly, first, last) ==
    /\ weeks \in Seq(Nat) /\ Len(weeks) = Len(loads)
    /\ \A i \in 1..Len(loads) : weeks[i] \in first..last
    /\ \A k \in first..last : k < last => Fits(AtWeek(weeks, which, k), loads, weekly)

LEMMA PlacedWell ==
    ASSUME NEW which, NEW loads, IsLoads(loads), NEW weekly \in Nat, NEW first \in Nat,
           NEW last \in Nat, first <= last
    PROVE  WellPlaced(Placed(which, loads, weekly, first, last), which, loads, weekly, first, last)
<1> DEFINE N == Len(loads)
           good == [n \in 0..N |-> PutWell(n, which, loads, weekly, first, last)]
           none == [used |-> 0, week |-> first, weeks |-> <<>>]
<1>1. good \in [0..N -> SUBSET Filling] /\ N \in Nat
  BY DEF PutWell, IsLoads
<1>2. none \in good[0]
  <2>1. none \in Filling
    BY DEF Filling
  <2>2. none.used = 0 /\ none.week = first /\ none.weeks = <<>>
    OBVIOUS
  <2> HIDE DEF none
  <2>3. ASSUME NEW k PROVE AtWeek(none.weeks, which, k) = {}
    BY <2>2 DEF AtWeek
  <2>4. SumFunctionOnSet(Adds(loads), {}) = 0
    <3>1. Adds(loads) \in [1..N -> Int]
      BY DEF IsLoads, Adds
    <3> QED BY <3>1, SumOfNone
  <2>5. ASSUME NEW k PROVE Fits(AtWeek(none.weeks, which, k), loads, weekly)
    BY <2>3 DEF Fits
  <2>6. Len(none.weeks) = 0 /\ 1..0 = {}
    BY <2>2
  <2>7. none.used = SumFunctionOnSet(Adds(loads), AtWeek(none.weeks, which, none.week))
    BY <2>2, <2>3, <2>4
  <2>8. none \in PutWell(0, which, loads, weekly, first, last)
    BY <2>1, <2>2, <2>5, <2>6, <2>7 DEF PutWell
  <2> QED BY <1>1, <2>8
<1>3. ASSUME NEW i \in 1..N, NEW f \in good[i - 1]
      PROVE  (IF i \in which THEN Put(f, loads[i][1], loads[i][2], weekly, last) ELSE Skip(f))
                \in good[i]
  <2>1. i - 1 \in 0..N /\ i \in 0..N
    BY <1>1
  <2>2. f \in PutWell(i - 1, which, loads, weekly, first, last)
    BY <2>1
  <2>3. CASE i \in which
    <3>1. Put(f, loads[i][1], loads[i][2], weekly, last)
             \in PutWell(i, which, loads, weekly, first, last)
      BY <2>2, <2>3, PutKeeps
    <3> QED BY <2>1, <2>3, <3>1
  <2>4. CASE i \notin which
    <3>1. Skip(f) \in PutWell(i, which, loads, weekly, first, last)
      BY <2>2, <2>4, SkipKeeps
    <3> QED BY <2>1, <2>4, <3>1
  <2> QED BY <2>3, <2>4
<1>4. PICK f \in good[N] : Placed(which, loads, weekly, first, last) = f.weeks
  <2>1. Kept(good, which, loads, weekly, last)
    <3> HIDE DEF good
    <3> QED BY <1>3 DEF Kept
  <2> HIDE DEF good
  <2> QED BY <1>1, <1>2, <2>1, PlacedKeeps
<1>5. f \in PutWell(N, which, loads, weekly, first, last) /\ f \in Filling
  <2>1. f \in PutWell(N, which, loads, weekly, first, last)
    BY <1>1
  <2> QED BY <2>1 DEF PutWell
<1>6. f.week \in Nat /\ f.weeks \in Seq(Nat)
  BY <1>5, FillingOf
<1>7. /\ Len(f.weeks) = N /\ first <= f.week /\ f.week <= last
      /\ \A j \in 1..N : first <= f.weeks[j] /\ f.weeks[j] <= f.week
      /\ \A k \in first..last : k < last => Fits(AtWeek(f.weeks, which, k), loads, weekly)
  BY <1>5 DEF PutWell
<1>8. ASSUME NEW i \in 1..N PROVE f.weeks[i] \in first..last
  <2>1. f.weeks[i] \in Nat
    BY <1>6, <1>7, ElementOfSeq
  <2> QED BY <1>6, <1>7, <2>1
<1> QED BY <1>4, <1>6, <1>7, <1>8 DEF WellPlaced

-----------------------------------------------------------------------------
(* Weeks and days.                                                          *)

LEMMA MaxOfTwo ==
    ASSUME NEW a \in Int, NEW b \in Int
    PROVE  Max({a, b}) \in {a, b} /\ Max({a, b}) >= a /\ Max({a, b}) >= b
<1>1. \E x \in {a, b} : \A y \in {a, b} : x >= y
  BY SMT
<1>2. Max({a, b}) \in {a, b} /\ \A y \in {a, b} : Max({a, b}) >= y
  BY <1>1 DEF Max
<1> QED BY <1>2

LEMMA MinOfTwo ==
    ASSUME NEW a \in Int, NEW b \in Int
    PROVE  Min({a, b}) \in {a, b} /\ Min({a, b}) <= a /\ Min({a, b}) <= b
<1>1. \E x \in {a, b} : \A y \in {a, b} : x <= y
  BY SMT
<1>2. Min({a, b}) \in {a, b} /\ \A y \in {a, b} : Min({a, b}) <= y
  BY <1>1 DEF Min
<1> QED BY <1>2

LEMMA WeeksRound ==
    ASSUME NEW days \in Int
    PROVE  Weeks(days) \in Int /\ (Weeks(days) - 1) * 7 < days /\ days <= Weeks(days) * 7
BY DEF Weeks

LEMMA WeeksOfHalvesRound ==
    ASSUME NEW halves \in Int
    PROVE  /\ WeeksOfHalves(halves) \in Int
           /\ (WeeksOfHalves(halves) - 1) * 14 < halves /\ halves <= WeeksOfHalves(halves) * 14
BY DEF WeeksOfHalves

\* A new plan has from 4 to 60 weeks, and no more than there are if there are four.
LEMMA TotalWeeksInTime ==
    ASSUME NEW days \in Int
    PROVE  /\ TotalWeeks(days) \in 4..60
           /\ Weeks(days) >= 4 => (TotalWeeks(days) - 1) * 7 < days
<1>1. PICK weeks \in Int : weeks = Weeks(days) /\ (weeks - 1) * 7 < days
  BY WeeksRound
<1>2. PICK atMost : atMost = Min({60, weeks})
  OBVIOUS
<1>3. atMost \in {60, weeks} /\ atMost <= 60 /\ atMost <= weeks
  <2>1. 60 \in Int /\ weeks \in Int
    BY <1>1
  <2>2. Min({60, weeks}) \in {60, weeks} /\ Min({60, weeks}) <= 60 /\ Min({60, weeks}) <= weeks
    BY <2>1, MinOfTwo
  <2> QED BY <1>2, <2>2
<1>4. atMost \in Int
  BY <1>3
<1>5. PICK total : total = Max({4, atMost})
  OBVIOUS
<1>6. total \in {4, atMost} /\ total >= 4 /\ total >= atMost
  BY <1>4, <1>5, MaxOfTwo
<1>7. total \in 4..60 /\ (weeks >= 4 => total <= weeks)
  BY <1>3, <1>4, <1>6
<1>8. TotalWeeks(days) = total
  BY <1>1, <1>2, <1>5 DEF TotalWeeks
<1>9. weeks >= 4 => (total - 1) * 7 < days
  BY <1>1, <1>7
<1> QED BY <1>1, <1>7, <1>8, <1>9

\* Some weeks are left for reviews and for simulations.
LEMMA PhasesOfTotal ==
    ASSUME NEW total \in 4..60
    PROVE  /\ LearnWeeks(total) \in Nat \ {0} /\ ReviewWeeks(total) \in Nat \ {0}
           /\ LearnWeeks(total) + ReviewWeeks(total) < total
<1>1. PICK learn \in Int, review \in Int : learn = (total * 7) \div 10 /\ review = (total * 18) \div 100
  OBVIOUS
<1>2. learn * 10 <= total * 7 /\ review * 100 <= total * 18
  BY <1>1
<1>3. LearnWeeks(total) \in {2, learn} /\ LearnWeeks(total) >= 2
  BY <1>1, MaxOfTwo DEF LearnWeeks
<1>4. ReviewWeeks(total) \in {1, review} /\ ReviewWeeks(total) >= 1
  BY <1>1, MaxOfTwo DEF ReviewWeeks
<1> QED BY <1>2, <1>3, <1>4

\* A replan is for the weeks from the current one to that of the exam.
LEMMA ReplannedInTime ==
    ASSUME NEW goal, goal.examDay \in Int, NEW time \in Int
    PROVE  /\ CurrentWeek(time) \in Nat \ {0}
           /\ ReplannedTotal(goal, time) \in Nat
           /\ CurrentWeek(time) <= ReplannedTotal(goal, time)
           /\ time \in 0..(2 * goal.examDay) => (ReplannedTotal(goal, time) - 1) * 7 <= goal.examDay
<1>1. PICK passed \in Int : passed = WeeksOfHalves(time) /\ (passed - 1) * 14 < time
  BY WeeksOfHalvesRound
<1>2. PICK left \in Int :
        /\ left = WeeksOfHalves(2 * goal.examDay - time)
        /\ (left - 1) * 14 < 2 * goal.examDay - time
  <2>1. 2 * goal.examDay - time \in Int
    OBVIOUS
  <2> QED BY <2>1, WeeksOfHalvesRound
<1>3. PICK current : current = CurrentWeek(time)
  OBVIOUS
<1>4. current \in {1, passed} /\ current >= 1
  <2>1. Max({1, passed}) \in {1, passed} /\ Max({1, passed}) >= 1
    <3>1. 1 \in Int /\ passed \in Int
      BY <1>1
    <3> QED BY <3>1, MaxOfTwo
  <2>2. current = Max({1, passed})
    BY <1>1, <1>3 DEF CurrentWeek
  <2> QED BY <2>1, <2>2
<1>5. PICK remaining : remaining = RemainingWeeks(goal, time)
  OBVIOUS
<1>6. remaining \in {1, left} /\ remaining >= 1
  <2>1. Max({1, left}) \in {1, left} /\ Max({1, left}) >= 1
    BY MaxOfTwo
  <2>2. remaining = Max({1, left})
    BY <1>2, <1>5 DEF RemainingWeeks
  <2> QED BY <2>1, <2>2
<1>7. ReplannedTotal(goal, time) = current + remaining - 1
  BY <1>3, <1>5 DEF ReplannedTotal
<1>8. PICK total : total = current + remaining - 1
  OBVIOUS
<1>9. current \in Nat \ {0} /\ total \in Nat /\ current <= total
  BY <1>4, <1>6, <1>8
<1>10. ASSUME time \in 0..(2 * goal.examDay) PROVE (total - 1) * 7 <= goal.examDay
  BY <1>1, <1>2, <1>4, <1>6, <1>8, <1>10
<1> QED BY <1>3, <1>7, <1>8, <1>9, <1>10

-----------------------------------------------------------------------------
(* The items of a plan.                                                     *)

ItemRows(topics) ==
    [type : ItemTypes, topic : topics, week : Nat \ {0}, day : Nat, minutes : Nat \ {0},
     done : BOOLEAN]

LEMMA RowOf ==
    ASSUME NEW topics, NEW item \in ItemRows(topics)
    PROVE  /\ item = [type |-> item.type, topic |-> item.topic, week |-> item.week,
                      day |-> item.day, minutes |-> item.minutes, done |-> item.done]
           /\ item.type \in ItemTypes /\ item.topic \in topics /\ item.week \in Nat \ {0}
           /\ item.day \in Nat /\ item.minutes \in Nat \ {0} /\ item.done \in BOOLEAN
BY DEF ItemRows

LEMMA GoalOf ==
    ASSUME NEW goal \in GoalRows
    PROVE  /\ goal = [exam |-> goal.exam, track |-> goal.track, examDay |-> goal.examDay,
                      weekly |-> goal.weekly]
           /\ goal.exam \in Exams /\ goal.track \in Tracks /\ goal.examDay \in Int
           /\ goal.weekly \in Minutes /\ goal.weekly \in Nat \ {0}
<1>1. /\ goal = [exam |-> goal.exam, track |-> goal.track, examDay |-> goal.examDay,
                 weekly |-> goal.weekly]
      /\ goal.exam \in Exams /\ goal.track \in Tracks /\ goal.examDay \in Int
      /\ goal.weekly \in Minutes
  BY DEF GoalRows
<1>2. Minutes \in SUBSET (Nat \ {0})
  BY DEF Minutes
<1> QED BY <1>1, <1>2

LEMMA FirstDayType ==
    ASSUME NEW week \in Nat \ {0} PROVE FirstDay(week) \in Nat /\ FirstDay(week) = (week - 1) * 7
BY DEF FirstDay

LEMMA SeqOfFunction ==
    ASSUME NEW n \in Nat, NEW S, NEW f \in [1..n -> S] PROVE f \in Seq(S) /\ Len(f) = n
<1>1. f \in Seq(S)
  BY SeqDef
<1>2. Len(f) \in Nat /\ DOMAIN f = 1..Len(f) /\ DOMAIN f = 1..n
  BY <1>1, LenProperties
<1> QED BY <1>1, <1>2

MinutesOf(items) == [i \in DOMAIN items |-> items[i].minutes]
OpenIn(items, k) == {i \in DOMAIN items : ~items[i].done /\ items[i].week = k}

\* None, one, or no more than the minutes of the week.
FewOrFit(S, w, weekly) == S = {} \/ (\E m \in S : S = {m}) \/ SumFunctionOnSet(w, S) <= weekly

\* The same but for the weeks and days of what is open.
Rewritten(new, old) ==
    /\ Len(new) = Len(old)
    /\ \A i \in 1..Len(old) :
         /\ new[i].type = old[i].type /\ new[i].topic = old[i].topic
         /\ new[i].minutes = old[i].minutes /\ new[i].done = old[i].done
         /\ old[i].done => new[i] = old[i]

\* Within the weeks from the current one to the last.
InWeeks(new, goal, time) ==
    LET last == ReplannedTotal(goal, time) IN
    /\ \A i \in 1..Len(new) : ~new[i].done => /\ new[i].week \in CurrentWeek(time)..last
                                              /\ new[i].day = FirstDay(new[i].week)
    /\ \A k \in Nat : k < last => FewOrFit(OpenIn(new, k), MinutesOf(new), goal.weekly)

LEMMA ReplannedItems ==
    ASSUME NEW topics, NEW items \in Seq(ItemRows(topics)), NEW goal \in GoalRows, NEW time \in Int,
           NEW result, result = Replanned(items, goal, time)
    PROVE  /\ result \in Seq(ItemRows(topics)) /\ Rewritten(result, items)
           /\ InWeeks(result, goal, time)
<1> DEFINE N == Len(items)
           first == CurrentWeek(time)
           last == ReplannedTotal(goal, time)
           loads == [i \in DOMAIN items |-> <<items[i].minutes, items[i].minutes>>]
           weeks == Placed(Open(items), loads, goal.weekly, first, last)
           new == Replanned(items, goal, time)
<1>1. N \in Nat /\ DOMAIN items = 1..N /\ \A i \in 1..N : items[i] \in ItemRows(topics)
  BY LenProperties, ElementOfSeq
<1>2. goal.weekly \in Nat /\ goal.examDay \in Int
  BY GoalOf
<1>3. first \in Nat \ {0} /\ last \in Nat /\ first <= last
  BY <1>2, ReplannedInTime
<1>4. \A i \in 1..N : items[i].minutes \in Nat /\ items[i].done \in BOOLEAN
  BY <1>1, RowOf
<1>5. Len(loads) = N /\ IsLoads(loads)
  <2>1. loads \in [1..N -> Nat \X Nat]
    BY <1>1, <1>4
  <2>2. Len(loads) = N
    BY <1>1, <2>1, SeqOfFunction
  <2> QED BY <1>1, <1>4, <2>2 DEF IsLoads
<1>6. /\ weeks \in Seq(Nat) /\ Len(weeks) = N
      /\ \A i \in 1..N : weeks[i] \in first..last
      /\ \A k \in first..last : k < last => Fits(AtWeek(weeks, Open(items), k), loads, goal.weekly)
  <2> HIDE DEF loads, first, last
  <2>1. first \in Nat /\ first <= last /\ last \in Nat
    BY <1>3
  <2>2. WellPlaced(Placed(Open(items), loads, goal.weekly, first, last), Open(items), loads,
                   goal.weekly, first, last)
    BY <1>2, <1>5, <2>1, PlacedWell
  <2> QED BY <1>5, <2>2 DEF WellPlaced
<1>7. new = [i \in DOMAIN items |->
                IF IsOpen(items[i])
                THEN [items[i] EXCEPT !.week = weeks[i], !.day = FirstDay(weeks[i]), !.done = FALSE]
                ELSE items[i]]
  BY DEF Replanned
<1> HIDE DEF new, weeks, loads, first, last
<1>8. ASSUME NEW i \in 1..N
      PROVE  /\ new[i] \in ItemRows(topics)
             /\ new[i].type = items[i].type /\ new[i].topic = items[i].topic
             /\ new[i].minutes = items[i].minutes /\ new[i].done = items[i].done
             /\ items[i].done => new[i] = items[i]
             /\ ~items[i].done => /\ new[i].week = weeks[i]
                                  /\ new[i].day = FirstDay(weeks[i])
  <2>1. CASE items[i].done
    BY <1>1, <1>7, <2>1 DEF IsOpen
  <2>2. CASE ~items[i].done
    <3>1. new[i] = [items[i] EXCEPT !.week = weeks[i], !.day = FirstDay(weeks[i]), !.done = FALSE]
      BY <1>1, <1>7, <2>2 DEF IsOpen
    <3>2. PICK item \in ItemRows(topics) : item = items[i]
      BY <1>1
    <3>3. PICK v : v = weeks[i]
      OBVIOUS
    <3>4. v \in Nat \ {0} /\ FirstDay(v) \in Nat
      <4>1. v \in Nat \ {0}
        BY <1>3, <1>6, <3>3
      <4> QED BY <4>1, FirstDayType
    <3>5. new[i] = [item EXCEPT !.week = v, !.day = FirstDay(v), !.done = FALSE]
      BY <3>1, <3>2, <3>3
    <3>6. new[i] = [type |-> item.type, topic |-> item.topic, week |-> v, day |-> FirstDay(v),
                    minutes |-> item.minutes, done |-> FALSE]
      <4>1. item = [type |-> item.type, topic |-> item.topic, week |-> item.week,
                    day |-> item.day, minutes |-> item.minutes, done |-> item.done]
        BY <3>2, RowOf
      <4>2. PICK d : d = FirstDay(v)
        OBVIOUS
      <4> QED BY <3>5, <4>1, <4>2
    <3>7. item.type \in ItemTypes /\ item.topic \in topics /\ item.minutes \in Nat \ {0}
      BY <3>2, RowOf
    <3>8. new[i] \in ItemRows(topics)
      BY <3>4, <3>6, <3>7 DEF ItemRows
    <3>9. item.done = FALSE
      <4>1. item.done \in BOOLEAN
        BY <3>2, RowOf
      <4> QED BY <2>2, <3>2, <4>1
    <3>10. /\ new[i].type = item.type /\ new[i].topic = item.topic /\ new[i].week = v
           /\ new[i].day = FirstDay(v) /\ new[i].minutes = item.minutes /\ new[i].done = FALSE
      BY <3>6
    <3> QED BY <2>2, <3>2, <3>3, <3>8, <3>9, <3>10
  <2> QED BY <2>1, <2>2
<1>9. new \in Seq(ItemRows(topics)) /\ Len(new) = N /\ DOMAIN new = 1..N
  <2>1. new \in [1..N -> ItemRows(topics)]
    BY <1>1, <1>7, <1>8
  <2> QED BY <1>1, <2>1, SeqOfFunction
<1>10. ASSUME NEW i \in 1..N, ~items[i].done
       PROVE  new[i].week \in first..last /\ new[i].day = FirstDay(new[i].week)
  BY <1>6, <1>8, <1>10
<1>11. ASSUME NEW k \in Nat, k < last PROVE FewOrFit(OpenIn(new, k), MinutesOf(new), goal.weekly)
  <2>1. OpenIn(new, k) = AtWeek(weeks, Open(items), k)
    <3>1. ASSUME NEW i \in OpenIn(new, k) PROVE i \in AtWeek(weeks, Open(items), k)
      BY <1>1, <1>6, <1>8, <1>9 DEF OpenIn, AtWeek, Open, IsOpen
    <3>2. ASSUME NEW i \in AtWeek(weeks, Open(items), k) PROVE i \in OpenIn(new, k)
      BY <1>1, <1>6, <1>8, <1>9 DEF OpenIn, AtWeek, Open, IsOpen
    <3> QED BY <3>1, <3>2
  <2>2. MinutesOf(new) = Adds(loads)
    <3>1. MinutesOf(new) = [i \in 1..N |-> items[i].minutes]
      BY <1>8, <1>9 DEF MinutesOf
    <3>2. Adds(loads) = [i \in 1..N |-> items[i].minutes]
      <4>1. \A i \in 1..N : loads[i][2] = items[i].minutes
        BY <1>1 DEF loads
      <4> QED BY <1>5, <4>1 DEF Adds
    <3> QED BY <3>1, <3>2
  <2>3. CASE k \in first..last
    <3> DEFINE S == AtWeek(weeks, Open(items), k)
    <3>1. Fits(S, loads, goal.weekly)
      BY <1>6, <1>11, <2>3
    <3>2. CASE S = {}
      BY <2>1, <3>2 DEF FewOrFit
    <3>3. CASE S # {}
      <4>1. PICK m \in S : \/ S = {m}
                           \/ SumFunctionOnSet(Adds(loads), S) - loads[m][2] + loads[m][1]
                                 <= goal.weekly
        BY <3>1, <3>3 DEF Fits
      <4>2. m \in 1..N
        BY <1>6 DEF AtWeek
      <4>3. loads[m][1] = loads[m][2] /\ loads[m][1] \in Nat
        BY <1>1, <1>4, <4>2 DEF loads
      <4>4. SumFunctionOnSet(Adds(loads), S) \in Int
        <5>1. Adds(loads) \in [1..N -> Int] /\ S \in SUBSET (1..N) /\ IsFiniteSet(S)
          BY <1>5, <1>6, AtWeekType DEF IsLoads, Adds
        <5> HIDE DEF S
        <5> QED BY <4>1, <5>1, SumTakes
      <4> HIDE DEF S
      <4>5. S = {m} \/ SumFunctionOnSet(Adds(loads), S) <= goal.weekly
        BY <1>2, <4>1, <4>3, <4>4
      <4>6. FewOrFit(S, Adds(loads), goal.weekly)
        BY <4>1, <4>5 DEF FewOrFit
      <4> QED BY <2>1, <2>2, <4>6 DEF S
    <3> QED BY <3>2, <3>3
  <2>4. CASE k \notin first..last
    <3>1. k < first
      BY <1>3, <1>11, <2>4
    <3>2. AtWeek(weeks, Open(items), k) = {}
      <4>1. ASSUME NEW i \in AtWeek(weeks, Open(items), k) PROVE FALSE
        <5>1. i \in 1..N /\ weeks[i] = k
          BY <1>6 DEF AtWeek
        <5> QED BY <1>3, <1>6, <3>1, <5>1
      <4> QED BY <4>1
    <3> QED BY <2>1, <3>2 DEF FewOrFit
  <2> QED BY <2>3, <2>4
<1>12. Rewritten(new, items)
  BY <1>8, <1>9 DEF Rewritten
<1>13. InWeeks(new, goal, time)
  BY <1>8, <1>9, <1>10, <1>11 DEF InWeeks, first, last
<1>14. result = new
  BY DEF new
<1> QED BY <1>9, <1>12, <1>13, <1>14

TopicsTaught(exam, track) ==
    {None} \cup {SortedTopics(exam, track)[i].topic : i \in DOMAIN SortedTopics(exam, track)}

LEMMA CurriculumOf ==
    ASSUME NEW exam \in Exams, NEW track \in Tracks,
           NEW topics, topics = SortedTopics(exam, track)
    PROVE  /\ Len(topics) \in Nat \ {0} /\ DOMAIN topics = 1..Len(topics)
           /\ \A i \in 1..Len(topics) : /\ topics[i].hours \in Nat \ {0}
                                        /\ topics[i].topic \in TopicsTaught(exam, track)
           /\ \A i, j \in 1..Len(topics) : topics[i].topic = topics[j].topic => i = j
           /\ Curriculum(exam, track) \subseteq {topics[i].topic : i \in 1..Len(topics)}
<1>1. /\ Len(topics) \in Nat \ {0} /\ DOMAIN topics = 1..Len(topics)
      /\ \A i \in DOMAIN topics : topics[i].hours \in Nat \ {0}
      /\ \A i, j \in DOMAIN topics : topics[i].topic = topics[j].topic => i = j
      /\ Curriculum(exam, track) \subseteq {topics[i].topic : i \in DOMAIN topics}
  BY CurriculaAssumption
<1>2. \A i \in DOMAIN topics : topics[i].topic \in TopicsTaught(exam, track)
  BY DEF TopicsTaught
<1> QED BY <1>1, <1>2

LEMMA JoinOfThree ==
    ASSUME NEW S, NEW a \in Seq(S), NEW b \in Seq(S), NEW c \in Seq(S),
           NEW n, n = Len(a), NEW m, m = Len(b), NEW k, k = Len(c)
    PROVE  /\ a \o b \o c \in Seq(S) /\ Len(a \o b \o c) = n + m + k
           /\ \A i \in 1..n : (a \o b \o c)[i] = a[i]
           /\ \A i \in 1..m : (a \o b \o c)[n + i] = b[i]
           /\ \A i \in 1..k : (a \o b \o c)[n + m + i] = c[i]
<1>1. /\ a \in Seq(S) /\ b \in Seq(S) /\ c \in Seq(S)
      /\ Len(a) = n /\ Len(b) = m /\ Len(c) = k /\ n \in Nat /\ m \in Nat /\ k \in Nat
  BY LenProperties
<1>2. PICK ab \in Seq(S) : ab = a \o b
  BY <1>1, ConcatProperties
<1>3. /\ Len(ab) = n + m
      /\ \A i \in 1..(n + m) : ab[i] = IF i <= n THEN a[i] ELSE b[i - n]
  BY <1>1, <1>2, ConcatProperties
<1>4. PICK abc \in Seq(S) : abc = ab \o c
  BY <1>1, <1>2, ConcatProperties
<1>5. /\ Len(abc) = n + m + k
      /\ \A i \in 1..(n + m + k) : abc[i] = IF i <= n + m THEN ab[i] ELSE c[i - (n + m)]
  <2>1. /\ Len(ab \o c) = Len(ab) + Len(c)
        /\ \A i \in 1..(Len(ab) + Len(c)) :
              (ab \o c)[i] = IF i <= Len(ab) THEN ab[i] ELSE c[i - Len(ab)]
    BY <1>1, ConcatProperties
  <2> QED BY <1>1, <1>3, <1>4, <2>1
<1>6. ASSUME NEW i \in 1..n PROVE abc[i] = a[i]
  BY <1>3, <1>5
<1>7. ASSUME NEW i \in 1..m PROVE abc[n + i] = b[i]
  <2>1. n + i \in 1..(n + m + k) /\ n + i \in 1..(n + m) /\ ~(n + i <= n) /\ (n + i) - n = i
    OBVIOUS
  <2> QED BY <1>3, <1>5, <2>1
<1>8. ASSUME NEW i \in 1..k PROVE abc[n + m + i] = c[i]
  <2>1. /\ n + m + i \in 1..(n + m + k) /\ ~(n + m + i <= n + m)
        /\ (n + m + i) - (n + m) = i
    OBVIOUS
  <2> QED BY <1>5, <2>1
<1> QED BY <1>2, <1>4, <1>5, <1>6, <1>7, <1>8

LEMMA Pairs ==
    ASSUME NEW n \in Nat, NEW t \in 1..n
    PROVE  /\ 2 * t - 1 \in 1..(2 * n) /\ (2 * t - 1) % 2 = 1 /\ ((2 * t - 1) + 1) \div 2 = t
           /\ 2 * t \in 1..(2 * n) /\ (2 * t) % 2 = 0 /\ (2 * t + 1) \div 2 = t
<1>1. t \in Int /\ t >= 1 /\ t <= n
  OBVIOUS
<1>2. 2 * t - 1 = 2 * (t - 1) + 1
  BY <1>1
<1>3. (2 * t - 1) % 2 = 1
  BY <1>1
<1>4. ((2 * t - 1) + 1) \div 2 = t
  BY <1>1
<1>5. (2 * t) % 2 = 0
  BY <1>1
<1>6. (2 * t + 1) \div 2 = t
  BY <1>1
<1> QED BY <1>1, <1>3, <1>4, <1>5, <1>6

LearnOf(t, w) == Item("LEARN", t.topic, w, FirstDay(w), LearnMinutes(t))
PracticeOf(t, w) == Item("PRACTICE", t.topic, w, FirstDay(w) + 2, PracticeMinutes(t))
WeeklyOf(type, w, weekly, cap) == Item(type, None, w, FirstDay(w), Min({weekly, cap}))

TopicLoads(topics) ==
    [i \in DOMAIN topics |->
        <<LearnMinutes(topics[i]), LearnMinutes(topics[i]) + PracticeMinutes(topics[i])>>]

\* The items of a new plan: of each topic, and of each week after the learning weeks.
Fresh(items, topics, weeks, weekly, total) ==
    LET learnt == LearnWeeks(total)
        reviewed == learnt + ReviewWeeks(total)
        T == 2 * Len(topics)
    IN  /\ Len(items) = T + (total - learnt)
        /\ \A t \in 1..Len(topics) : /\ items[2 * t - 1] = LearnOf(topics[t], weeks[t])
                                     /\ items[2 * t] = PracticeOf(topics[t], weeks[t])
        /\ \A w \in (learnt + 1)..reviewed :
              items[T + (w - learnt)] = WeeklyOf("REVIEW", w, weekly, 480)
        /\ \A w \in (reviewed + 1)..total :
              items[T + (w - learnt)] = WeeklyOf("SIMULATE", w, weekly, 600)

LEMMA RowsOfPlan ==
    ASSUME NEW topics, NEW topic \in topics, NEW w \in Nat \ {0}, NEW day \in Nat,
           NEW minutes \in Nat \ {0}, NEW type \in ItemTypes
    PROVE  Item(type, topic, w, day, minutes) \in ItemRows(topics)
BY DEF Item, ItemRows

LEMMA DistributedItems ==
    ASSUME NEW goal \in GoalRows, NEW total \in 4..60,
           NEW topics, topics = SortedTopics(goal.exam, goal.track)
    PROVE  /\ Distributed(goal, total) \in Seq(ItemRows(TopicsTaught(goal.exam, goal.track)))
           /\ IsLoads(TopicLoads(topics)) /\ Len(TopicLoads(topics)) = Len(topics)
           /\ \E weeks :
                /\ WellPlaced(weeks, 1..Len(topics), TopicLoads(topics), goal.weekly, 1,
                              LearnWeeks(total))
                /\ Fresh(Distributed(goal, total), topics, weeks, goal.weekly, total)
<1> DEFINE learnt == LearnWeeks(total)
           review == ReviewWeeks(total)
           reviewed == learnt + review
           n == Len(topics)
           S == ItemRows(TopicsTaught(goal.exam, goal.track))
           loads == TopicLoads(topics)
           weeks == Placed(1..n, loads, goal.weekly, 1, learnt)
           Of(i) == (i + 1) \div 2
           a == [i \in 1..(2 * n) |-> IF i % 2 = 1 THEN LearnOf(topics[Of(i)], weeks[Of(i)])
                                      ELSE PracticeOf(topics[Of(i)], weeks[Of(i)])]
           b == [i \in 1..(reviewed - learnt) |-> WeeklyOf("REVIEW", learnt + i, goal.weekly, 480)]
           c == [i \in 1..(total - reviewed) |->
                    WeeklyOf("SIMULATE", reviewed + i, goal.weekly, 600)]
<1>1. goal.exam \in Exams /\ goal.track \in Tracks /\ goal.weekly \in Nat \ {0}
  BY GoalOf
<1>2. /\ n \in Nat \ {0} /\ DOMAIN topics = 1..n
      /\ \A i \in 1..n : topics[i].hours \in Nat \ {0}
      /\ \A i \in 1..n : topics[i].topic \in TopicsTaught(goal.exam, goal.track)
  BY <1>1, CurriculumOf
<1>3. learnt \in Nat \ {0} /\ review \in Nat \ {0} /\ learnt + review < total
  BY PhasesOfTotal
<1>4. ASSUME NEW i \in 1..n
      PROVE  LearnMinutes(topics[i]) \in Nat \ {0} /\ PracticeMinutes(topics[i]) \in Nat \ {0}
  <2>1. topics[i].hours \in Nat \ {0}
    BY <1>2
  <2> QED BY <2>1 DEF LearnMinutes, PracticeMinutes
<1>5. Len(loads) = n /\ IsLoads(loads)
  <2>1. loads \in [1..n -> Nat \X Nat]
    BY <1>2, <1>4 DEF TopicLoads
  <2>2. Len(loads) = n
    BY <1>2, <2>1, SeqOfFunction
  <2>3. \A i \in 1..n : loads[i][1] \in Nat /\ loads[i][2] \in Nat
    BY <2>1
  <2> HIDE DEF loads
  <2> QED BY <1>2, <2>2, <2>3 DEF IsLoads
<1>6. WellPlaced(weeks, 1..n, loads, goal.weekly, 1, learnt)
  <2>1. goal.weekly \in Nat /\ learnt \in Nat /\ 1 \in Nat /\ 1 <= learnt
    BY <1>1, <1>3
  <2> HIDE DEF loads, learnt, n
  <2> QED BY <1>5, <2>1, PlacedWell
<1>7. Distributed(goal, total) = a \o b \o c
  BY <1>2 DEF Distributed, TopicLoads, LearnOf, PracticeOf, WeeklyOf
<1> HIDE DEF loads, weeks
<1>8. ASSUME NEW t \in 1..n
      PROVE  weeks[t] \in Nat \ {0} /\ LearnOf(topics[t], weeks[t]) \in S
                                    /\ PracticeOf(topics[t], weeks[t]) \in S
  <2>1. weeks[t] \in 1..learnt
    BY <1>5, <1>6 DEF WellPlaced
  <2>2. PICK w \in Nat \ {0} : w = weeks[t]
    BY <1>3, <2>1
  <2>3. FirstDay(w) \in Nat /\ FirstDay(w) + 2 \in Nat
    <3>1. FirstDay(w) \in Nat
      BY FirstDayType
    <3> QED BY <3>1
  <2>4. "LEARN" \in ItemTypes /\ "PRACTICE" \in ItemTypes
    BY DEF ItemTypes
  <2>5. topics[t].topic \in TopicsTaught(goal.exam, goal.track)
    BY <1>2
  <2>6. LearnOf(topics[t], w) \in S /\ PracticeOf(topics[t], w) \in S
    BY <1>4, <2>3, <2>4, <2>5, RowsOfPlan DEF LearnOf, PracticeOf
  <2> QED BY <2>2, <2>6
<1>9. ASSUME NEW w \in Nat \ {0}, NEW cap \in Nat \ {0}, NEW type \in ItemTypes
      PROVE  WeeklyOf(type, w, goal.weekly, cap) \in S
  <2>1. PICK minutes : minutes = Min({goal.weekly, cap})
    OBVIOUS
  <2>2. minutes \in {goal.weekly, cap}
    <3>1. goal.weekly \in Int /\ cap \in Int
      BY <1>1
    <3> QED BY <2>1, <3>1, MinOfTwo
  <2>3. minutes \in Nat \ {0} /\ FirstDay(w) \in Nat
    BY <1>1, <2>2, FirstDayType
  <2>4. None \in TopicsTaught(goal.exam, goal.track)
    BY DEF TopicsTaught
  <2> QED BY <2>1, <2>3, <2>4, RowsOfPlan DEF WeeklyOf
<1>10. a \in [1..(2 * n) -> S]
  <2>1. ASSUME NEW i \in 1..(2 * n) PROVE Of(i) \in 1..n
    BY <1>2
  <2> QED BY <1>8, <2>1
<1>11. b \in [1..(reviewed - learnt) -> S] /\ c \in [1..(total - reviewed) -> S]
  <2>1. "REVIEW" \in ItemTypes /\ "SIMULATE" \in ItemTypes /\ 480 \in Nat \ {0} /\ 600 \in Nat \ {0}
    BY DEF ItemTypes
  <2>2. ASSUME NEW i \in 1..(reviewed - learnt) PROVE learnt + i \in Nat \ {0}
    BY <1>3
  <2>3. ASSUME NEW i \in 1..(total - reviewed) PROVE reviewed + i \in Nat \ {0}
    BY <1>3
  <2>4. b \in [1..(reviewed - learnt) -> S]
    BY <1>9, <2>1, <2>2
  <2>5. c \in [1..(total - reviewed) -> S]
    BY <1>9, <2>1, <2>3
  <2> QED BY <2>4, <2>5
<1>12. PICK items : items = a \o b \o c
  OBVIOUS
<1>13. /\ items \in Seq(S) /\ Len(items) = 2 * n + (reviewed - learnt) + (total - reviewed)
       /\ \A i \in 1..(2 * n) : items[i] = a[i]
       /\ \A i \in 1..(reviewed - learnt) : items[2 * n + i] = b[i]
       /\ \A i \in 1..(total - reviewed) : items[2 * n + (reviewed - learnt) + i] = c[i]
  <2>1. 2 * n \in Nat /\ reviewed - learnt \in Nat /\ total - reviewed \in Nat
    <3>1. n \in Nat /\ learnt \in Nat /\ review \in Nat /\ learnt + review < total
      BY <1>2, <1>3
    <3> HIDE DEF n, learnt, review
    <3> QED BY <3>1
  <2>2. PICK n1 \in Nat, n2 \in Nat, n3 \in Nat :
           n1 = 2 * n /\ n2 = reviewed - learnt /\ n3 = total - reviewed
    BY <2>1
  <2>3. a \in [1..n1 -> S] /\ b \in [1..n2 -> S] /\ c \in [1..n3 -> S]
    BY <1>10, <1>11, <2>2
  <2> HIDE DEF a, b, c, n, reviewed, learnt, S
  <2>4. /\ items \in Seq(S) /\ Len(items) = n1 + n2 + n3
        /\ \A i \in 1..n1 : items[i] = a[i]
        /\ \A i \in 1..n2 : items[n1 + i] = b[i]
        /\ \A i \in 1..n3 : items[n1 + n2 + i] = c[i]
    <3>1. /\ a \o b \o c \in Seq(S) /\ Len(a \o b \o c) = n1 + n2 + n3
          /\ \A i \in 1..n1 : (a \o b \o c)[i] = a[i]
          /\ \A i \in 1..n2 : (a \o b \o c)[n1 + i] = b[i]
          /\ \A i \in 1..n3 : (a \o b \o c)[n1 + n2 + i] = c[i]
      <4>1. /\ a \in Seq(S) /\ b \in Seq(S) /\ c \in Seq(S)
            /\ n1 = Len(a) /\ n2 = Len(b) /\ n3 = Len(c)
        BY <2>3, SeqOfFunction
      <4> QED BY <4>1, JoinOfThree
    <3> QED BY <1>12, <3>1
  <2> QED BY <2>2, <2>4
<1>14. Fresh(items, topics, weeks, goal.weekly, total)
  <2>1. Len(items) = 2 * n + (total - learnt)
    BY <1>2, <1>3, <1>13
  <2>2. ASSUME NEW t \in 1..n
        PROVE  /\ items[2 * t - 1] = LearnOf(topics[t], weeks[t])
               /\ items[2 * t] = PracticeOf(topics[t], weeks[t])
    <3>1. /\ 2 * t - 1 \in 1..(2 * n) /\ (2 * t - 1) % 2 = 1 /\ Of(2 * t - 1) = t
          /\ 2 * t \in 1..(2 * n) /\ (2 * t) % 2 # 1 /\ Of(2 * t) = t
      <4>1. 1 # 0
        OBVIOUS
      <4> HIDE DEF n
      <4> QED BY <1>2, Pairs
    <3>2. a[2 * t - 1] = LearnOf(topics[t], weeks[t]) /\ a[2 * t] = PracticeOf(topics[t], weeks[t])
      BY <3>1
    <3> QED BY <1>13, <3>1, <3>2
  <2>3. ASSUME NEW w \in (learnt + 1)..reviewed
        PROVE  items[2 * n + (w - learnt)] = WeeklyOf("REVIEW", w, goal.weekly, 480)
    <3>1. w - learnt \in 1..(reviewed - learnt) /\ learnt + (w - learnt) = w
      BY <1>3
    <3>2. b[w - learnt] = WeeklyOf("REVIEW", w, goal.weekly, 480)
      BY <3>1
    <3>3. items[2 * n + (w - learnt)] = b[w - learnt]
      <4> HIDE DEF a, b, c, n, reviewed, learnt
      <4> QED BY <1>13, <3>1
    <3> QED BY <3>2, <3>3
  <2>4. ASSUME NEW w \in (reviewed + 1)..total
        PROVE  items[2 * n + (w - learnt)] = WeeklyOf("SIMULATE", w, goal.weekly, 600)
    <3>1. /\ w - reviewed \in 1..(total - reviewed) /\ reviewed + (w - reviewed) = w
          /\ 2 * n + (reviewed - learnt) + (w - reviewed) = 2 * n + (w - learnt)
      <4>1. learnt \in Int /\ review \in Int /\ n \in Int /\ learnt + review + 1 <= w /\ w <= total
        BY <1>2, <1>3
      <4>2. w \in Int
        BY <1>3
      <4> HIDE DEF n, learnt, review
      <4> QED BY <4>1, <4>2
    <3>2. c[w - reviewed] = WeeklyOf("SIMULATE", w, goal.weekly, 600)
      BY <3>1
    <3>3. items[2 * n + (reviewed - learnt) + (w - reviewed)] = c[w - reviewed]
      <4> HIDE DEF a, b, c, n, reviewed, learnt
      <4> QED BY <1>13, <3>1
    <3> QED BY <3>1, <3>2, <3>3
  <2> QED BY <2>1, <2>2, <2>3, <2>4 DEF Fresh
<1>15. Distributed(goal, total) = items /\ items \in Seq(S)
  BY <1>7, <1>12, <1>13
<1> QED BY <1>5, <1>6, <1>14, <1>15 DEF loads

-----------------------------------------------------------------------------
(* What a step does to the items.                                           *)

\* The same items in another place, in order p.
Reordered(new, old, p) ==
    /\ Len(new) = Len(old) /\ p \in [1..Len(old) -> 1..Len(old)]
    /\ \A i \in 1..Len(old) : p[p[i]] = i /\ new[i] = old[p[i]]

LEMMA OrdersReorder ==
    ASSUME NEW S, NEW old \in Seq(S), NEW new \in Orders(old)
    PROVE  new \in Seq(S) /\ \E p : Reordered(new, old, p)
<1> DEFINE N == Len(old)
<1>1. N \in Nat /\ \A i \in 1..N : old[i] \in S
  BY LenProperties, ElementOfSeq
<1>2. CASE new = old
  <2> DEFINE p == [i \in 1..N |-> i]
  <2>1. Reordered(new, old, p)
    BY <1>2 DEF Reordered
  <2> QED BY <1>2, <2>1
<1>3. CASE new = Reverse(old)
  <2> DEFINE p == [i \in 1..N |-> (N - i) + 1]
  <2>1. new = [i \in 1..N |-> old[(N - i) + 1]]
    BY <1>3 DEF Reverse
  <2>2. ASSUME NEW i \in 1..N PROVE (N - i) + 1 \in 1..N /\ (N - ((N - i) + 1)) + 1 = i
    BY <1>1
  <2>3. new \in [1..N -> S]
    BY <1>1, <2>1, <2>2
  <2>4. new \in Seq(S) /\ Len(new) = N
    BY <1>1, <2>3, SeqOfFunction
  <2>5. Reordered(new, old, p)
    BY <2>1, <2>2, <2>4 DEF Reordered
  <2> QED BY <2>4, <2>5
<1> QED BY <1>2, <1>3 DEF Orders

\* Replanned, after having been read in order p.
Redone(new, old, p) ==
    /\ Len(new) = Len(old) /\ p \in [1..Len(old) -> 1..Len(old)]
    /\ \A i \in 1..Len(old) :
         /\ p[p[i]] = i
         /\ new[i].type = old[p[i]].type /\ new[i].topic = old[p[i]].topic
         /\ new[i].minutes = old[p[i]].minutes /\ new[i].done = old[p[i]].done
         /\ old[p[i]].done => new[i] = old[p[i]]

LEMMA ReplanRedoes ==
    ASSUME NEW topics, NEW old \in Seq(ItemRows(topics)), NEW items \in Orders(old),
           NEW goal \in GoalRows, NEW time \in Int,
           NEW new, new = Replanned(items, goal, time)
    PROVE  /\ new \in Seq(ItemRows(topics))
           /\ \E p : Redone(new, old, p)
           /\ InWeeks(new, goal, time)
<1>1. PICK p : items \in Seq(ItemRows(topics)) /\ Reordered(items, old, p)
  BY OrdersReorder
<1>2. new \in Seq(ItemRows(topics)) /\ Rewritten(new, items) /\ InWeeks(new, goal, time)
  BY <1>1, ReplannedItems
<1>3. Redone(new, old, p)
  BY <1>1, <1>2 DEF Reordered, Rewritten, Redone
<1> QED BY <1>2, <1>3

\* Some are completed, and nothing else changes.
Progressed(new, old) ==
    /\ Len(new) = Len(old)
    /\ \A i \in 1..Len(old) :
         /\ new[i].type = old[i].type /\ new[i].topic = old[i].topic
         /\ new[i].week = old[i].week /\ new[i].day = old[i].day
         /\ new[i].minutes = old[i].minutes
         /\ old[i].done => new[i].done

PlanRows(topics) ==
    [number : Nat, total : Nat, items : Seq(ItemRows(topics)), from : Int, examDay : Int,
     weekly : Minutes]

GoalTopics == TopicsTaught(profile.exam, profile.track)

LEMMA PlanOf ==
    ASSUME NEW topics, NEW p \in PlanRows(topics)
    PROVE  /\ p = [number |-> p.number, total |-> p.total, items |-> p.items, from |-> p.from,
                   examDay |-> p.examDay, weekly |-> p.weekly]
           /\ p.number \in Nat /\ p.total \in Nat /\ p.items \in Seq(ItemRows(topics))
           /\ p.from \in Int /\ p.examDay \in Int /\ p.weekly \in Minutes
BY DEF PlanRows

LEMMA CompleteProgresses ==
    ASSUME plan \in PlanRows(GoalTopics), NEW pick, Complete(pick)
    PROVE  /\ plan' = [number |-> plan.number, total |-> plan.total, items |-> plan'.items,
                       from |-> plan.from, examDay |-> plan.examDay, weekly |-> plan.weekly]
           /\ plan'.items \in Seq(ItemRows(GoalTopics))
           /\ Progressed(plan'.items, plan.items)
<1> DEFINE N == Len(plan.items)
<1>1. PICK k : plan' = [plan EXCEPT !.items[k].done = TRUE]
  BY DEF Complete
<1>2. plan.items \in Seq(ItemRows(GoalTopics))
  BY PlanOf
<1>3. N \in Nat /\ DOMAIN plan.items = 1..N /\ \A i \in 1..N : plan.items[i] \in ItemRows(GoalTopics)
  BY <1>2, LenProperties, ElementOfSeq
<1>4. PICK new : new = [plan.items EXCEPT ![k] = [plan.items[k] EXCEPT !.done = TRUE]]
  OBVIOUS
<1>5. plan' = [plan EXCEPT !.items = new]
  BY <1>1, <1>4
<1>6. plan' = [number |-> plan.number, total |-> plan.total, items |-> new,
               from |-> plan.from, examDay |-> plan.examDay, weekly |-> plan.weekly]
  BY <1>5, PlanOf
<1>7. plan'.items = new
  BY <1>6
<1>8. ASSUME NEW i \in 1..N
      PROVE  /\ new[i] \in ItemRows(GoalTopics)
             /\ new[i].type = plan.items[i].type /\ new[i].topic = plan.items[i].topic
             /\ new[i].week = plan.items[i].week /\ new[i].day = plan.items[i].day
             /\ new[i].minutes = plan.items[i].minutes
             /\ plan.items[i].done => new[i].done
  <2>1. PICK item \in ItemRows(GoalTopics) : item = plan.items[i]
    BY <1>3
  <2>2. CASE i = k
    <3>1. new[i] = [item EXCEPT !.done = TRUE]
      BY <1>3, <1>4, <2>1, <2>2
    <3>2. item = [type |-> item.type, topic |-> item.topic, week |-> item.week,
                  day |-> item.day, minutes |-> item.minutes, done |-> item.done]
      BY RowOf
    <3>3. new[i] = [type |-> item.type, topic |-> item.topic, week |-> item.week,
                    day |-> item.day, minutes |-> item.minutes, done |-> TRUE]
      BY <3>1, <3>2
    <3>4. new[i] \in ItemRows(GoalTopics)
      BY <3>3, RowOf DEF ItemRows
    <3> QED BY <2>1, <3>3, <3>4
  <2>3. CASE i # k
    <3>1. new[i] = plan.items[i]
      BY <1>3, <1>4, <2>3
    <3> QED BY <2>1, <3>1
  <2> QED BY <2>2, <2>3
<1>9. new \in Seq(ItemRows(GoalTopics)) /\ Len(new) = N
  <2>1. new \in [1..N -> ItemRows(GoalTopics)]
    BY <1>3, <1>4, <1>8
  <2> QED BY <1>3, <2>1, SeqOfFunction
<1>10. Progressed(new, plan.items)
  BY <1>8, <1>9 DEF Progressed
<1> QED BY <1>6, <1>7, <1>9, <1>10

-----------------------------------------------------------------------------
(* Types.                                                                   *)

TypeInv ==
    /\ profile \in GoalRows /\ now \in Int /\ replans \in 0..MaxReplans
    /\ plan \in PlanRows(GoalTopics)
    /\ plan.number \in 0..(replans + 1)
    /\ plan.number = 0 => plan = NoPlan /\ replans = 0

LEMMA WithWeekly ==
    ASSUME NEW goal \in GoalRows, NEW weekly \in Minutes,
           NEW new, new = [goal EXCEPT !.weekly = weekly]
    PROVE  /\ new \in GoalRows /\ new.exam = goal.exam /\ new.track = goal.track
           /\ new.examDay = goal.examDay /\ new.weekly = weekly
<1>1. goal = [exam |-> goal.exam, track |-> goal.track, examDay |-> goal.examDay,
              weekly |-> goal.weekly]
  BY GoalOf
<1>2. new = [exam |-> goal.exam, track |-> goal.track, examDay |-> goal.examDay, weekly |-> weekly]
  BY <1>1
<1>3. goal.exam \in Exams /\ goal.track \in Tracks /\ goal.examDay \in Int
  BY GoalOf
<1> QED BY <1>2, <1>3 DEF GoalRows

LEMMA GenerateMakes ==
    ASSUME profile \in GoalRows, NEW weekly \in Minutes, Generate(weekly)
    PROVE  \E goal \in GoalRows, total \in 4..60 :
              /\ goal = [profile EXCEPT !.weekly = weekly] /\ total = TotalWeeks(profile.examDay)
              /\ plan' = [number |-> 1, total |-> total, items |-> Distributed(goal, total),
                          from |-> 0, examDay |-> profile.examDay, weekly |-> weekly]
              /\ Distributed(goal, total) \in Seq(ItemRows(GoalTopics))
              /\ plan' \in PlanRows(GoalTopics)
<1>1. PICK goal : goal = [profile EXCEPT !.weekly = weekly]
  OBVIOUS
<1>2. /\ goal \in GoalRows /\ goal.exam = profile.exam /\ goal.track = profile.track
  BY <1>1, WithWeekly
<1>3. profile.examDay \in Int
  BY GoalOf
<1>4. PICK total \in 4..60 : total = TotalWeeks(profile.examDay)
  BY <1>3, TotalWeeksInTime
<1>5. PICK items : items = Distributed(goal, total)
  OBVIOUS
<1>6. items \in Seq(ItemRows(GoalTopics))
  <2>1. Distributed(goal, total) \in Seq(ItemRows(TopicsTaught(goal.exam, goal.track)))
    BY <1>2, DistributedItems
  <2> QED BY <1>2, <1>5, <2>1 DEF GoalTopics
<1>7. plan' = [number |-> 1, total |-> total, items |-> items, from |-> 0,
               examDay |-> profile.examDay, weekly |-> weekly]
  BY <1>1, <1>4, <1>5 DEF Generate
<1>8. plan' \in PlanRows(GoalTopics)
  <2>1. 1 \in Nat /\ total \in Nat /\ 0 \in Int
    OBVIOUS
  <2> QED BY <1>3, <1>6, <1>7, <2>1 DEF PlanRows
<1> QED BY <1>1, <1>2, <1>4, <1>5, <1>6, <1>7, <1>8

LEMMA GoalStays ==
    ASSUME profile \in GoalRows, profile' = profile \/ \E examDay \in NewDays, weekly \in NewWeekly :
              profile' = [profile EXCEPT !.examDay = examDay, !.weekly = weekly]
    PROVE  /\ profile' \in GoalRows /\ GoalTopics' = GoalTopics
           /\ profile'.exam = profile.exam /\ profile'.track = profile.track
<1>1. /\ profile = [exam |-> profile.exam, track |-> profile.track, examDay |-> profile.examDay,
                   weekly |-> profile.weekly]
      /\ profile.exam \in Exams /\ profile.track \in Tracks
  BY GoalOf
<1>2. CASE profile' = profile
  BY <1>2 DEF GoalTopics
<1>3. ASSUME NEW examDay \in NewDays, NEW weekly \in NewWeekly,
             profile' = [profile EXCEPT !.examDay = examDay, !.weekly = weekly]
      PROVE  /\ profile' \in GoalRows /\ GoalTopics' = GoalTopics
             /\ profile'.exam = profile.exam /\ profile'.track = profile.track
  <2>1. examDay \in Int /\ weekly \in Minutes
    BY ConstantsAssumption
  <2>2. profile' = [exam |-> profile.exam, track |-> profile.track, examDay |-> examDay,
                    weekly |-> weekly]
    BY <1>1, <1>3
  <2>3. profile'.exam = profile.exam /\ profile'.track = profile.track
    BY <2>2
  <2> QED BY <1>1, <2>1, <2>2, <2>3 DEF GoalRows, GoalTopics
<1> QED BY <1>2, <1>3

LEMMA ReplanMakes ==
    ASSUME TypeInv, Replan
    PROVE  /\ plan' = [number |-> plan.number + 1, total |-> ReplannedTotal(profile, now),
                       items |-> plan'.items, from |-> now, examDay |-> profile.examDay,
                       weekly |-> profile.weekly]
           /\ plan'.items \in Seq(ItemRows(GoalTopics))
           /\ \E p : Redone(plan'.items, plan.items, p)
           /\ InWeeks(plan'.items, profile, now)
<1>1. PICK items \in Orders(plan.items) :
         plan' = [number |-> plan.number + 1, total |-> ReplannedTotal(profile, now),
                  items |-> Replanned(items, profile, now),
                  from |-> now, examDay |-> profile.examDay, weekly |-> profile.weekly]
  BY DEF Replan
<1>2. PICK new : new = Replanned(items, profile, now)
  OBVIOUS
<1>3. plan' = [number |-> plan.number + 1, total |-> ReplannedTotal(profile, now),
               items |-> new, from |-> now, examDay |-> profile.examDay, weekly |-> profile.weekly]
  BY <1>1, <1>2
<1>4. plan'.items = new
  BY <1>3
<1>5. plan.items \in Seq(ItemRows(GoalTopics)) /\ profile \in GoalRows /\ now \in Int
  BY PlanOf DEF TypeInv
<1>6. /\ new \in Seq(ItemRows(GoalTopics)) /\ (\E p : Redone(new, plan.items, p))
      /\ InWeeks(new, profile, now)
  BY <1>2, <1>5, ReplanRedoes
<1> QED BY <1>3, <1>4, <1>6

LEMMA TypeStep == TypeInv /\ [Next]_vars => TypeInv'
<1> SUFFICES ASSUME TypeInv, [Next]_vars PROVE TypeInv'
  OBVIOUS
<1>1. /\ profile \in GoalRows /\ now \in Int /\ replans \in Int /\ MaxReplans \in Nat
      /\ 0 <= replans /\ replans <= MaxReplans
      /\ plan \in PlanRows(GoalTopics)
      /\ plan.number \in Nat /\ plan.number <= replans + 1
      /\ plan.number = 0 => plan = NoPlan /\ replans = 0
  BY ConstantsAssumption DEF TypeInv
<1>2. ASSUME NEW weekly \in Minutes, Generate(weekly) PROVE TypeInv'
  <2>1. plan' \in PlanRows(GoalTopics) /\ plan'.number = 1
    BY <1>1, <1>2, GenerateMakes
  <2>2. UNCHANGED <<profile, now, replans>>
    BY <1>2 DEF Generate
  <2>3. GoalTopics' = GoalTopics
    BY <2>2 DEF GoalTopics
  <2> QED BY <1>1, <2>1, <2>2, <2>3 DEF TypeInv
<1>3. ASSUME NEW pick \in Picks, Complete(pick) PROVE TypeInv'
  <2>1. UNCHANGED <<profile, now, replans>> /\ plan # NoPlan
    BY <1>3 DEF Complete
  <2>2. /\ plan' = [number |-> plan.number, total |-> plan.total, items |-> plan'.items,
                    from |-> plan.from, examDay |-> plan.examDay, weekly |-> plan.weekly]
        /\ plan'.items \in Seq(ItemRows(GoalTopics))
    BY <1>1, <1>3, CompleteProgresses
  <2>3. plan' \in PlanRows(GoalTopics) /\ plan'.number = plan.number
    BY <1>1, <2>2, PlanOf DEF PlanRows
  <2>4. GoalTopics' = GoalTopics
    BY <2>1 DEF GoalTopics
  <2> QED BY <1>1, <2>1, <2>3, <2>4 DEF TypeInv
<1>4. ASSUME NEW time \in Moves, TimePasses(time) PROVE TypeInv'
  <2>1. now' \in Int /\ UNCHANGED <<profile, plan, replans>>
    BY <1>4, ConstantsAssumption DEF TimePasses
  <2> QED BY <1>1, <2>1 DEF TypeInv, GoalTopics
<1>5. ASSUME NEW examDay \in NewDays, NEW weekly \in NewWeekly, ChangeGoal(examDay, weekly)
      PROVE  TypeInv'
  <2>1. /\ UNCHANGED <<plan, now, replans>>
        /\ profile' = [profile EXCEPT !.examDay = examDay, !.weekly = weekly]
    BY <1>5 DEF ChangeGoal
  <2>2. profile' \in GoalRows /\ GoalTopics' = GoalTopics
    BY <1>1, <2>1, GoalStays
  <2> QED BY <1>1, <2>1, <2>2 DEF TypeInv
<1>6. ASSUME Replan PROVE TypeInv'
  <2>1. UNCHANGED <<profile, now>> /\ replans' = replans + 1 /\ replans < MaxReplans /\ plan # NoPlan
    BY <1>6 DEF Replan
  <2>2. /\ plan' = [number |-> plan.number + 1, total |-> ReplannedTotal(profile, now),
                    items |-> plan'.items, from |-> now, examDay |-> profile.examDay,
                    weekly |-> profile.weekly]
        /\ plan'.items \in Seq(ItemRows(GoalTopics))
    BY <1>6, ReplanMakes
  <2>3. ReplannedTotal(profile, now) \in Nat /\ profile.examDay \in Int /\ profile.weekly \in Minutes
    BY <1>1, GoalOf, ReplannedInTime
  <2>4. plan' \in PlanRows(GoalTopics) /\ plan'.number = plan.number + 1
    BY <1>1, <2>2, <2>3 DEF PlanRows
  <2>5. GoalTopics' = GoalTopics
    BY <2>1 DEF GoalTopics
  <2> QED BY <1>1, <2>1, <2>4, <2>5 DEF TypeInv
<1>7. CASE UNCHANGED vars
  BY <1>1, <1>7 DEF TypeInv, GoalTopics, vars
<1>8. profile.weekly \in Minutes /\ NewWeekly \subseteq Minutes
  BY <1>1, GoalOf, ConstantsAssumption
<1> QED BY <1>2, <1>3, <1>4, <1>5, <1>6, <1>7, <1>8 DEF Next

LEMMA TypeInit == Init => TypeInv
<1> SUFFICES ASSUME Init PROVE TypeInv
  OBVIOUS
<1>1. profile \in GoalRows /\ now \in Int /\ replans = 0 /\ plan = NoPlan
  BY ConstantsAssumption DEF Init
<1>2. NoPlan \in PlanRows(GoalTopics) /\ NoPlan.number = 0
  <2>1. <<>> \in Seq(ItemRows(GoalTopics)) /\ 1200 \in Minutes
    BY DEF Minutes
  <2> QED BY <2>1 DEF NoPlan, PlanRows
<1> QED BY <1>1, <1>2, ConstantsAssumption DEF TypeInv

LEMMA TypeAlways == Spec => []TypeInv
BY TypeInit, TypeStep, PTL DEF Spec

LEMMA TypeInvImplies == TypeInv => TypeOK
<1> SUFFICES ASSUME TypeInv PROVE TypeOK
  OBVIOUS
<1>1. plan.items \in Seq(ItemRows(GoalTopics))
  BY PlanOf DEF TypeInv
<1>2. ASSUME NEW i \in DOMAIN plan.items
      PROVE  LET item == plan.items[i] IN
             /\ item.type \in ItemTypes /\ item.minutes \in Nat \ {0}
             /\ item.week \in Nat \ {0} /\ item.day \in Nat /\ item.done \in BOOLEAN
  <2>1. plan.items[i] \in ItemRows(GoalTopics)
    BY <1>1, LenProperties, ElementOfSeq
  <2> QED BY <2>1, RowOf
<1>3. plan.number \in 0..(MaxReplans + 1)
  BY ConstantsAssumption DEF TypeInv
<1> QED BY <1>2, <1>3 DEF TypeInv, TypeOK

\* Profile, plan and items stay well formed: weeks, days and minutes of every item are positive,
\* whatever the days, the weekly minutes and the exam day are (generator 24-76, 209-311; replanner
\* 17-144).
THEOREM TypeCorrect == Spec => []TypeOK
BY TypeAlways, TypeInvImplies, PTL

LEMMA ReplanStepHolds == TypeInv /\ [Next]_vars => ReplanStep
<1> SUFFICES ASSUME TypeInv, [Next]_vars, plan # NoPlan, plan'.number # plan.number
             PROVE  ReplanStep
  BY DEF ReplanStep
<1>1. plan \in PlanRows(GoalTopics) /\ profile \in GoalRows /\ now \in Int
  BY DEF TypeInv
<1>2. Replan
  <2>1. ASSUME NEW pick, Complete(pick) PROVE FALSE
    BY <1>1, <2>1, CompleteProgresses
  <2>2. ASSUME NEW weekly, Generate(weekly) PROVE FALSE
    BY <2>2 DEF Generate
  <2>3. UNCHANGED plan => FALSE
    OBVIOUS
  <2> QED BY <2>1, <2>2, <2>3 DEF Next, TimePasses, ChangeGoal, vars
<1> DEFINE old == plan.items
           new == plan'.items
<1>3. /\ plan'.total = ReplannedTotal(profile, now)
      /\ new \in Seq(ItemRows(GoalTopics)) /\ InWeeks(new, profile, now)
  BY <1>2, ReplanMakes
<1>4. PICK p : Redone(new, old, p)
  BY <1>2, ReplanMakes
<1>5. old \in Seq(ItemRows(GoalTopics))
  BY <1>1, PlanOf
<1> HIDE DEF old, new
<1>6. /\ Len(new) = Len(old) /\ DOMAIN new = 1..Len(old) /\ DOMAIN old = 1..Len(old)
      /\ \A i \in 1..Len(old) : old[i] \in ItemRows(GoalTopics) /\ new[i] \in ItemRows(GoalTopics)
  BY <1>3, <1>4, <1>5, LenProperties, ElementOfSeq DEF Redone
<1>7. ASSUME NEW i \in 1..Len(old)
      PROVE  /\ p[i] \in 1..Len(old) /\ p[p[i]] = i
             /\ new[i].type = old[p[i]].type /\ new[i].topic = old[p[i]].topic
             /\ new[i].minutes = old[p[i]].minutes /\ new[i].done = old[p[i]].done
             /\ old[p[i]].done => new[i] = old[p[i]]
  BY <1>4 DEF Redone
<1> DEFINE Olds == {old[i] : i \in DOMAIN old}
           News == {new[i] : i \in DOMAIN new}
           What(items) == {<<item.type, item.topic, item.minutes>> : item \in items}
<1>8. ASSUME NEW item \in Olds
      PROVE  \E other \in News :
                /\ other.type = item.type /\ other.topic = item.topic
                /\ other.minutes = item.minutes /\ (item.done => other = item)
  <2>1. PICK i \in 1..Len(old) : item = old[i]
    BY <1>6
  <2>2. p[i] \in 1..Len(old) /\ p[p[i]] = i
    BY <1>7
  <2>3. new[p[i]] \in News
    BY <1>6, <2>2
  <2> QED BY <1>7, <2>1, <2>2, <2>3
<1>9. ASSUME NEW item \in News
      PROVE  \E other \in Olds :
                /\ other.type = item.type /\ other.topic = item.topic
                /\ other.minutes = item.minutes /\ (item.done => other = item)
  <2>1. PICK i \in 1..Len(old) : item = new[i]
    BY <1>6
  <2>2. p[i] \in 1..Len(old) /\ old[p[i]] \in Olds
    BY <1>6, <1>7
  <2> QED BY <1>7, <2>1, <2>2
<1> HIDE DEF Olds, News
<1>10. {item \in Olds : item.done} = {item \in News : item.done}
  <2>1. ASSUME NEW item \in Olds, item.done PROVE item \in News
    BY <1>8, <2>1
  <2>2. ASSUME NEW item \in News, item.done PROVE item \in Olds
    BY <1>9, <2>2
  <2> QED BY <2>1, <2>2
<1>11. What(Olds) = What(News)
  <2>1. ASSUME NEW item \in Olds PROVE <<item.type, item.topic, item.minutes>> \in What(News)
    BY <1>8
  <2>2. ASSUME NEW item \in News PROVE <<item.type, item.topic, item.minutes>> \in What(Olds)
    BY <1>9
  <2> QED BY <2>1, <2>2
<1>12. ASSUME NEW item \in News, ~item.done PROVE item.week \in CurrentWeek(now)..plan'.total
  <2>1. PICK i \in 1..Len(new) : item = new[i]
    BY <1>6 DEF News
  <2> QED BY <1>3, <1>12, <2>1 DEF InWeeks
<1> QED BY <1>6, <1>10, <1>11, <1>12 DEF ReplanStep, Olds, News, old, new

\* A replanning keeps what is completed as it was, in whatever order it reads the items, plans
\* everything else again and nothing else, and nothing before the current week or after the last
\* (replanner 29-40, 46-124).
THEOREM Replanning == Spec => ReplanKeeps
<1>1. TypeInv /\ [Next]_vars => [ReplanStep]_vars
  BY ReplanStepHolds
<1> QED BY <1>1, TypeAlways, PTL DEF Spec, ReplanKeeps

-----------------------------------------------------------------------------
(* A new plan, item by item.                                                *)

\* Item i is one of a topic,
OfTopic(items, topics, weeks, i) ==
    \E t \in 1..Len(topics) :
       \/ i = 2 * t - 1 /\ items[i] = LearnOf(topics[t], weeks[t])
       \/ i = 2 * t /\ items[i] = PracticeOf(topics[t], weeks[t])

\* or one of a week after the learning weeks.
OfWeek(items, topics, weekly, total, i) ==
    LET learnt == LearnWeeks(total)
        reviewed == learnt + ReviewWeeks(total)
    IN  \/ \E w \in (learnt + 1)..reviewed :
              /\ i = 2 * Len(topics) + (w - learnt)
              /\ items[i] = WeeklyOf("REVIEW", w, weekly, 480)
        \/ \E w \in (reviewed + 1)..total :
              /\ i = 2 * Len(topics) + (w - learnt)
              /\ items[i] = WeeklyOf("SIMULATE", w, weekly, 600)

LEMMA FreshCases ==
    ASSUME NEW topics, Len(topics) \in Nat \ {0}, NEW items, NEW weeks, NEW weekly,
           NEW total \in 4..60, Fresh(items, topics, weeks, weekly, total),
           NEW i \in 1..Len(items)
    PROVE  OfTopic(items, topics, weeks, i) \/ OfWeek(items, topics, weekly, total, i)
<1> DEFINE n == Len(topics)
           learnt == LearnWeeks(total)
           review == ReviewWeeks(total)
<1>1. /\ n \in Nat \ {0} /\ learnt \in Nat \ {0} /\ review \in Nat \ {0} /\ learnt + review < total
      /\ total \in Nat
  <2>1. learnt \in Nat \ {0} /\ review \in Nat \ {0} /\ learnt + review < total
    BY PhasesOfTotal
  <2> HIDE DEF learnt, review
  <2> QED BY <2>1
<1>2. /\ Len(items) = 2 * n + (total - learnt)
      /\ \A t \in 1..n : /\ items[2 * t - 1] = LearnOf(topics[t], weeks[t])
                         /\ items[2 * t] = PracticeOf(topics[t], weeks[t])
      /\ \A w \in (learnt + 1)..(learnt + review) :
            items[2 * n + (w - learnt)] = WeeklyOf("REVIEW", w, weekly, 480)
      /\ \A w \in (learnt + review + 1)..total :
            items[2 * n + (w - learnt)] = WeeklyOf("SIMULATE", w, weekly, 600)
  BY DEF Fresh
<1> HIDE DEF n, learnt, review
<1>3. i \in Int /\ i >= 1 /\ i <= 2 * n + (total - learnt)
  BY <1>1, <1>2
<1>4. CASE i <= 2 * n
  <2>1. PICK t \in Int : t = (i + 1) \div 2
    BY <1>3
  <2>2. (i = 2 * t - 1 \/ i = 2 * t) /\ t \in 1..n
    BY <1>1, <1>3, <1>4, <2>1
  <2>3. OfTopic(items, topics, weeks, i)
    <3>1. /\ items[2 * t - 1] = LearnOf(topics[t], weeks[t])
          /\ items[2 * t] = PracticeOf(topics[t], weeks[t])
      BY <1>2, <2>2
    <3>2. \/ i = 2 * t - 1 /\ items[i] = LearnOf(topics[t], weeks[t])
          \/ i = 2 * t /\ items[i] = PracticeOf(topics[t], weeks[t])
      BY <2>2, <3>1
    <3> QED BY <2>2, <3>2 DEF n, OfTopic
  <2> QED BY <2>3
<1>5. CASE i > 2 * n
  <2>1. PICK w : w = i - 2 * n + learnt
    OBVIOUS
  <2>2. w \in Int /\ i = 2 * n + (w - learnt) /\ w >= learnt + 1 /\ w <= total
    BY <1>1, <1>3, <1>5, <2>1
  <2>3. w \in (learnt + 1)..(learnt + review) \/ w \in (learnt + review + 1)..total
    BY <1>1, <2>2
  <2>4. CASE w \in (learnt + 1)..(learnt + review)
    <3>1. items[i] = WeeklyOf("REVIEW", w, weekly, 480)
      BY <1>2, <2>2, <2>4
    <3> QED BY <2>2, <2>4, <3>1 DEF n, learnt, review, OfWeek
  <2>5. CASE w \in (learnt + review + 1)..total
    <3>1. items[i] = WeeklyOf("SIMULATE", w, weekly, 600)
      BY <1>2, <2>2, <2>5
    <3> QED BY <2>2, <2>5, <3>1 DEF n, learnt, review, OfWeek
  <2> QED BY <2>3, <2>4, <2>5
<1> QED BY <1>1, <1>3, <1>4, <1>5

LEMMA LearnFields ==
    ASSUME NEW t, NEW w
    PROVE  /\ LearnOf(t, w).type = "LEARN" /\ LearnOf(t, w).topic = t.topic
           /\ LearnOf(t, w).week = w /\ LearnOf(t, w).day = FirstDay(w)
           /\ LearnOf(t, w).minutes = LearnMinutes(t)
BY DEF LearnOf, Item

LEMMA PracticeFields ==
    ASSUME NEW t, NEW w
    PROVE  /\ PracticeOf(t, w).type = "PRACTICE" /\ PracticeOf(t, w).topic = t.topic
           /\ PracticeOf(t, w).week = w /\ PracticeOf(t, w).day = FirstDay(w) + 2
           /\ PracticeOf(t, w).minutes = PracticeMinutes(t)
BY DEF PracticeOf, Item

LEMMA WeeklyFields ==
    ASSUME NEW type, NEW w, NEW weekly, NEW cap
    PROVE  /\ WeeklyOf(type, w, weekly, cap).type = type
           /\ WeeklyOf(type, w, weekly, cap).week = w
           /\ WeeklyOf(type, w, weekly, cap).day = FirstDay(w)
BY DEF WeeklyOf, Item

-----------------------------------------------------------------------------
(* The whole curriculum.                                                    *)

OfType(items, type) == {i \in DOMAIN items : items[i].type \in {type}}
TopicsAt(items, S) == {items[i].topic : i \in S}

Covers(items, curriculum) ==
    /\ TopicsAt(items, OfType(items, "LEARN")) = TopicsAt(items, OfType(items, "PRACTICE"))
    /\ \A type \in {"LEARN", "PRACTICE"} :
         /\ curriculum \subseteq TopicsAt(items, OfType(items, type))
         /\ \A i, j \in OfType(items, type) : items[i].topic = items[j].topic => i = j

LEMMA FreshCovers ==
    ASSUME NEW exam \in Exams, NEW track \in Tracks,
           NEW topics, topics = SortedTopics(exam, track),
           NEW items, DOMAIN items = 1..Len(items), NEW weeks, NEW weekly, NEW total \in 4..60,
           Fresh(items, topics, weeks, weekly, total)
    PROVE  Covers(items, Curriculum(exam, track))
<1> DEFINE n == Len(topics)
<1>1. /\ n \in Nat \ {0}
      /\ \A i, j \in 1..n : topics[i].topic = topics[j].topic => i = j
      /\ Curriculum(exam, track) \subseteq {topics[i].topic : i \in 1..n}
  BY CurriculumOf
<1>2. ASSUME NEW t \in 1..n
      PROVE  /\ 2 * t - 1 \in 1..Len(items) /\ 2 * t \in 1..Len(items)
             /\ items[2 * t - 1] = LearnOf(topics[t], weeks[t])
             /\ items[2 * t] = PracticeOf(topics[t], weeks[t])
  <2>1. /\ Len(items) = 2 * n + (total - LearnWeeks(total))
        /\ items[2 * t - 1] = LearnOf(topics[t], weeks[t])
        /\ items[2 * t] = PracticeOf(topics[t], weeks[t])
    BY DEF Fresh
  <2>2. PICK left : left = total - LearnWeeks(total)
    OBVIOUS
  <2>3. left \in Nat
    <3>1. /\ LearnWeeks(total) \in Nat /\ ReviewWeeks(total) \in Nat
          /\ LearnWeeks(total) + ReviewWeeks(total) < total
      BY PhasesOfTotal
    <3>2. total \in Nat
      OBVIOUS
    <3> QED BY <2>2, <3>1, <3>2
  <2> HIDE DEF n
  <2> QED BY <1>1, <2>1, <2>2, <2>3
<1>3. OfType(items, "LEARN") = {2 * t - 1 : t \in 1..n}
  <2>1. ASSUME NEW i \in OfType(items, "LEARN") PROVE \E t \in 1..n : i = 2 * t - 1
    <3>1. i \in 1..Len(items) /\ items[i].type = "LEARN"
      BY DEF OfType
    <3>2. CASE OfTopic(items, topics, weeks, i)
      BY <3>1, <3>2, LearnFields, PracticeFields DEF OfTopic
    <3>3. CASE OfWeek(items, topics, weekly, total, i)
      BY <3>1, <3>3, WeeklyFields DEF OfWeek
    <3> QED BY <1>1, <3>1, <3>2, <3>3, FreshCases
  <2>2. ASSUME NEW t \in 1..n PROVE 2 * t - 1 \in OfType(items, "LEARN")
    BY <1>2, LearnFields, PracticeFields DEF OfType
  <2> QED BY <2>1, <2>2
<1>4. OfType(items, "PRACTICE") = {2 * t : t \in 1..n}
  <2>1. ASSUME NEW i \in OfType(items, "PRACTICE") PROVE \E t \in 1..n : i = 2 * t
    <3>1. i \in 1..Len(items) /\ items[i].type = "PRACTICE"
      BY DEF OfType
    <3>2. CASE OfTopic(items, topics, weeks, i)
      BY <3>1, <3>2, LearnFields, PracticeFields DEF OfTopic
    <3>3. CASE OfWeek(items, topics, weekly, total, i)
      BY <3>1, <3>3, WeeklyFields DEF OfWeek
    <3> QED BY <1>1, <3>1, <3>2, <3>3, FreshCases
  <2>2. ASSUME NEW t \in 1..n PROVE 2 * t \in OfType(items, "PRACTICE")
    BY <1>2, LearnFields, PracticeFields DEF OfType
  <2> QED BY <2>1, <2>2
<1>5. ASSUME NEW t \in 1..n
      PROVE  items[2 * t - 1].topic = topics[t].topic /\ items[2 * t].topic = topics[t].topic
  BY <1>2, LearnFields, PracticeFields
<1> HIDE DEF n
<1>6. /\ TopicsAt(items, OfType(items, "LEARN")) = {topics[t].topic : t \in 1..n}
      /\ TopicsAt(items, OfType(items, "PRACTICE")) = {topics[t].topic : t \in 1..n}
  BY <1>3, <1>4, <1>5 DEF TopicsAt
<1>7. ASSUME NEW i \in OfType(items, "LEARN"), NEW j \in OfType(items, "LEARN"),
             items[i].topic = items[j].topic
      PROVE  i = j
  <2>1. PICK t \in 1..n : i = 2 * t - 1
    BY <1>3
  <2>2. PICK u \in 1..n : j = 2 * u - 1
    BY <1>3
  <2> QED BY <1>1, <1>5, <1>7, <2>1, <2>2
<1>8. ASSUME NEW i \in OfType(items, "PRACTICE"), NEW j \in OfType(items, "PRACTICE"),
             items[i].topic = items[j].topic
      PROVE  i = j
  <2>1. PICK t \in 1..n : i = 2 * t
    BY <1>4
  <2>2. PICK u \in 1..n : j = 2 * u
    BY <1>4
  <2> QED BY <1>1, <1>5, <1>8, <2>1, <2>2
<1> QED BY <1>1, <1>6, <1>7, <1>8 DEF Covers

\* The items in another place, with the types and topics they had.
LEMMA CoversStays ==
    ASSUME NEW old, NEW new, DOMAIN old = 1..Len(old), DOMAIN new = 1..Len(old),
           NEW p \in [1..Len(old) -> 1..Len(old)],
           \A i \in 1..Len(old) : /\ p[p[i]] = i
                                  /\ new[i].type = old[p[i]].type
                                  /\ new[i].topic = old[p[i]].topic,
           NEW curriculum, Covers(old, curriculum)
    PROVE  Covers(new, curriculum)
<1>1. ASSUME NEW type, NEW i \in OfType(new, type)
      PROVE  p[i] \in OfType(old, type) /\ new[i].topic = old[p[i]].topic /\ p[p[i]] = i
  BY DEF OfType
<1>2. ASSUME NEW type, NEW i \in OfType(old, type)
      PROVE  p[i] \in OfType(new, type) /\ old[i].topic = new[p[i]].topic
  BY DEF OfType
<1>3. ASSUME NEW type PROVE TopicsAt(new, OfType(new, type)) = TopicsAt(old, OfType(old, type))
  <2>1. ASSUME NEW i \in OfType(new, type) PROVE new[i].topic \in TopicsAt(old, OfType(old, type))
    BY <1>1 DEF TopicsAt
  <2>2. ASSUME NEW i \in OfType(old, type) PROVE old[i].topic \in TopicsAt(new, OfType(new, type))
    BY <1>2 DEF TopicsAt
  <2> QED BY <2>1, <2>2 DEF TopicsAt
<1>4. ASSUME NEW type \in {"LEARN", "PRACTICE"}, NEW i \in OfType(new, type),
             NEW j \in OfType(new, type), new[i].topic = new[j].topic
      PROVE  i = j
  <2>1. p[i] = p[j]
    BY <1>1, <1>4 DEF Covers
  <2> QED BY <1>1, <2>1
<1> QED BY <1>3, <1>4 DEF Covers

LEMMA CoversAsOf ==
    CoversCurriculum <=>
       (plan # NoPlan => Covers(plan.items, Curriculum(profile.exam, profile.track)))
BY DEF CoversCurriculum, Covers, Planned, TopicsIn, OfType, TopicsAt

LEMMA ItemsOfPlan ==
    ASSUME NEW topics, NEW items \in Seq(ItemRows(topics))
    PROVE  /\ Len(items) \in Nat /\ DOMAIN items = 1..Len(items)
           /\ \A i \in 1..Len(items) : items[i] \in ItemRows(topics)
BY LenProperties, ElementOfSeq

LEMMA CoverStep == TypeInv /\ CoversCurriculum /\ [Next]_vars => CoversCurriculum'
<1> SUFFICES ASSUME TypeInv, CoversCurriculum, [Next]_vars PROVE CoversCurriculum'
  OBVIOUS
<1>1. /\ profile \in GoalRows /\ plan \in PlanRows(GoalTopics)
      /\ plan.items \in Seq(ItemRows(GoalTopics))
  BY PlanOf DEF TypeInv
<1>2. plan # NoPlan => Covers(plan.items, Curriculum(profile.exam, profile.track))
  BY CoversAsOf
<1>3. (plan # NoPlan => Covers(plan.items, Curriculum(profile.exam, profile.track)))' => CoversCurriculum'
  BY CoversAsOf, PTL
<1> DEFINE old == plan.items
           new == plan'.items
           taught == Curriculum(profile.exam, profile.track)
<1>4. ASSUME NEW weekly \in Minutes, Generate(weekly) PROVE CoversCurriculum'
  <2>1. PICK goal \in GoalRows, total \in 4..60 :
           /\ goal = [profile EXCEPT !.weekly = weekly]
           /\ plan' = [number |-> 1, total |-> total, items |-> Distributed(goal, total),
                       from |-> 0, examDay |-> profile.examDay, weekly |-> weekly]
    BY <1>1, <1>4, GenerateMakes
  <2>2. /\ goal.exam = profile.exam /\ goal.track = profile.track
        /\ goal.exam \in Exams /\ goal.track \in Tracks
    BY <1>1, <2>1, WithWeekly, GoalOf
  <2>3. PICK topics : topics = SortedTopics(goal.exam, goal.track)
    OBVIOUS
  <2>4. PICK items : items = Distributed(goal, total)
    OBVIOUS
  <2>5. /\ items \in Seq(ItemRows(TopicsTaught(goal.exam, goal.track)))
        /\ \E weeks : Fresh(items, topics, weeks, goal.weekly, total)
    BY <2>3, <2>4, DistributedItems
  <2>6. DOMAIN items = 1..Len(items)
    BY <2>5, ItemsOfPlan
  <2>7. Covers(items, Curriculum(goal.exam, goal.track))
    BY <2>2, <2>3, <2>5, <2>6, FreshCovers
  <2>8. new = items /\ profile' = profile
    BY <1>4, <2>1, <2>4 DEF Generate
  <2> QED BY <1>3, <2>2, <2>7, <2>8
<1>5. ASSUME NEW pick \in Picks, Complete(pick) PROVE CoversCurriculum'
  <2>1. new \in Seq(ItemRows(GoalTopics)) /\ Progressed(new, old)
    BY <1>1, <1>5, CompleteProgresses
  <2>2. profile' = profile /\ plan # NoPlan
    BY <1>5 DEF Complete
  <2>3. PICK p : p = [i \in 1..Len(old) |-> i]
    OBVIOUS
  <2>4. p \in [1..Len(old) -> 1..Len(old)] /\ \A i \in 1..Len(old) : p[i] = i
    BY <2>3
  <2>5. DOMAIN old = 1..Len(old) /\ DOMAIN new = 1..Len(old)
    BY <1>1, <2>1, ItemsOfPlan DEF Progressed
  <2>6. \A i \in 1..Len(old) : /\ p[p[i]] = i /\ new[i].type = old[p[i]].type
                               /\ new[i].topic = old[p[i]].topic
    BY <2>1, <2>4 DEF Progressed
  <2>7. Covers(old, taught)
    BY <1>2, <2>2
  <2> HIDE DEF old, new, taught
  <2>8. Covers(new, taught)
    BY <2>4, <2>5, <2>6, <2>7, CoversStays
  <2> QED BY <1>3, <2>2, <2>8 DEF new, taught
<1>6. ASSUME NEW time \in Moves, TimePasses(time) PROVE CoversCurriculum'
  BY <1>2, <1>3, <1>6 DEF TimePasses
<1>7. ASSUME NEW examDay \in NewDays, NEW weekly \in NewWeekly, ChangeGoal(examDay, weekly)
      PROVE  CoversCurriculum'
  <2>1. profile'.exam = profile.exam /\ profile'.track = profile.track /\ plan' = plan
    BY <1>1, <1>7, GoalStays DEF ChangeGoal
  <2> QED BY <1>2, <1>3, <2>1
<1>8. ASSUME Replan PROVE CoversCurriculum'
  <2>1. /\ new \in Seq(ItemRows(GoalTopics)) /\ \E p : Redone(new, old, p)
    BY <1>8, ReplanMakes
  <2>2. profile' = profile /\ plan # NoPlan
    BY <1>8 DEF Replan
  <2>3. PICK p : Redone(new, old, p)
    BY <2>1
  <2>4. /\ Len(new) = Len(old) /\ p \in [1..Len(old) -> 1..Len(old)]
        /\ \A i \in 1..Len(old) : /\ p[p[i]] = i /\ new[i].type = old[p[i]].type
                                  /\ new[i].topic = old[p[i]].topic
    BY <2>3 DEF Redone
  <2>5. DOMAIN old = 1..Len(old) /\ DOMAIN new = 1..Len(old)
    BY <1>1, <2>1, <2>4, ItemsOfPlan
  <2>6. Covers(old, taught)
    BY <1>2, <2>2
  <2> HIDE DEF old, new, taught
  <2>7. Covers(new, taught)
    BY <2>4, <2>5, <2>6, CoversStays
  <2> QED BY <1>3, <2>2, <2>7 DEF new, taught
<1>9. CASE UNCHANGED vars
  BY <1>2, <1>3, <1>9 DEF vars
<1>10. profile.weekly \in Minutes /\ NewWeekly \subseteq Minutes
  BY <1>1, GoalOf, ConstantsAssumption
<1> QED BY <1>4, <1>5, <1>6, <1>7, <1>8, <1>9, <1>10 DEF Next

\* Whatever happens in whatever order, a plan has the whole curriculum of its track, and each
\* topic is learnt and practised once (generator 78-151, 216-271; replanner 46-124). That the
\* topics chosen for a track are its curriculum is CurriculaAssumption, of the curricula as they
\* are.
THEOREM CurriculumCovered == Spec => []CoversCurriculum
<1>1. Init => CoversCurriculum
  BY DEF Init, CoversCurriculum
<1> QED BY <1>1, CoverStep, TypeAlways, PTL DEF Spec

-----------------------------------------------------------------------------
(* The phases of a new plan.                                                *)

TypesIn(items, types) == {i \in DOMAIN items : items[i].type \in types}

PhasesOf(items, total) ==
    LET learn == TypesIn(items, {"LEARN", "PRACTICE"})
        review == TypesIn(items, {"REVIEW"})
        simulate == TypesIn(items, {"SIMULATE"})
        others == review \cup simulate
    IN  /\ {} \notin {learn, review, simulate}
        /\ \A i \in learn, j \in review, k \in simulate :
              items[i].week < items[j].week /\ items[j].week < items[k].week
        /\ {items[i].week : i \in others} = (total - Cardinality(others) + 1)..total

\* The indices of the items of a new plan by their types, and what their weeks are.
FreshIndices(items, topics, total) ==
    LET learnt == LearnWeeks(total)
        reviewed == learnt + ReviewWeeks(total)
        T == 2 * Len(topics)
    IN  /\ TypesIn(items, {"LEARN", "PRACTICE"}) = 1..T
        /\ TypesIn(items, {"REVIEW"}) = (T + 1)..(T + (reviewed - learnt))
        /\ TypesIn(items, {"SIMULATE"}) = (T + (reviewed - learnt) + 1)..(T + (total - learnt))
        /\ \A i \in 1..T : items[i].week \in 1..learnt
        /\ \A i \in (T + 1)..(T + (total - learnt)) : items[i].week = learnt + (i - T)

LEMMA FreshIndexed ==
    ASSUME NEW topics, Len(topics) \in Nat \ {0}, NEW items, DOMAIN items = 1..Len(items),
           NEW weeks, NEW weekly, NEW total \in 4..60,
           WellPlaced(weeks, 1..Len(topics), TopicLoads(topics), weekly, 1, LearnWeeks(total)),
           Len(TopicLoads(topics)) = Len(topics),
           Fresh(items, topics, weeks, weekly, total)
    PROVE  FreshIndices(items, topics, total)
<1> DEFINE learnt == LearnWeeks(total)
           review == ReviewWeeks(total)
           T == 2 * Len(topics)
<1>1. learnt \in Nat \ {0} /\ review \in Nat \ {0} /\ learnt + review < total
  BY PhasesOfTotal
<1>2. total \in Nat /\ T \in Nat
  OBVIOUS
<1>3. Len(items) = T + (total - learnt)
  BY DEF Fresh
<1>4. \A t \in 1..Len(topics) : weeks[t] \in 1..learnt
  BY DEF WellPlaced
<1>5. ASSUME NEW i \in 1..Len(items), OfTopic(items, topics, weeks, i)
      PROVE  /\ i \in 1..T /\ items[i].type \in {"LEARN", "PRACTICE"}
             /\ items[i].week \in 1..learnt
  <2>1. PICK t \in 1..Len(topics) :
           \/ i = 2 * t - 1 /\ items[i] = LearnOf(topics[t], weeks[t])
           \/ i = 2 * t /\ items[i] = PracticeOf(topics[t], weeks[t])
    BY <1>5 DEF OfTopic
  <2>2. i \in 1..T
    BY <2>1
  <2>3. items[i].type \in {"LEARN", "PRACTICE"} /\ items[i].week = weeks[t]
    BY <2>1, LearnFields, PracticeFields
  <2> QED BY <1>4, <2>2, <2>3
<1>6. ASSUME NEW i \in 1..Len(items), OfWeek(items, topics, weekly, total, i)
      PROVE  /\ items[i].week = learnt + (i - T)
             /\ \/ i \in (T + 1)..(T + review) /\ items[i].type = "REVIEW"
                \/ i \in (T + review + 1)..(T + (total - learnt)) /\ items[i].type = "SIMULATE"
  <2>1. CASE \E w \in (learnt + 1)..(learnt + review) :
                i = T + (w - learnt) /\ items[i] = WeeklyOf("REVIEW", w, weekly, 480)
    <3>1. PICK w \in (learnt + 1)..(learnt + review) :
             i = T + (w - learnt) /\ items[i] = WeeklyOf("REVIEW", w, weekly, 480)
      BY <2>1
    <3>2. items[i].type = "REVIEW" /\ items[i].week = w
      BY <3>1, WeeklyFields
    <3> HIDE DEF T, learnt, review
    <3>3. i \in (T + 1)..(T + review) /\ w = learnt + (i - T)
      BY <1>1, <1>2, <3>1
    <3> QED BY <3>2, <3>3
  <2>2. CASE \E w \in (learnt + review + 1)..total :
                i = T + (w - learnt) /\ items[i] = WeeklyOf("SIMULATE", w, weekly, 600)
    <3>1. PICK w \in (learnt + review + 1)..total :
             i = T + (w - learnt) /\ items[i] = WeeklyOf("SIMULATE", w, weekly, 600)
      BY <2>2
    <3>2. items[i].type = "SIMULATE" /\ items[i].week = w
      BY <3>1, WeeklyFields
    <3> HIDE DEF T, learnt, review
    <3>3. i \in (T + review + 1)..(T + (total - learnt)) /\ w = learnt + (i - T)
      BY <1>1, <1>2, <3>1
    <3> QED BY <3>2, <3>3
  <2> QED BY <1>6, <2>1, <2>2 DEF OfWeek
<1>7. ASSUME NEW i \in 1..Len(items)
      PROVE  \/ /\ i \in 1..T /\ items[i].type \in {"LEARN", "PRACTICE"}
                /\ items[i].week \in 1..learnt
             \/ /\ items[i].week = learnt + (i - T)
                /\ \/ i \in (T + 1)..(T + review) /\ items[i].type = "REVIEW"
                   \/ i \in (T + review + 1)..(T + (total - learnt)) /\ items[i].type = "SIMULATE"
  BY <1>5, <1>6, FreshCases
<1>8. (learnt + review) - learnt = review
  BY <1>1
<1> HIDE DEF learnt, review, T
<1>9. ASSUME NEW i
      PROVE  i \in 1..Len(items) <=> i \in 1..T \/ i \in (T + 1)..(T + review)
                                     \/ i \in (T + review + 1)..(T + (total - learnt))
  BY <1>1, <1>2, <1>3
<1>10. ASSUME NEW i \in 1..Len(items)
       PROVE  /\ i \in 1..T <=> items[i].type \in {"LEARN", "PRACTICE"}
              /\ i \in (T + 1)..(T + review) <=> items[i].type = "REVIEW"
              /\ i \in (T + review + 1)..(T + (total - learnt)) <=> items[i].type = "SIMULATE"
  <2>1. /\ ~(i \in 1..T /\ i \in (T + 1)..(T + review))
        /\ ~(i \in 1..T /\ i \in (T + review + 1)..(T + (total - learnt)))
        /\ ~(i \in (T + 1)..(T + review) /\ i \in (T + review + 1)..(T + (total - learnt)))
    BY <1>1, <1>2
  <2> QED BY <1>7, <2>1
<1>11. TypesIn(items, {"LEARN", "PRACTICE"}) = 1..T
  BY <1>9, <1>10 DEF TypesIn
<1>12. TypesIn(items, {"REVIEW"}) = (T + 1)..(T + review)
  BY <1>9, <1>10 DEF TypesIn
<1>13. TypesIn(items, {"SIMULATE"}) = (T + review + 1)..(T + (total - learnt))
  BY <1>9, <1>10 DEF TypesIn
<1>14. ASSUME NEW i \in 1..T PROVE items[i].week \in 1..learnt
  <2>1. i \in 1..Len(items) /\ i \notin (T + 1)..(T + review)
        /\ i \notin (T + review + 1)..(T + (total - learnt))
    BY <1>1, <1>2, <1>3
  <2> QED BY <1>7, <2>1
<1>15. ASSUME NEW i \in (T + 1)..(T + (total - learnt)) PROVE items[i].week = learnt + (i - T)
  <2>1. i \in 1..Len(items) /\ i \notin 1..T
    BY <1>1, <1>2, <1>3
  <2> QED BY <1>7, <2>1
<1> QED BY <1>8, <1>11, <1>12, <1>13, <1>14, <1>15 DEF FreshIndices, learnt, review, T

LEMMA FreshPhases ==
    ASSUME NEW topics, Len(topics) \in Nat \ {0}, NEW items, NEW total \in 4..60,
           FreshIndices(items, topics, total)
    PROVE  /\ PhasesOf(items, total)
           /\ total - Cardinality(TypesIn(items, {"REVIEW", "SIMULATE"})) = LearnWeeks(total)
<1> DEFINE learnt == LearnWeeks(total)
           review == ReviewWeeks(total)
           T == 2 * Len(topics)
           others == TypesIn(items, {"REVIEW"}) \cup TypesIn(items, {"SIMULATE"})
<1>1. learnt \in Nat \ {0} /\ review \in Nat \ {0} /\ learnt + review < total
  BY PhasesOfTotal
<1>2. total \in Nat /\ T \in Nat \ {0}
  OBVIOUS
<1>3. /\ TypesIn(items, {"LEARN", "PRACTICE"}) = 1..T
      /\ TypesIn(items, {"REVIEW"}) = (T + 1)..(T + ((learnt + review) - learnt))
      /\ TypesIn(items, {"SIMULATE"}) = (T + ((learnt + review) - learnt) + 1)..(T + (total - learnt))
      /\ \A i \in 1..T : items[i].week \in 1..learnt
      /\ \A i \in (T + 1)..(T + (total - learnt)) : items[i].week = learnt + (i - T)
  BY DEF FreshIndices
<1>4. (learnt + review) - learnt = review
  BY <1>1
<1>5. TypesIn(items, {"REVIEW", "SIMULATE"}) = others
  BY DEF TypesIn
<1> HIDE DEF learnt, review, T
<1>6. others = (T + 1)..(T + (total - learnt))
  BY <1>1, <1>2, <1>3, <1>4
<1>7. Cardinality(others) = total - learnt
  <2>1. PICK a \in Int, b \in Int : a = T + 1 /\ b = T + (total - learnt)
    BY <1>1, <1>2
  <2>2. others = a..b /\ a <= b /\ b - a + 1 = total - learnt
    BY <1>1, <1>2, <1>6, <2>1
  <2>3. Cardinality(a..b) = b - a + 1
    BY <2>2, FS_Interval
  <2> QED BY <2>2, <2>3
<1>8. {} \notin {TypesIn(items, {"LEARN", "PRACTICE"}), TypesIn(items, {"REVIEW"}),
                 TypesIn(items, {"SIMULATE"})}
  <2>1. /\ T \in 1..T /\ T + 1 \in (T + 1)..(T + review)
        /\ T + (total - learnt) \in (T + review + 1)..(T + (total - learnt))
    BY <1>1, <1>2
  <2> QED BY <1>3, <1>4, <2>1
<1>9. ASSUME NEW i \in TypesIn(items, {"LEARN", "PRACTICE"}), NEW j \in TypesIn(items, {"REVIEW"}),
             NEW k \in TypesIn(items, {"SIMULATE"})
      PROVE  items[i].week < items[j].week /\ items[j].week < items[k].week
  <2>1. items[i].week \in 1..learnt
    BY <1>3
  <2>2. j \in (T + 1)..(T + review) /\ k \in (T + review + 1)..(T + (total - learnt))
    BY <1>3, <1>4
  <2>3. j \in (T + 1)..(T + (total - learnt)) /\ k \in (T + 1)..(T + (total - learnt))
    BY <1>1, <1>2, <2>2
  <2>4. items[j].week = learnt + (j - T) /\ items[k].week = learnt + (k - T)
    BY <1>3, <2>3
  <2> QED BY <1>1, <1>2, <2>1, <2>2, <2>4
<1>10. {items[i].week : i \in others} = (learnt + 1)..total
  <2>1. ASSUME NEW i \in others PROVE items[i].week \in (learnt + 1)..total
    <3>1. i \in (T + 1)..(T + (total - learnt)) /\ items[i].week = learnt + (i - T)
      BY <1>3, <1>6
    <3> QED BY <1>1, <1>2, <3>1
  <2>2. ASSUME NEW w \in (learnt + 1)..total PROVE \E i \in others : items[i].week = w
    <3>1. T + (w - learnt) \in (T + 1)..(T + (total - learnt)) /\ learnt + ((T + (w - learnt)) - T) = w
      BY <1>1, <1>2
    <3> QED BY <1>3, <1>6, <3>1
  <2> QED BY <2>1, <2>2
<1>11. total - Cardinality(others) + 1 = learnt + 1 /\ total - Cardinality(others) = learnt
  BY <1>1, <1>2, <1>7
<1> HIDE DEF others
<1>12. PhasesOf(items, total)
  BY <1>8, <1>9, <1>10, <1>11 DEF PhasesOf, others
<1> QED BY <1>5, <1>11, <1>12 DEF learnt

\* The properties of a version, of its items.
PhasesAsOf(p) == p.number = 1 => PhasesOf(p.items, p.total)

LEMMA PhasesAre == PhasesInOrder <=> PhasesAsOf(plan)
BY DEF PhasesInOrder, Generated, Planned, Week, PhasesAsOf, PhasesOf, TypesIn

LEMMA ProgressedSame ==
    ASSUME NEW old, NEW new, DOMAIN old = 1..Len(old), DOMAIN new = 1..Len(new),
           Progressed(new, old)
    PROVE  /\ DOMAIN new = DOMAIN old
           /\ \A types : TypesIn(new, types) = TypesIn(old, types)
           /\ \A i \in DOMAIN old : new[i].week = old[i].week /\ new[i].day = old[i].day
           /\ MinutesOf(new) = MinutesOf(old) /\ Open(new) \in SUBSET Open(old)
<1>1. /\ DOMAIN new = DOMAIN old
      /\ \A i \in DOMAIN old : /\ new[i].type = old[i].type /\ new[i].week = old[i].week
                               /\ new[i].day = old[i].day /\ new[i].minutes = old[i].minutes
                               /\ old[i].done => new[i].done
  BY DEF Progressed
<1> QED BY <1>1 DEF TypesIn, MinutesOf, Open, IsOpen

LEMMA PhasesStay ==
    ASSUME NEW old, NEW new, DOMAIN old = 1..Len(old), DOMAIN new = 1..Len(new),
           Progressed(new, old), NEW total, PhasesOf(old, total)
    PROVE  PhasesOf(new, total)
<1>1. /\ DOMAIN new = DOMAIN old
      /\ \A types : TypesIn(new, types) = TypesIn(old, types)
      /\ \A i \in DOMAIN old : new[i].week = old[i].week
  BY ProgressedSame
<1> DEFINE learn == TypesIn(old, {"LEARN", "PRACTICE"})
           review == TypesIn(old, {"REVIEW"})
           simulate == TypesIn(old, {"SIMULATE"})
           others == review \cup simulate
<1>2. /\ TypesIn(new, {"LEARN", "PRACTICE"}) = learn
      /\ TypesIn(new, {"REVIEW"}) = review /\ TypesIn(new, {"SIMULATE"}) = simulate
  BY <1>1
<1>3. /\ learn \in SUBSET DOMAIN old /\ review \in SUBSET DOMAIN old
      /\ simulate \in SUBSET DOMAIN old
  BY DEF TypesIn
<1>4. /\ {} \notin {learn, review, simulate}
      /\ \A i \in learn, j \in review, k \in simulate :
            old[i].week < old[j].week /\ old[j].week < old[k].week
      /\ {old[i].week : i \in others} = (total - Cardinality(others) + 1)..total
  BY DEF PhasesOf
<1> HIDE DEF learn, review, simulate
<1>5. \A i \in learn, j \in review, k \in simulate :
            new[i].week < new[j].week /\ new[j].week < new[k].week
  BY <1>1, <1>3, <1>4
<1>6. {new[i].week : i \in others} = {old[i].week : i \in others}
  BY <1>1, <1>3
<1> HIDE DEF others
<1>7. {new[i].week : i \in others} = (total - Cardinality(others) + 1)..total
  BY <1>4, <1>6
<1> QED BY <1>2, <1>4, <1>5, <1>7 DEF PhasesOf, others

\* A new plan of these topics, for as many weeks as there are up to the exam day.
IsNew(p, topics, weeks, total, examDay, weekly) ==
    /\ p.number = 1 /\ p.total = total /\ p.examDay = examDay /\ p.weekly = weekly
    /\ total \in 4..60 /\ total = TotalWeeks(examDay) /\ examDay \in Int /\ weekly \in Minutes
    /\ Len(topics) \in Nat \ {0} /\ DOMAIN topics = 1..Len(topics)
    /\ \A i \in 1..Len(topics) : topics[i].hours \in Nat \ {0}
    /\ DOMAIN p.items = 1..Len(p.items)
    /\ \A i \in DOMAIN p.items : p.items[i].minutes \in Nat
    /\ IsLoads(TopicLoads(topics)) /\ Len(TopicLoads(topics)) = Len(topics)
    /\ WellPlaced(weeks, 1..Len(topics), TopicLoads(topics), weekly, 1, LearnWeeks(total))
    /\ Fresh(p.items, topics, weeks, weekly, total)

LEMMA NewPlan ==
    ASSUME TypeInv, NEW weekly \in Minutes, Generate(weekly)
    PROVE  \E topics, weeks, total : IsNew(plan', topics, weeks, total, profile.examDay, weekly)
<1>1. profile \in GoalRows
  BY DEF TypeInv
<1>2. PICK goal \in GoalRows, total \in 4..60 :
         /\ goal = [profile EXCEPT !.weekly = weekly] /\ total = TotalWeeks(profile.examDay)
         /\ plan' = [number |-> 1, total |-> total, items |-> Distributed(goal, total),
                     from |-> 0, examDay |-> profile.examDay, weekly |-> weekly]
         /\ Distributed(goal, total) \in Seq(ItemRows(GoalTopics))
  BY <1>1, GenerateMakes
<1>3. goal.exam \in Exams /\ goal.track \in Tracks /\ goal.weekly = weekly
  BY <1>1, <1>2, WithWeekly, GoalOf
<1>4. PICK topics : topics = SortedTopics(goal.exam, goal.track)
  OBVIOUS
<1>5. /\ Len(topics) \in Nat \ {0} /\ DOMAIN topics = 1..Len(topics)
      /\ \A i \in 1..Len(topics) : topics[i].hours \in Nat \ {0}
  BY <1>3, <1>4, CurriculumOf
<1>6. PICK items : items = Distributed(goal, total)
  OBVIOUS
<1>7. plan' = [number |-> 1, total |-> total, items |-> items, from |-> 0,
               examDay |-> profile.examDay, weekly |-> weekly]
  BY <1>2, <1>6
<1>8. plan'.items = items
  BY <1>7
<1>9. PICK weeks :
           /\ IsLoads(TopicLoads(topics)) /\ Len(TopicLoads(topics)) = Len(topics)
           /\ WellPlaced(weeks, 1..Len(topics), TopicLoads(topics), weekly, 1, LearnWeeks(total))
           /\ Fresh(items, topics, weeks, weekly, total)
  BY <1>3, <1>4, <1>6, DistributedItems
<1>10. /\ DOMAIN items = 1..Len(items)
       /\ \A i \in DOMAIN items : items[i].minutes \in Nat
  <2>1. items \in Seq(ItemRows(GoalTopics))
    BY <1>2, <1>6
  <2> QED BY <2>1, ItemsOfPlan, RowOf
<1>11. /\ plan'.number = 1 /\ plan'.total = total /\ plan'.examDay = profile.examDay
       /\ plan'.weekly = weekly
  BY <1>7
<1>12. total = TotalWeeks(profile.examDay) /\ profile.examDay \in Int
  BY <1>1, <1>2, GoalOf
<1>13. PICK p : p = plan'
  OBVIOUS
<1>14. IsNew(p, topics, weeks, total, profile.examDay, weekly)
  BY <1>5, <1>8, <1>9, <1>10, <1>11, <1>12, <1>13 DEF IsNew
<1> QED BY <1>13, <1>14

LEMMA PhasesStep == TypeInv /\ PhasesInOrder /\ [Next]_vars => PhasesInOrder'
<1> SUFFICES ASSUME TypeInv, PhasesInOrder, [Next]_vars PROVE PhasesInOrder'
  OBVIOUS
<1>1. /\ profile \in GoalRows /\ plan \in PlanRows(GoalTopics) /\ plan.number \in Nat
      /\ plan.items \in Seq(ItemRows(GoalTopics)) /\ PhasesAsOf(plan)
  BY PlanOf, PhasesAre DEF TypeInv
<1>2. PhasesAsOf(plan)' => PhasesInOrder'
  BY PhasesAre, PTL
<1>3. plan.number = 0 => plan = NoPlan
  BY DEF TypeInv
<1>4. ASSUME NEW weekly \in Minutes, Generate(weekly) PROVE PhasesInOrder'
  <2>1. PICK topics, weeks, total : IsNew(plan', topics, weeks, total, profile.examDay, weekly)
    BY <1>4, NewPlan
  <2>2. FreshIndices(plan'.items, topics, total)
    BY <2>1, FreshIndexed DEF IsNew
  <2>3. PhasesOf(plan'.items, total) /\ plan'.total = total
    BY <2>1, <2>2, FreshPhases DEF IsNew
  <2> QED BY <1>2, <2>3 DEF PhasesAsOf
<1>5. ASSUME NEW pick \in Picks, Complete(pick) PROVE PhasesInOrder'
  <2>1. /\ plan'.number = plan.number /\ plan'.total = plan.total
        /\ plan'.items \in Seq(ItemRows(GoalTopics))
        /\ Progressed(plan'.items, plan.items)
    <3>1. /\ plan' = [number |-> plan.number, total |-> plan.total, items |-> plan'.items,
                      from |-> plan.from, examDay |-> plan.examDay, weekly |-> plan.weekly]
          /\ plan'.items \in Seq(ItemRows(GoalTopics))
          /\ Progressed(plan'.items, plan.items)
      BY <1>1, <1>5, CompleteProgresses
    <3> QED BY <3>1
  <2>2. /\ DOMAIN plan.items = 1..Len(plan.items)
        /\ DOMAIN plan'.items = 1..Len(plan'.items)
    BY <1>1, <2>1, ItemsOfPlan
  <2>3. PhasesAsOf(plan')
    BY <1>1, <2>1, <2>2, PhasesStay DEF PhasesAsOf
  <2> QED BY <1>2, <2>3 DEF PhasesAsOf
<1>6. ASSUME Replan PROVE PhasesInOrder'
  <2>1. plan'.number = plan.number + 1
    <3>1. plan' = [number |-> plan.number + 1, total |-> ReplannedTotal(profile, now),
                   items |-> plan'.items, from |-> now, examDay |-> profile.examDay,
                   weekly |-> profile.weekly]
      BY <1>6, ReplanMakes
    <3> QED BY <3>1
  <2>2. plan.number # 0
    BY <1>3, <1>6 DEF Replan
  <2> QED BY <1>1, <1>2, <2>1, <2>2 DEF PhasesAsOf
<1>7. ASSUME plan' = plan PROVE PhasesInOrder'
  BY <1>1, <1>2, <1>7 DEF PhasesAsOf
<1>8. profile.weekly \in Minutes /\ NewWeekly \subseteq Minutes
  BY <1>1, GoalOf, ConstantsAssumption
<1> QED BY <1>4, <1>5, <1>6, <1>7, <1>8 DEF Next, TimePasses, ChangeGoal, vars

\* However few weeks there are to the exam, a new plan learns, then reviews, then simulates the
\* exam, each in weeks of its own and up to the last week; completing items does not change that
\* (generator 209-211, 273-308).
THEOREM PhasesKept == Spec => []PhasesInOrder
<1>1. Init => PhasesInOrder
  BY DEF Init, NoPlan, PhasesInOrder, Generated
<1> QED BY <1>1, PhasesStep, TypeAlways, PTL DEF Spec

-----------------------------------------------------------------------------
(* The minutes of the weeks, and the days.                                  *)

\* Those of the items `which' in a week.
InWeek(items, which, week) == {i \in which : items[i].week = week}

LastLearnt(items, total) == total - Cardinality(TypesIn(items, {"REVIEW", "SIMULATE"}))

FitNew(items, total, weekly) ==
    LET topics == TypesIn(items, {"LEARN", "PRACTICE"}) IN
    \A week \in {items[i].week : i \in topics} : week < LastLearnt(items, total) =>
        LET S == InWeek(items, topics, week) IN
        \/ SumFunctionOnSet(MinutesOf(items), S) - items[Max(S)].minutes <= weekly
        \/ Cardinality(S) = 2

FitAgain(items, total, weekly) ==
    \A week \in {items[i].week : i \in Open(items)} : week < total =>
        LET S == InWeek(items, Open(items), week) IN
        SumFunctionOnSet(MinutesOf(items), S) <= weekly \/ Cardinality(S) = 1

OnTimeNew(items, examDay) ==
    Weeks(examDay) >= 4 => \A i \in DOMAIN items : items[i].day <= examDay

OnTimeAgain(items, from, examDay) ==
    from \in 0..(2 * examDay) =>
        \A i \in DOMAIN items : IsOpen(items[i]) => items[i].day <= examDay

FitsAsOf(p) ==
    IF p.number = 1 THEN FitNew(p.items, p.total, p.weekly) /\ OnTimeNew(p.items, p.examDay)
    ELSE FitAgain(p.items, p.total, p.weekly) /\ OnTimeAgain(p.items, p.from, p.examDay)

LEMMA WeeksAre ==
    WeeksFit <=> (plan # NoPlan => IF plan.number = 1
                                   THEN FitNew(plan.items, plan.total, plan.weekly)
                                   ELSE FitAgain(plan.items, plan.total, plan.weekly))
<1>1. CASE plan.number = 1
  BY <1>1 DEF WeeksFit, Generated, Planned, Week, WeekFits, Load, FitNew, LastLearnt, TypesIn,
              MinutesOf, InWeek
<1>2. CASE plan.number # 1
  BY <1>2 DEF WeeksFit, Generated, Planned, Week, WeekFits, Load, FitAgain, MinutesOf, InWeek
<1> QED BY <1>1, <1>2

LEMMA FitsAre == FitsTime <=> (plan # NoPlan => FitsAsOf(plan))
<1>1. BeforeExam <=> (plan # NoPlan => IF plan.number = 1
                                      THEN OnTimeNew(plan.items, plan.examDay)
                                      ELSE OnTimeAgain(plan.items, plan.from, plan.examDay))
  BY DEF BeforeExam, Generated, OnTimeNew, OnTimeAgain
<1> QED BY <1>1, WeeksAre DEF FitsTime, FitsAsOf

\* The items of the topics T, of those of n topics.
ItemsOf(T, n) == {i \in 1..(2 * n) : (i + 1) \div 2 \in T}

LEMMA ItemsOfMore ==
    ASSUME NEW n \in Nat, NEW T \in SUBSET (1..n), NEW t \in 1..n, t \notin T
    PROVE  /\ ItemsOf(T \cup {t}, n) = (ItemsOf(T, n) \cup {2 * t - 1}) \cup {2 * t}
           /\ 2 * t - 1 \notin ItemsOf(T, n) /\ 2 * t \notin ItemsOf(T, n) \cup {2 * t - 1}
<1>1. /\ 2 * t - 1 \in 1..(2 * n) /\ ((2 * t - 1) + 1) \div 2 = t
      /\ 2 * t \in 1..(2 * n) /\ (2 * t + 1) \div 2 = t
  BY Pairs
<1>2. ASSUME NEW i \in 1..(2 * n), (i + 1) \div 2 = t PROVE i = 2 * t - 1 \/ i = 2 * t
  BY <1>2
<1>3. ItemsOf(T \cup {t}, n) \in SUBSET ((ItemsOf(T, n) \cup {2 * t - 1}) \cup {2 * t})
  BY <1>2 DEF ItemsOf
<1>4. ((ItemsOf(T, n) \cup {2 * t - 1}) \cup {2 * t}) \in SUBSET ItemsOf(T \cup {t}, n)
  BY <1>1 DEF ItemsOf
<1>5. 2 * t # 2 * t - 1
  OBVIOUS
<1>6. 2 * t - 1 \notin ItemsOf(T, n) /\ 2 * t \notin ItemsOf(T, n)
  BY <1>1 DEF ItemsOf
<1> QED BY <1>3, <1>4, <1>5, <1>6

\* The items of topics take what the topics add.
LEMMA SumOfTopics ==
    ASSUME NEW n \in Nat, NEW w, DOMAIN w \in SUBSET Int, w \in [DOMAIN w -> Int],
           1..(2 * n) \in SUBSET DOMAIN w,
           NEW adds \in [1..n -> Int], \A t \in 1..n : adds[t] = w[2 * t - 1] + w[2 * t],
           NEW A \in SUBSET (1..n)
    PROVE  SumFunctionOnSet(w, ItemsOf(A, n)) = SumFunctionOnSet(adds, A)
<1> DEFINE G == {T \in SUBSET A : SumFunctionOnSet(w, ItemsOf(T, n)) = SumFunctionOnSet(adds, T)}
<1>1. ASSUME NEW T \in SUBSET A PROVE IsFiniteSet(T) /\ IsFiniteSet(ItemsOf(T, n))
  <2>1. IsFiniteSet(1..n) /\ IsFiniteSet(1..(2 * n))
    <3>1. 2 * n \in Int /\ 1 \in Int /\ n \in Int
      OBVIOUS
    <3> QED BY <3>1, FS_Interval
  <2>2. T \in SUBSET (1..n) /\ ItemsOf(T, n) \in SUBSET (1..(2 * n))
    BY DEF ItemsOf
  <2> QED BY <2>1, <2>2, FS_Subset
<1>2. {} \in G
  <2>1. ItemsOf({}, n) = {}
    BY DEF ItemsOf
  <2>2. SumFunctionOnSet(w, {}) = 0 /\ SumFunctionOnSet(adds, {}) = 0
    BY SumOfNone
  <2> QED BY <2>1, <2>2
<1>3. ASSUME NEW T \in G, NEW t \in A \ T PROVE T \cup {t} \in G
  <2>1. PICK a \in Int, b \in Int : a = 2 * t - 1 /\ b = 2 * t
    OBVIOUS
  <2>2. T \in SUBSET A /\ T \in SUBSET (1..n) /\ t \in 1..n /\ t \notin T
    OBVIOUS
  <2>3. a \in 1..(2 * n) /\ b \in 1..(2 * n)
    BY <2>1, <2>2
  <2>4. PICK I : I = ItemsOf(T, n)
    OBVIOUS
  <2>5. /\ ItemsOf(T \cup {t}, n) = (I \cup {a}) \cup {b}
        /\ a \notin I /\ b \notin I \cup {a}
    BY <2>1, <2>2, <2>4, ItemsOfMore
  <2>6. IsFiniteSet(I) /\ I \in SUBSET DOMAIN w /\ IsFiniteSet(T)
    BY <1>1, <2>2, <2>4 DEF ItemsOf
  <2>7. SumFunctionOnSet(w, I \cup {a}) = SumFunctionOnSet(w, I) + w[a] /\ SumFunctionOnSet(w, I) \in Int
    BY <2>3, <2>5, <2>6, SumAdds
  <2>8. PICK J : J = I \cup {a}
    OBVIOUS
  <2>9. IsFiniteSet(J) /\ J \in SUBSET DOMAIN w /\ b \in DOMAIN w \ J
    BY <2>3, <2>5, <2>6, <2>8, FS_AddElement
  <2>10. SumFunctionOnSet(w, J \cup {b}) = SumFunctionOnSet(w, J) + w[b]
    <3>1. IsFiniteSet(J \cup {b}) /\ J \cup {b} \in SUBSET DOMAIN w /\ b \notin J
      BY <2>9, FS_AddElement
    <3>2. Weighs(w, J \cup {b})
      BY <3>1 DEF Weighs
    <3> QED BY <3>1, <3>2, SumMore
  <2>11. SumFunctionOnSet(adds, T \cup {t}) = SumFunctionOnSet(adds, T) + adds[t]
    <3>1. IsFiniteSet(T \cup {t}) /\ T \cup {t} \in SUBSET (1..n)
      BY <2>2, <2>6, FS_AddElement
    <3>2. Weighs(adds, T \cup {t})
      BY <3>1 DEF Weighs
    <3> QED BY <2>2, <3>2, SumMore
  <2>12. adds[t] = w[a] + w[b] /\ w[a] \in Int /\ w[b] \in Int
    BY <2>1, <2>2, <2>3
  <2>13. SumFunctionOnSet(w, I) = SumFunctionOnSet(adds, T)
    BY <2>4
  <2>14. SumFunctionOnSet(w, (I \cup {a}) \cup {b}) = SumFunctionOnSet(adds, T \cup {t})
    BY <2>7, <2>8, <2>10, <2>11, <2>12, <2>13
  <2> QED BY <2>2, <2>5, <2>14
<1>4. IsFiniteSet(A) /\ G \in SUBSET SUBSET A
  BY <1>1
<1>5. A \in G
  <2> HIDE DEF G
  <2> QED BY <1>2, <1>3, <1>4, SetInduction
<1> QED BY <1>5

LEMMA MaxIs ==
    ASSUME NEW S \in SUBSET Int, NEW m \in S, \A j \in S : j <= m
    PROVE  Max(S) = m
<1>1. \E x \in S : \A y \in S : x >= y
  <2>1. \A y \in S : m >= y
    OBVIOUS
  <2> QED BY <2>1
<1>2. Max(S) \in S /\ \A y \in S : Max(S) >= y
  BY <1>1 DEF Max
<1>3. Max(S) \in Int /\ m \in Int /\ Max(S) >= m /\ Max(S) <= m
  BY <1>2
<1> QED BY <1>3

LEMMA MaxOfSome ==
    ASSUME NEW n, NEW S \in SUBSET (1..n), S # {}, n \in Nat
    PROVE  Max(S) \in S
<1> DEFINE Above == {b \in Nat : \A j \in S : j <= b}
<1>1. n \in Above /\ Above \in SUBSET Nat
  OBVIOUS
<1>2. PICK m \in Above : \A b \in Above : m <= b
  <2> HIDE DEF Above
  <2> QED BY <1>1, LeastOf
<1>3. m \in S
  <2>1. CASE m \notin S
    <3>1. PICK i \in S : TRUE
      OBVIOUS
    <3>2. i \in Nat /\ i >= 1 /\ i <= m /\ m \in Nat
      OBVIOUS
    <3>3. ASSUME NEW j \in S PROVE j <= m - 1
      <4>1. j \in Int /\ j <= m /\ j # m
        BY <2>1
      <4> QED BY <3>2, <4>1
    <3>4. m - 1 \in Above
      BY <3>2, <3>3
    <3>5. m <= m - 1
      BY <1>2, <3>4
    <3> QED BY <3>2, <3>5
  <2> QED BY <2>1
<1>4. Max(S) = m
  <2>1. S \in SUBSET Int /\ \A j \in S : j <= m
    OBVIOUS
  <2> QED BY <1>3, <2>1, MaxIs
<1> QED BY <1>3, <1>4

\* The same, of names for the numbers.
LEMMA PhasesNamed ==
    ASSUME NEW total \in 4..60
    PROVE  \E learnt, review \in Nat :
              /\ learnt = LearnWeeks(total) /\ review = ReviewWeeks(total)
              /\ learnt >= 1 /\ review >= 1 /\ learnt + review < total
<1>1. PICK learnt, review : learnt = LearnWeeks(total) /\ review = ReviewWeeks(total)
  OBVIOUS
<1>2. learnt \in Nat \ {0} /\ review \in Nat \ {0} /\ learnt + review < total
  BY <1>1, PhasesOfTotal
<1>3. learnt >= 1 /\ review >= 1
  BY <1>2
<1> QED BY <1>1, <1>2, <1>3

\* Of what weeks, and of how many minutes, the items of topic t are.
LEMMA TopicItems ==
    ASSUME NEW p, NEW topics, NEW weeks, NEW total, NEW examDay, NEW weekly,
           IsNew(p, topics, weeks, total, examDay, weekly), NEW t \in 1..Len(topics)
    PROVE  /\ p.items[2 * t - 1].week = weeks[t] /\ p.items[2 * t].week = weeks[t]
           /\ p.items[2 * t - 1].day = FirstDay(weeks[t])
           /\ p.items[2 * t].day = FirstDay(weeks[t]) + 2
           /\ TopicLoads(topics)[t][1] = p.items[2 * t - 1].minutes
           /\ TopicLoads(topics)[t][2] = p.items[2 * t - 1].minutes + p.items[2 * t].minutes
           /\ p.items[2 * t - 1].minutes \in Nat /\ p.items[2 * t].minutes \in Nat
           /\ 2 * t - 1 \in DOMAIN p.items /\ 2 * t \in DOMAIN p.items
<1>1. p.items[2 * t - 1] = LearnOf(topics[t], weeks[t]) /\ p.items[2 * t] = PracticeOf(topics[t], weeks[t])
  BY DEF IsNew, Fresh
<1>2. /\ TopicLoads(topics)[t][1] = LearnMinutes(topics[t])
      /\ TopicLoads(topics)[t][2] = LearnMinutes(topics[t]) + PracticeMinutes(topics[t])
  <2>1. t \in DOMAIN topics
    BY DEF IsNew
  <2> QED BY <2>1 DEF TopicLoads
<1>3. 2 * t - 1 \in DOMAIN p.items /\ 2 * t \in DOMAIN p.items
  <2>1. /\ Len(topics) \in Nat /\ total \in 4..60 /\ DOMAIN p.items = 1..Len(p.items)
        /\ Len(p.items) = 2 * Len(topics) + (total - LearnWeeks(total))
    BY DEF IsNew, Fresh
  <2>2. PICK learnt \in Nat, review \in Nat :
           learnt = LearnWeeks(total) /\ review >= 1 /\ learnt + review < total
    BY <2>1, PhasesNamed
  <2>3. Len(p.items) = 2 * Len(topics) + (total - learnt)
    BY <2>1, <2>2
  <2> QED BY <2>1, <2>2, <2>3
<1>4. p.items[2 * t - 1].minutes \in Nat /\ p.items[2 * t].minutes \in Nat
  BY <1>3 DEF IsNew
<1> QED BY <1>1, <1>2, <1>3, <1>4, LearnFields, PracticeFields

LEMMA NewIsOnTime ==
    ASSUME NEW p, NEW topics, NEW weeks, NEW total, NEW examDay, NEW weekly,
           IsNew(p, topics, weeks, total, examDay, weekly)
    PROVE  OnTimeNew(p.items, examDay)
<1> SUFFICES ASSUME Weeks(examDay) >= 4, NEW i \in DOMAIN p.items PROVE p.items[i].day <= examDay
  BY DEF OnTimeNew
<1>1. /\ total \in 4..60 /\ total = TotalWeeks(examDay) /\ examDay \in Int
      /\ Len(topics) \in Nat \ {0} /\ i \in 1..Len(p.items)
      /\ Fresh(p.items, topics, weeks, weekly, total)
  BY DEF IsNew
<1>2. (total - 1) * 7 < examDay
  BY <1>1, TotalWeeksInTime
<1>3. PICK learnt \in Nat, review \in Nat :
         /\ learnt = LearnWeeks(total) /\ review = ReviewWeeks(total)
         /\ learnt >= 1 /\ review >= 1 /\ learnt + review < total
  BY <1>1, PhasesNamed
<1>4. CASE OfTopic(p.items, topics, weeks, i)
  <2>1. PICK t \in 1..Len(topics) : i = 2 * t - 1 \/ i = 2 * t
    BY <1>4 DEF OfTopic
  <2>2. weeks[t] \in 1..learnt
    BY <1>3 DEF IsNew, WellPlaced
  <2>3. p.items[i].day = FirstDay(weeks[t]) \/ p.items[i].day = FirstDay(weeks[t]) + 2
    BY <2>1, TopicItems
  <2>4. PICK week \in 1..learnt : week = weeks[t]
    BY <2>2
  <2>5. p.items[i].day = (week - 1) * 7 \/ p.items[i].day = (week - 1) * 7 + 2
    BY <2>3, <2>4 DEF FirstDay
  <2>6. (week - 1) * 7 + 2 <= (total - 1) * 7
    BY <1>1, <1>3
  <2> QED BY <1>1, <1>2, <2>5, <2>6
<1>5. CASE OfWeek(p.items, topics, weekly, total, i)
  <2>1. PICK w \in (learnt + 1)..total :
           \/ p.items[i] = WeeklyOf("REVIEW", w, weekly, 480)
           \/ p.items[i] = WeeklyOf("SIMULATE", w, weekly, 600)
    <3>1. \/ \E w \in (learnt + 1)..(learnt + review) :
                p.items[i] = WeeklyOf("REVIEW", w, weekly, 480)
          \/ \E w \in (learnt + review + 1)..total :
                p.items[i] = WeeklyOf("SIMULATE", w, weekly, 600)
      BY <1>3, <1>5 DEF OfWeek
    <3>2. /\ (learnt + 1)..(learnt + review) \in SUBSET ((learnt + 1)..total)
          /\ (learnt + review + 1)..total \in SUBSET ((learnt + 1)..total)
      BY <1>1, <1>3
    <3> QED BY <3>1, <3>2
  <2>2. p.items[i].day = FirstDay(w) /\ FirstDay(w) = (w - 1) * 7
    BY <2>1, WeeklyFields DEF FirstDay
  <2> QED BY <1>1, <1>2, <1>3, <2>2
<1> QED BY <1>1, <1>4, <1>5, FreshCases

LEMMA NewFits ==
    ASSUME NEW p, NEW topics, NEW weeks, NEW total, NEW examDay, NEW weekly,
           IsNew(p, topics, weeks, total, examDay, weekly)
    PROVE  FitNew(p.items, total, weekly)
<1> DEFINE n == Len(topics)
           items == p.items
           loads == TopicLoads(topics)
           w == MinutesOf(items)
           learnt == LearnWeeks(total)
<1>1. /\ n \in Nat \ {0} /\ total \in 4..60 /\ DOMAIN items = 1..Len(items) /\ Len(loads) = n
      /\ weekly \in Int /\ IsLoads(loads)
      /\ \A k \in 1..learnt : k < learnt => Fits(AtWeek(weeks, 1..n, k), loads, weekly)
      /\ \A t \in 1..n : weeks[t] \in 1..learnt
      /\ Len(weeks) = n
  BY DEF IsNew, WellPlaced, Minutes
<1>2. FreshIndices(items, topics, total)
  BY FreshIndexed DEF IsNew
<1>3. TypesIn(items, {"LEARN", "PRACTICE"}) = 1..(2 * n) /\ LastLearnt(items, total) = learnt
  BY <1>1, <1>2, FreshPhases DEF FreshIndices, LastLearnt
<1>4. \A t \in 1..n : /\ items[2 * t - 1].week = weeks[t] /\ items[2 * t].week = weeks[t]
                      /\ loads[t][1] = items[2 * t - 1].minutes
                      /\ loads[t][2] = items[2 * t - 1].minutes + items[2 * t].minutes
                      /\ items[2 * t - 1].minutes \in Nat /\ items[2 * t].minutes \in Nat
                      /\ 2 * t - 1 \in DOMAIN items /\ 2 * t \in DOMAIN items
  BY TopicItems
<1>5. /\ w \in [DOMAIN w -> Int] /\ DOMAIN w = DOMAIN items
      /\ \A j \in DOMAIN items : w[j] = items[j].minutes
  BY DEF IsNew, MinutesOf
<1> HIDE DEF n, items, loads, w, learnt
<1>6. ASSUME NEW j \in 1..(2 * n)
      PROVE  \E t \in 1..n : t = (j + 1) \div 2 /\ (j = 2 * t - 1 \/ j = 2 * t)
                             /\ items[j].week = weeks[t] /\ j \in DOMAIN items
  <2>1. PICK t \in Int : t = (j + 1) \div 2
    OBVIOUS
  <2>2. t \in 1..n /\ (j = 2 * t - 1 \/ j = 2 * t)
    BY <1>1, <2>1
  <2> QED BY <1>4, <2>1, <2>2
<1>7. SUFFICES ASSUME NEW i \in 1..(2 * n), NEW k, k = items[i].week, k < learnt
               PROVE  LET S == InWeek(items, 1..(2 * n), k) IN
                      \/ SumFunctionOnSet(w, S) - items[Max(S)].minutes <= weekly
                      \/ Cardinality(S) = 2
  BY <1>3 DEF FitNew, items, w
<1> DEFINE S == InWeek(items, 1..(2 * n), k)
           A == AtWeek(weeks, 1..n, k)
<1>8. A = {t \in 1..n : weeks[t] = k}
  BY <1>1 DEF AtWeek
<1>9. S = ItemsOf(A, n) /\ i \in S
  <2>1. ASSUME NEW j \in 1..(2 * n) PROVE items[j].week = k <=> (j + 1) \div 2 \in A
    BY <1>6, <1>8
  <2> QED BY <1>7, <2>1 DEF InWeek, ItemsOf
<1>10. PICK t \in A : weeks[t] = k
  BY <1>6, <1>7, <1>8
<1>11. k \in 1..learnt /\ A \in SUBSET (1..n)
  BY <1>1, <1>8, <1>10
<1>12. PICK m \in A :
          /\ \A j \in A : j <= m
          /\ \/ A = {m}
             \/ SumFunctionOnSet(Adds(loads), A) - loads[m][2] + loads[m][1] <= weekly
  BY <1>1, <1>7, <1>10, <1>11 DEF Fits
<1>13. m \in 1..n
  BY <1>11
<1>14. Max(S) = 2 * m
  <2>1. ASSUME NEW j \in S PROVE j <= 2 * m
    <3>1. j \in 1..(2 * n) /\ (j + 1) \div 2 \in A
      BY <1>9 DEF ItemsOf
    <3>2. (j + 1) \div 2 <= m
      BY <1>12, <3>1
    <3> QED BY <1>13, <3>1, <3>2
  <2>2. 2 * m \in S
    BY <1>1, <1>9, <1>13, Pairs DEF ItemsOf
  <2>3. S \in SUBSET Int
    BY DEF InWeek
  <2> HIDE DEF S
  <2> QED BY <2>1, <2>2, <2>3, MaxIs
<1>15. SumFunctionOnSet(w, S) = SumFunctionOnSet(Adds(loads), A)
  <2>1. Adds(loads) \in [1..n -> Int] /\ \A j \in 1..n : Adds(loads)[j] = w[2 * j - 1] + w[2 * j]
    <3>1. Adds(loads) = [j \in 1..n |-> loads[j][2]]
      BY <1>1 DEF Adds
    <3>2. \A j \in 1..n : loads[j][2] = w[2 * j - 1] + w[2 * j] /\ loads[j][2] \in Int
      BY <1>4, <1>5
    <3> QED BY <3>1, <3>2
  <2>2. DOMAIN w \in SUBSET Int /\ 1..(2 * n) \in SUBSET DOMAIN w
    BY <1>1, <1>5, <1>6
  <2>3. PICK adds : adds = Adds(loads)
    OBVIOUS
  <2>4. adds \in [1..n -> Int] /\ \A t1 \in 1..n : adds[t1] = w[2 * t1 - 1] + w[2 * t1]
    BY <2>1, <2>3
  <2>5. n \in Nat
    BY <1>1
  <2> HIDE DEF S, A
  <2>6. SumFunctionOnSet(w, ItemsOf(A, n)) = SumFunctionOnSet(adds, A)
    BY <1>5, <1>11, <2>2, <2>4, <2>5, SumOfTopics
  <2> QED BY <1>9, <2>3, <2>6
<1>16. CASE A = {m}
  <2>1. S = {2 * m - 1, 2 * m}
    <3>1. /\ ItemsOf({} \cup {m}, n) = (ItemsOf({}, n) \cup {2 * m - 1}) \cup {2 * m}
      BY <1>1, <1>13, ItemsOfMore
    <3>2. ItemsOf({}, n) = {}
      BY DEF ItemsOf
    <3> QED BY <1>9, <1>16, <3>1, <3>2
  <2>2. Cardinality({2 * m - 1, 2 * m}) = 2
    <3>1. PICK a \in Int, b \in Int : a = 2 * m - 1 /\ b = 2 * m /\ a # b
      BY <1>13
    <3>2. PICK one : one = {a} /\ IsFiniteSet(one) /\ Cardinality(one) = 1
      BY FS_Singleton
    <3>3. Cardinality(one \cup {b}) = Cardinality(one) + 1
      <4>1. b \notin one
        BY <3>1, <3>2
      <4> QED BY <3>2, <4>1, FS_AddElement
    <3>4. PICK both : both = {2 * m - 1, 2 * m}
      OBVIOUS
    <3>5. both = one \cup {b}
      BY <3>1, <3>2, <3>4
    <3>6. Cardinality(both) = 2
      BY <3>2, <3>3, <3>5
    <3> QED BY <3>4, <3>6
  <2> QED BY <2>1, <2>2
<1>17. CASE SumFunctionOnSet(Adds(loads), A) - loads[m][2] + loads[m][1] <= weekly
  <2>1. SumFunctionOnSet(w, S) \in Int
    <3>1. S \in SUBSET DOMAIN w /\ IsFiniteSet(S)
      <4>1. S \in SUBSET (1..(2 * n)) /\ S \in SUBSET DOMAIN w
        BY <1>5, <1>6 DEF InWeek
      <4>2. IsFiniteSet(1..(2 * n))
        <5>1. 1 \in Int /\ 2 * n \in Int
          BY <1>1
        <5> QED BY <5>1, FS_Interval
      <4> QED BY <4>1, <4>2, FS_Subset
    <3> QED BY <1>5, <3>1, SumIsInt
  <2>2. /\ items[2 * m].minutes \in Nat /\ loads[m][1] \in Nat
        /\ loads[m][2] = loads[m][1] + items[2 * m].minutes
    BY <1>4, <1>13
  <2> QED BY <1>1, <1>14, <1>15, <1>17, <2>1, <2>2
<1> QED BY <1>12, <1>16, <1>17

\* So does a replan.
LEMMA AgainFits ==
    ASSUME NEW goal \in GoalRows, NEW time \in Int, NEW items, DOMAIN items = 1..Len(items),
           \A i \in DOMAIN items : items[i].week \in Nat,
           InWeeks(items, goal, time), NEW total, total = ReplannedTotal(goal, time)
    PROVE  FitAgain(items, total, goal.weekly) /\ OnTimeAgain(items, time, goal.examDay)
<1>1. /\ \A i \in DOMAIN items : ~items[i].done => /\ items[i].week \in CurrentWeek(time)..total
                                                   /\ items[i].day = FirstDay(items[i].week)
      /\ \A k \in Nat : k < total => FewOrFit(OpenIn(items, k), MinutesOf(items), goal.weekly)
  BY DEF InWeeks
<1>2. /\ CurrentWeek(time) \in Nat \ {0} /\ total \in Nat /\ goal.examDay \in Int
      /\ time \in 0..(2 * goal.examDay) => (total - 1) * 7 <= goal.examDay
  BY GoalOf, ReplannedInTime
<1>3. ASSUME NEW i \in Open(items), NEW week, week = items[i].week, week < total
      PROVE  LET S == InWeek(items, Open(items), week) IN
             SumFunctionOnSet(MinutesOf(items), S) <= goal.weekly \/ Cardinality(S) = 1
  <2>1. PICK S : S = InWeek(items, Open(items), week)
    OBVIOUS
  <2>2. S = OpenIn(items, week) /\ i \in S /\ week \in Nat
    BY <1>3, <2>1 DEF InWeek, OpenIn, Open, IsOpen
  <2>3. FewOrFit(S, MinutesOf(items), goal.weekly)
    BY <1>1, <1>3, <2>2
  <2>4. CASE \E m \in S : S = {m}
    BY <2>1, <2>4, FS_Singleton
  <2>5. CASE SumFunctionOnSet(MinutesOf(items), S) <= goal.weekly
    BY <2>1, <2>5
  <2> QED BY <2>2, <2>3, <2>4, <2>5 DEF FewOrFit
<1>4. FitAgain(items, total, goal.weekly)
  BY <1>3 DEF FitAgain
<1>5. ASSUME time \in 0..(2 * goal.examDay), NEW i \in DOMAIN items, IsOpen(items[i])
      PROVE  items[i].day <= goal.examDay
  <2>1. PICK week \in CurrentWeek(time)..total : week = items[i].week
    BY <1>1, <1>5 DEF IsOpen
  <2>2. items[i].day = (week - 1) * 7
    BY <1>1, <1>5, <2>1 DEF IsOpen, FirstDay
  <2>3. (total - 1) * 7 <= goal.examDay
    BY <1>2, <1>5
  <2>4. week \in Int /\ week <= total
    BY <1>2, <2>1
  <2> QED BY <1>2, <2>2, <2>3, <2>4
<1> QED BY <1>4, <1>5 DEF OnTimeAgain

\* Completing items takes nothing away but from what is open.
LEMMA FitNewStays ==
    ASSUME NEW old, NEW new, DOMAIN old = 1..Len(old), DOMAIN new = 1..Len(new),
           Len(old) \in Nat, Progressed(new, old), NEW total, NEW weekly,
           FitNew(old, total, weekly)
    PROVE  FitNew(new, total, weekly)
<1> DEFINE topics == TypesIn(old, {"LEARN", "PRACTICE"})
<1>1. /\ DOMAIN new = DOMAIN old /\ topics \in SUBSET DOMAIN old
      /\ TypesIn(new, {"LEARN", "PRACTICE"}) = topics
      /\ LastLearnt(new, total) = LastLearnt(old, total)
      /\ \A i \in DOMAIN old : new[i].week = old[i].week
      /\ MinutesOf(new) = MinutesOf(old)
  <2>1. topics \in SUBSET DOMAIN old
    BY DEF TypesIn
  <2>2. /\ DOMAIN new = DOMAIN old
        /\ \A types : TypesIn(new, types) = TypesIn(old, types)
        /\ \A i \in DOMAIN old : new[i].week = old[i].week
        /\ MinutesOf(new) = MinutesOf(old)
    BY ProgressedSame
  <2> QED BY <2>1, <2>2 DEF LastLearnt
<1>2. \A week \in {old[i].week : i \in topics} : week < LastLearnt(old, total) =>
         \/ SumFunctionOnSet(MinutesOf(old), InWeek(old, topics, week))
               - old[Max(InWeek(old, topics, week))].minutes <= weekly
         \/ Cardinality(InWeek(old, topics, week)) = 2
  BY DEF FitNew
<1>3. \A i \in DOMAIN old : new[i].minutes = old[i].minutes
  BY DEF Progressed
<1> HIDE DEF topics
<1>4. ASSUME NEW week \in {new[i].week : i \in topics}, week < LastLearnt(new, total)
      PROVE  \/ SumFunctionOnSet(MinutesOf(new), InWeek(new, topics, week))
                   - new[Max(InWeek(new, topics, week))].minutes <= weekly
             \/ Cardinality(InWeek(new, topics, week)) = 2
  <2>1. PICK i \in topics : week = new[i].week
    BY <1>4
  <2>2. PICK S : S = InWeek(old, topics, week)
    OBVIOUS
  <2>3. InWeek(new, topics, week) = S /\ S \in SUBSET (1..Len(old)) /\ i \in S
    BY <1>1, <2>1, <2>2 DEF InWeek
  <2>4. week \in {old[j].week : j \in topics}
    BY <1>1, <2>1
  <2>5. \/ SumFunctionOnSet(MinutesOf(old), S) - old[Max(S)].minutes <= weekly
        \/ Cardinality(S) = 2
    BY <1>1, <1>2, <1>4, <2>2, <2>4
  <2>6. Max(S) \in S
    BY <2>3, MaxOfSome
  <2>7. new[Max(S)].minutes = old[Max(S)].minutes
    BY <1>1, <1>3, <2>3, <2>6
  <2> QED BY <1>1, <2>3, <2>5, <2>7
<1> QED BY <1>1, <1>4 DEF FitNew

LEMMA FitAgainStays ==
    ASSUME NEW old, NEW new, DOMAIN old = 1..Len(old), Len(old) \in Nat,
           DOMAIN new = 1..Len(new), \A i \in DOMAIN old : old[i].minutes \in Nat,
           Progressed(new, old), NEW total, NEW weekly \in Int, FitAgain(old, total, weekly)
    PROVE  FitAgain(new, total, weekly)
<1>1. /\ DOMAIN new = DOMAIN old /\ Open(new) \in SUBSET Open(old)
      /\ Open(old) \in SUBSET DOMAIN old
      /\ \A i \in DOMAIN old : new[i].week = old[i].week
      /\ MinutesOf(new) = MinutesOf(old)
  BY ProgressedSame DEF Open
<1>2. ASSUME NEW i \in Open(new), NEW week, week = new[i].week, week < total
      PROVE  LET S == InWeek(new, Open(new), week) IN
             SumFunctionOnSet(MinutesOf(new), S) <= weekly \/ Cardinality(S) = 1
  <2>1. PICK T : T = InWeek(new, Open(new), week)
    OBVIOUS
  <2>2. PICK S : S = InWeek(old, Open(old), week)
    OBVIOUS
  <2>3. T \in SUBSET S /\ i \in T /\ S \in SUBSET (1..Len(old))
    BY <1>1, <1>2, <2>1, <2>2 DEF InWeek
  <2>4. IsFiniteSet(S)
    <3>1. 1 \in Int /\ Len(old) \in Int
      OBVIOUS
    <3>2. IsFiniteSet(1..Len(old))
      BY <3>1, FS_Interval
    <3> QED BY <2>3, <3>2, FS_Subset
  <2>5. SumFunctionOnSet(MinutesOf(old), S) <= weekly \/ Cardinality(S) = 1
    <3>1. week \in {old[j].week : j \in Open(old)}
      BY <1>1, <1>2
    <3> QED BY <1>2, <2>2, <3>1 DEF FitAgain
  <2>6. CASE Cardinality(S) = 1
    <3>1. PICK m : S = {m}
      BY <2>4, <2>6, FS_Singleton
    <3>2. T = S
      BY <2>3, <3>1
    <3> QED BY <2>1, <2>6, <3>2
  <2>7. CASE SumFunctionOnSet(MinutesOf(old), S) <= weekly
    <3>1. PICK w : w = MinutesOf(old)
      OBVIOUS
    <3>2. w \in [DOMAIN w -> Nat] /\ DOMAIN w = 1..Len(old)
      BY <3>1 DEF MinutesOf
    <3>3. /\ SumFunctionOnSet(w, T) \in Int /\ SumFunctionOnSet(w, S) \in Int
          /\ SumFunctionOnSet(w, T) <= SumFunctionOnSet(w, S)
      BY <2>3, <2>4, <3>2, SumLess
    <3>4. SumFunctionOnSet(w, T) <= weekly
      BY <2>7, <3>1, <3>3
    <3> QED BY <1>1, <2>1, <3>1, <3>4
  <2> QED BY <2>5, <2>6, <2>7
<1> QED BY <1>2 DEF FitAgain

LEMMA OnTimeStays ==
    ASSUME NEW old, NEW new, DOMAIN old = 1..Len(old), DOMAIN new = 1..Len(new),
           Progressed(new, old), NEW from, NEW examDay
    PROVE  /\ OnTimeNew(old, examDay) => OnTimeNew(new, examDay)
           /\ OnTimeAgain(old, from, examDay) => OnTimeAgain(new, from, examDay)
<1>1. /\ DOMAIN new = DOMAIN old /\ Open(new) \in SUBSET Open(old)
      /\ \A i \in DOMAIN old : new[i].day = old[i].day
  BY ProgressedSame
<1> QED BY <1>1 DEF OnTimeNew, OnTimeAgain, Open

LEMMA FitsStep == TypeInv /\ FitsTime /\ [Next]_vars => FitsTime'
<1> SUFFICES ASSUME TypeInv, FitsTime, [Next]_vars PROVE FitsTime'
  OBVIOUS
<1>1. /\ profile \in GoalRows /\ plan \in PlanRows(GoalTopics) /\ plan.number \in Nat
      /\ plan.items \in Seq(ItemRows(GoalTopics)) /\ plan.weekly \in Int /\ now \in Int
      /\ plan # NoPlan => FitsAsOf(plan)
  <2>1. /\ profile \in GoalRows /\ plan \in PlanRows(GoalTopics) /\ now \in Int
    BY DEF TypeInv
  <2>2. /\ plan.number \in Nat /\ plan.items \in Seq(ItemRows(GoalTopics))
        /\ plan.weekly \in Minutes
    BY <2>1, PlanOf
  <2>3. Minutes \in SUBSET Int
    BY DEF Minutes
  <2> QED BY <2>1, <2>2, <2>3, FitsAre
<1>2. (plan # NoPlan => FitsAsOf(plan))' => FitsTime'
  BY FitsAre, PTL
<1>3. plan.number = 0 => plan = NoPlan
  BY DEF TypeInv
<1>4. ASSUME NEW weekly \in Minutes, Generate(weekly) PROVE FitsTime'
  <2>1. PICK topics, weeks, total : IsNew(plan', topics, weeks, total, profile.examDay, weekly)
    BY <1>4, NewPlan
  <2>2. FitNew(plan'.items, total, weekly) /\ OnTimeNew(plan'.items, profile.examDay)
    BY <2>1, NewFits, NewIsOnTime
  <2>3. /\ plan'.number = 1 /\ plan'.total = total /\ plan'.weekly = weekly
        /\ plan'.examDay = profile.examDay
    BY <2>1 DEF IsNew
  <2> QED BY <1>2, <2>2, <2>3 DEF FitsAsOf
<1>5. ASSUME NEW pick \in Picks, Complete(pick) PROVE FitsTime'
  <2>1. /\ plan'.number = plan.number /\ plan'.total = plan.total
        /\ plan'.from = plan.from /\ plan'.examDay = plan.examDay /\ plan'.weekly = plan.weekly
        /\ plan'.items \in Seq(ItemRows(GoalTopics))
        /\ Progressed(plan'.items, plan.items)
    <3>1. /\ plan' = [number |-> plan.number, total |-> plan.total, items |-> plan'.items,
                      from |-> plan.from, examDay |-> plan.examDay, weekly |-> plan.weekly]
          /\ plan'.items \in Seq(ItemRows(GoalTopics))
          /\ Progressed(plan'.items, plan.items)
      BY <1>1, <1>5, CompleteProgresses
    <3> QED BY <3>1
  <2>2. /\ DOMAIN plan.items = 1..Len(plan.items) /\ Len(plan.items) \in Nat
        /\ DOMAIN plan'.items = 1..Len(plan'.items)
        /\ \A i \in DOMAIN plan.items : plan.items[i].minutes \in Nat
    BY <1>1, <2>1, ItemsOfPlan, RowOf
  <2>3. FitsAsOf(plan)
    BY <1>1, <1>5 DEF Complete
  <2>4. CASE plan.number = 1
    <3>1. FitNew(plan'.items, plan.total, plan.weekly) /\ OnTimeNew(plan'.items, plan.examDay)
      BY <2>1, <2>2, <2>3, <2>4, FitNewStays, OnTimeStays DEF FitsAsOf
    <3> QED BY <1>2, <2>1, <2>4, <3>1 DEF FitsAsOf
  <2>5. CASE plan.number # 1
    <3>1. /\ FitAgain(plan'.items, plan.total, plan.weekly)
          /\ OnTimeAgain(plan'.items, plan.from, plan.examDay)
      BY <1>1, <2>1, <2>2, <2>3, <2>5, FitAgainStays, OnTimeStays DEF FitsAsOf
    <3> QED BY <1>2, <2>1, <2>5, <3>1 DEF FitsAsOf
  <2> QED BY <2>4, <2>5
<1>6. ASSUME Replan PROVE FitsTime'
  <2>1. /\ plan'.number = plan.number + 1 /\ plan'.total = ReplannedTotal(profile, now)
        /\ plan'.from = now /\ plan'.examDay = profile.examDay /\ plan'.weekly = profile.weekly
        /\ plan'.items \in Seq(ItemRows(GoalTopics)) /\ InWeeks(plan'.items, profile, now)
    <3>1. /\ plan' = [number |-> plan.number + 1, total |-> ReplannedTotal(profile, now),
                      items |-> plan'.items, from |-> now, examDay |-> profile.examDay,
                      weekly |-> profile.weekly]
          /\ plan'.items \in Seq(ItemRows(GoalTopics)) /\ InWeeks(plan'.items, profile, now)
      BY <1>6, ReplanMakes
    <3> QED BY <3>1
  <2>2. /\ DOMAIN plan'.items = 1..Len(plan'.items)
        /\ \A i \in DOMAIN plan'.items : plan'.items[i].week \in Nat
    BY <2>1, ItemsOfPlan, RowOf
  <2>3. /\ FitAgain(plan'.items, plan'.total, profile.weekly)
        /\ OnTimeAgain(plan'.items, now, profile.examDay)
    BY <1>1, <2>1, <2>2, AgainFits
  <2>4. plan'.number # 1
    BY <1>1, <1>3, <1>6, <2>1 DEF Replan
  <2> QED BY <1>2, <2>1, <2>3, <2>4 DEF FitsAsOf
<1>7. ASSUME plan' = plan PROVE FitsTime'
  BY <1>1, <1>2, <1>7 DEF FitsAsOf
<1>8. profile.weekly \in Minutes /\ NewWeekly \subseteq Minutes
  BY <1>1, GoalOf, ConstantsAssumption
<1> QED BY <1>4, <1>5, <1>6, <1>7, <1>8 DEF Next, TimePasses, ChangeGoal, vars

\* Whatever the exam day and the weekly minutes are, and whenever a roadmap is replanned: no week
\* but the last holds more than its minutes, up to one practice in a new plan, and nothing is
\* planned for after the exam (generator 33-37, 216-271; replanner 29-40, 91-124).
THEOREM TimeKept == Spec => []FitsTime
<1>1. Init => FitsTime
  BY DEF Init, FitsTime, WeeksFit, BeforeExam
<1> QED BY <1>1, FitsStep, TypeAlways, PTL DEF Spec

=============================================================================
