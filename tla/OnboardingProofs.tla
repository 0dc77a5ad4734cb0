---------------------------- MODULE OnboardingProofs ----------------------------
(***************************************************************************)
(* Theorems about Onboarding, and so about ExamSeed and StudyProfile, for  *)
(* every value of their constants: any packs, instances, students, clients *)
(* and mixes, and any number of deaths.                                    *)
(***************************************************************************)
EXTENDS Onboarding, TLAPS

(***************************************************************************)
(* The exam packs.                                                         *)
(***************************************************************************)
Row == [node : Nat, under : Nat]
InstanceStates ==
    [at : {"down", "check", "find", "insert", "serving"}, pack : DOMAIN Packs,
     node : Nat \ {0}, found : Seq(Nat)]

SeedTyped ==
    /\ row \in [Exams -> Seq(Row)]
    /\ instance \in [Instances -> InstanceStates]
    /\ deaths \in 0..MaxDeaths
    /\ torn \subseteq Exams

\* Of an instance in state s: it seeds an exam, and has got as far as the row of the exam.
ExamIn(s) == Packs[s.pack].exam
SeedsIn(s) == s.at \in {"find", "insert"}
Deep(s) == \E n \in DOMAIN s.found : PackOf[ExamIn(s)][n].kind = "EXAM"
Held(s) == {s.found[n] : n \in 1..(s.node - 1)}

Seeds(i) == SeedsIn(instance[i])
HasExam(exam) == Of(exam, "EXAM") # {}

\* The row of node n, under its parent's, where `found' are the rows of the nodes before it.
RowOf(exam, n, found) ==
    LET k == PackOf[exam][n].under IN [node |-> n, under |-> IF k = 0 THEN 0 ELSE found[k]]

\* A row is of a node of its pack and under a row of the node's parent; a code that is
\* UNIQUE is there once; the rows of the nodes before it are there.
RowsOk(exam, rows) ==
    \A r \in DOMAIN rows :
        LET n == rows[r].node  k == PackOf[exam][n].under  p == rows[r].under IN
        /\ n \in DOMAIN PackOf[exam]
        /\ IF k = 0 THEN p = 0 ELSE p \in 1..(r - 1) /\ rows[p].node = k
        /\ PackOf[exam][n].kind \in UniqueKinds =>
               \A q \in DOMAIN rows : rows[q].node = n => q = r
        /\ \A m \in 1..(n - 1) : \E q \in DOMAIN rows : rows[q].node = m

RowsInv == \A exam \in Exams : RowsOk(exam, row[exam])

\* An instance has found the rows of the nodes before its own, each under its parent's.
FoundOk(s, rows) ==
    /\ s.at \in {"down", "serving"} => s.pack = 1
    /\ ~SeedsIn(s) => s.node = 1 /\ s.found = <<>>
    /\ SeedsIn(s) =>
         /\ Len(s.found) = s.node - 1 /\ s.node <= Len(PackOf[ExamIn(s)])
         /\ \A n \in 1..(s.node - 1) :
              /\ s.found[n] \in DOMAIN rows
              /\ rows[s.found[n]] = RowOf(ExamIn(s), n, s.found)

FoundInv == \A i \in Instances : FoundOk(instance[i], row[Exam(i)])

\* An instance is past a pack only when the exam of the pack is there.
PassedInv ==
    \A i \in Instances :
        /\ instance[i].at \in {"check", "find", "insert"} =>
               \A k \in 1..(instance[i].pack - 1) : HasExam(Packs[k].exam)
        /\ instance[i].at = "serving" => \A exam \in Exams : HasExam(exam)

Complete(exam, r, rows) ==
    \A n \in DOMAIN PackOf[exam] : PackOf[exam][n].under = rows[r].node =>
        \E q \in DOMAIN rows : rows[q] = [node |-> n, under |-> r]

Covers(s, exam, r) == SeedsIn(s) /\ ExamIn(s) = exam /\ Deep(s) /\ r \in Held(s)

\* When the exam is there and no seeding of it was cut off: what a row lacks an instance is
\* about to store, which counts as a seeding of the exam.
CompletedInv ==
    \A exam \in Exams \ torn : HasExam(exam) =>
        \A r \in Rows(exam) :
            \/ Complete(exam, r, row[exam])
            \/ \E i \in Instances : Covers(instance[i], exam, r)

SeedInv == SeedTyped /\ RowsInv /\ FoundInv /\ PassedInv /\ CompletedInv

-----------------------------------------------------------------------------
(* The packs.                                                               *)

LEMMA PackNodes == \A k \in DOMAIN Packs : /\ Packs[k].exam \in Exams
                                           /\ PackOf[Packs[k].exam] = Packs[k].nodes
<1> SUFFICES ASSUME NEW k \in DOMAIN Packs
             PROVE  Packs[k].exam \in Exams /\ PackOf[Packs[k].exam] = Packs[k].nodes
  OBVIOUS
<1>1. Packs[k].exam \in Exams
  BY DEF Exams
<1>2. (CHOOSE l \in DOMAIN Packs : Packs[l].exam = Packs[k].exam) = k
  BY SeedAssumption
<1> QED BY <1>1, <1>2 DEF PackOf

\* The nodes of a pack, of which x is the exam.
Shape(nodes, x) ==
    /\ Len(nodes) \in Nat /\ DOMAIN nodes = 1..Len(nodes) /\ x \in DOMAIN nodes
    /\ \A n \in DOMAIN nodes : /\ nodes[n].kind \in Kinds /\ nodes[n].under \in 0..(n - 1)
                               /\ nodes[n].kind = "EXAM" <=> n = x
                               /\ nodes[n].kind \in UniqueKinds <=> n <= x
    /\ \E n \in DOMAIN nodes : nodes[n].kind = "VERSION" /\ nodes[n].under = x

LEMMA PackShape ==
    ASSUME NEW exam \in Exams
    PROVE  \E x : Shape(PackOf[exam], x)
<1>1. PICK k \in DOMAIN Packs : Packs[k].exam = exam
  BY DEF Exams
<1>2. PackOf[exam] = Packs[k].nodes
  BY <1>1, PackNodes
<1>3. \E x : Shape(Packs[k].nodes, x)
  BY SeedAssumption DEF Shape
<1> QED BY <1>2, <1>3

\* What a sequence and a sequence with one more element have.
LEMMA Elements ==
    ASSUME NEW S, NEW sq \in Seq(S)
    PROVE  /\ Len(sq) \in Nat /\ DOMAIN sq = 1..Len(sq)
           /\ \A q \in DOMAIN sq : q \in Nat \ {0} /\ sq[q] \in S
OBVIOUS

LEMMA Appended ==
    ASSUME NEW S, NEW sq \in Seq(S), NEW new \in S
    PROVE  /\ Append(sq, new) \in Seq(S) /\ Len(Append(sq, new)) = Len(sq) + 1
           /\ DOMAIN Append(sq, new) = 1..(Len(sq) + 1)
           /\ Append(sq, new)[Len(sq) + 1] = new
           /\ \A q \in DOMAIN sq : Append(sq, new)[q] = sq[q]
OBVIOUS

LEMMA RowsType ==
    ASSUME SeedTyped, NEW exam \in Exams
    PROVE  /\ row[exam] \in Seq(Row)
           /\ Len(row[exam]) \in Nat /\ Rows(exam) = 1..Len(row[exam])
           /\ \A r \in Rows(exam) :
                /\ r \in Nat \ {0} /\ row[exam][r] \in Row
                /\ row[exam][r].node \in Nat /\ row[exam][r].under \in Nat
<1>1. row[exam] \in Seq(Row)
  BY DEF SeedTyped
<1>2. PICK sq \in Seq(Row) : sq = row[exam]
  BY <1>1
<1>3. /\ Len(sq) \in Nat /\ DOMAIN sq = 1..Len(sq)
      /\ \A q \in DOMAIN sq : q \in Nat \ {0} /\ sq[q] \in Row
  BY Elements
<1>4. \A q \in DOMAIN sq : sq[q].node \in Nat /\ sq[q].under \in Nat
  BY <1>3 DEF Row
<1> QED BY <1>1, <1>2, <1>3, <1>4 DEF Rows

\* The invariant of the rows, of one row.
LEMMA RowAt ==
    ASSUME SeedTyped, RowsInv, NEW exam \in Exams, NEW r \in Rows(exam), NEW n, NEW p,
           n = row[exam][r].node, p = row[exam][r].under
    PROVE  /\ n \in DOMAIN PackOf[exam]
           /\ PackOf[exam][n].under = 0 => p = 0
           /\ PackOf[exam][n].under # 0 =>
                p \in 1..(r - 1) /\ p \in Rows(exam)
                /\ row[exam][p].node = PackOf[exam][n].under
           /\ PackOf[exam][n].kind \in UniqueKinds =>
                \A q \in Rows(exam) : row[exam][q].node = n => q = r
           /\ \A m \in 1..(n - 1) : \E q \in Rows(exam) : row[exam][q].node = m
<1>1. Rows(exam) = 1..Len(row[exam]) /\ Len(row[exam]) \in Nat
  BY RowsType
<1>2. \A q \in 1..(r - 1) : q \in Rows(exam)
  BY <1>1
<1> QED BY <1>2 DEF RowsInv, RowsOk, Rows

LEMMA ExamOf ==
    ASSUME SeedTyped, NEW i \in Instances
    PROVE  Exam(i) \in Exams /\ instance[i] \in InstanceStates
BY PackNodes DEF SeedTyped, InstanceStates, Exam

\* The exam is there when there is a row of its node.
LEMMA ExamRow ==
    ASSUME NEW exam \in Exams, NEW x, Shape(PackOf[exam], x),
           \A r \in Rows(exam) : row[exam][r].node \in DOMAIN PackOf[exam]
    PROVE  HasExam(exam) <=> \E r \in Rows(exam) : row[exam][r].node = x
BY DEF HasExam, Of, Shape

-----------------------------------------------------------------------------
(* A row is found, or inserted.                                             *)

\* Rows are never changed, nor deleted.
Grows ==
    \A exam \in Exams : /\ Rows(exam) \subseteq DOMAIN row'[exam]
                        /\ \A r \in Rows(exam) : row'[exam][r] = row[exam][r]

\* Instance i goes on with r as the row of its node.
Moved(i, r) ==
    /\ Seeds(i) /\ Grows /\ torn' = torn /\ deaths' = deaths
    /\ r \in Nat /\ r \in DOMAIN row'[Exam(i)]
    /\ row'[Exam(i)][r] = RowOf(Exam(i), instance[i].node, instance[i].found)
    /\ Advance(i, r)

\* A row inserted.
Inserted(i) ==
    /\ instance[i].at = "insert" /\ ~Conflicts(i)
    /\ row' = [row EXCEPT ![Exam(i)] =
                 Append(@, RowOf(Exam(i), instance[i].node, instance[i].found))]

LEMMA ParentRow ==
    ASSUME NEW i \in Instances
    PROVE  [node |-> instance[i].node, under |-> Parent(i)]
             = RowOf(Exam(i), instance[i].node, instance[i].found)
BY DEF Parent, RowOf, Node

LEMMA RowOfType ==
    ASSUME SeedTyped, FoundInv, NEW i \in Instances, Seeds(i),
           NEW new, new = RowOf(Exam(i), instance[i].node, instance[i].found)
    PROVE  /\ new \in Row /\ new.node = instance[i].node
           /\ LET k == PackOf[Exam(i)][new.node].under IN
              IF k = 0 THEN new.under = 0
              ELSE /\ k \in 1..(instance[i].node - 1) /\ new.under = instance[i].found[k]
                   /\ new.under \in Rows(Exam(i)) /\ row[Exam(i)][new.under].node = k
<1> DEFINE s == instance[i]
           e == Exam(i)
           k == PackOf[e][s.node].under
<1>1. e \in Exams /\ s \in InstanceStates
  BY ExamOf
<1>2. PICK x : Shape(PackOf[e], x)
  BY <1>1, PackShape
<1>f. s.node <= Len(PackOf[e])
  BY <1>1 DEF FoundInv, FoundOk, Seeds, ExamIn, Exam
<1>3. s.node \in DOMAIN PackOf[e] /\ k \in 0..(s.node - 1)
  BY <1>1, <1>2, <1>f DEF Shape, InstanceStates
<1>4. new.node = s.node /\ new.under = IF k = 0 THEN 0 ELSE s.found[k]
  BY DEF RowOf
<1>5. CASE k = 0
  BY <1>1, <1>4, <1>5 DEF RowOf, InstanceStates, Row
<1>6. CASE k # 0
  <2>1. k \in 1..(s.node - 1)
    BY <1>1, <1>3, <1>6 DEF InstanceStates
  <2>2. s.found[k] \in Rows(e) /\ row[e][s.found[k]] = RowOf(e, k, s.found)
    BY <2>1 DEF FoundInv, FoundOk, Seeds, ExamIn, Exam, Rows
  <2>3. RowOf(e, k, s.found).node = k
    BY DEF RowOf
  <2>5. s.found[k] \in Nat
    BY <1>1, <2>2, RowsType
  <2>6. new \in Row
    BY <1>1, <1>6, <2>5 DEF RowOf, InstanceStates, Row
  <2> QED BY <1>4, <1>6, <2>1, <2>2, <2>3, <2>6
<1> QED BY <1>5, <1>6

LEMMA InsertedMoved ==
    ASSUME SeedTyped, FoundInv, NEW i \in Instances, InsertRow(i), ~Conflicts(i)
    PROVE  /\ Inserted(i) /\ Moved(i, Len(row[Exam(i)]) + 1)
<1> DEFINE e == Exam(i)
           s == instance[i]
           r == Len(row[e]) + 1
<1>1. e \in Exams /\ row[e] \in Seq(Row)
  BY ExamOf DEF SeedTyped
<1>2. PICK new : new = RowOf(e, s.node, s.found)
  OBVIOUS
<1>3. Inserted(i) /\ Advance(i, r) /\ torn' = torn /\ deaths' = deaths /\ Seeds(i)
  BY ParentRow DEF InsertRow, Inserted, Seeds, SeedsIn
<1>4. new \in Row
  BY <1>2, <1>3, RowOfType
<1>5. row'[e] = Append(row[e], new) /\ \A f \in Exams : f # e => row'[f] = row[f]
  BY <1>1, <1>2, <1>3 DEF Inserted, SeedTyped
<1>a. PICK sq \in Seq(Row) : sq = row[e]
  BY <1>1
<1>b. /\ Len(sq) \in Nat /\ DOMAIN sq = 1..Len(sq)
      /\ DOMAIN Append(sq, new) = 1..(Len(sq) + 1) /\ Append(sq, new)[Len(sq) + 1] = new
      /\ \A q \in DOMAIN sq : Append(sq, new)[q] = sq[q]
  BY <1>4, Elements, Appended
<1>6. /\ DOMAIN row'[e] = 1..r /\ r \in Nat /\ row'[e][r] = new
      /\ DOMAIN row[e] = 1..(r - 1) /\ \A q \in DOMAIN row[e] : row'[e][q] = row[e][q]
  BY <1>5, <1>a, <1>b
<1>7. Grows
  <2>1. DOMAIN row[e] \subseteq DOMAIN row'[e]
    BY <1>6
  <2> QED BY <1>5, <1>6, <2>1 DEF Grows, Rows
<1>8. r \in DOMAIN row'[e]
  BY <1>6
<1> QED BY <1>2, <1>3, <1>6, <1>7, <1>8 DEF Moved

LEMMA FoundMoved ==
    ASSUME SeedTyped, RowsInv, FoundInv, NEW i \in Instances, FindRow(i), Lookup(i) # {}
    PROVE  \E r : Moved(i, r) /\ row' = row
<1> DEFINE e == Exam(i)
           s == instance[i]
<1>1. PICK r \in Lookup(i) : Advance(i, r)
  BY DEF FindRow
<1>2. /\ UNCHANGED <<row, deaths, torn>> /\ Seeds(i) /\ e \in Exams /\ s \in InstanceStates
      /\ row[e] \in Seq(Row)
  BY ExamOf DEF FindRow, Seeds, SeedsIn, SeedTyped
<1>3. /\ r \in Rows(e) /\ row[e][r].node = s.node
      /\ Node(i).kind \in UniqueKinds \/ row[e][r].under = Parent(i)
  BY DEF Lookup
<1>4. r \in Nat /\ row[e][r] \in Row
  BY <1>2, <1>3, RowsType
<1>5. PICK new : new = RowOf(e, s.node, s.found)
  OBVIOUS
<1>6. /\ new \in Row /\ new.node = s.node
      /\ LET k == PackOf[e][new.node].under IN
              IF k = 0 THEN new.under = 0
              ELSE /\ k \in 1..(s.node - 1) /\ new.under = s.found[k]
                   /\ new.under \in Rows(e) /\ row[e][new.under].node = k
  BY <1>2, <1>5, RowOfType
<1>7. row[e][r].under = new.under
  <2>1. CASE row[e][r].under = Parent(i)
    <3>1. PICK par : par = Parent(i)
      OBVIOUS
    <3>2. [node |-> s.node, under |-> par] = new
      BY <1>5, <3>1, ParentRow
    <3> QED BY <2>1, <3>1, <3>2
  <2>2. CASE Node(i).kind \in UniqueKinds
    <3>1. PICK p : p = row[e][r].under
      OBVIOUS
    <3>2. PICK k : k = PackOf[e][s.node].under
      OBVIOUS
    <3>3. PICK n : n = row[e][r].node
      OBVIOUS
    <3>4. n = s.node /\ k = PackOf[e][n].under
      BY <1>3, <3>2, <3>3
    <3>5. /\ PackOf[e][n].under = 0 => p = 0
          /\ PackOf[e][n].under # 0 => p \in Rows(e) /\ row[e][p].node = PackOf[e][n].under
      <4>1. e \in Exams /\ r \in Rows(e)
        BY <1>2, <1>3
      <4>2. PICK f \in Exams : f = e
        BY <4>1
      <4>3. r \in Rows(f) /\ n = row[f][r].node /\ p = row[f][r].under
        BY <3>1, <3>3, <4>1, <4>2
      <4>4. /\ PackOf[f][n].under = 0 => p = 0
            /\ PackOf[f][n].under # 0 => p \in Rows(f) /\ row[f][p].node = PackOf[f][n].under
        BY <4>3, RowAt
      <4> QED BY <4>2, <4>4
    <3>a. CASE k = 0
      <4>1. p = 0
        BY <3>4, <3>5, <3>a
      <4> QED BY <1>6, <3>1, <3>2, <3>a, <4>1
    <3>b. CASE k # 0
      <4>1. p \in Rows(e) /\ row[e][p].node = k
        BY <3>4, <3>5, <3>b
      <4>2. new.under \in Rows(e) /\ row[e][new.under].node = k /\ k \in 1..(s.node - 1)
        BY <1>6, <3>2, <3>b
      <4>3. PackOf[e][k].kind \in UniqueKinds
        <5>1. PICK x : Shape(PackOf[e], x)
          BY <1>2, PackShape
        <5>2. s.node \in DOMAIN PackOf[e]
          BY <1>2, <1>3, RowAt
        <5>3. PackOf[e][s.node].kind \in UniqueKinds
          BY <2>2 DEF Node
        <5>4. s.node <= x /\ x \in Nat /\ s.node \in Nat
          BY <5>1, <5>2, <5>3 DEF Shape
        <5>5. k \in DOMAIN PackOf[e] /\ k <= x
          BY <4>2, <5>1, <5>2, <5>4 DEF Shape
        <5> QED BY <5>1, <5>5 DEF Shape
      <4>4. \A q \in Rows(e) : row[e][q].node = k => q = p
        BY <1>2, <4>1, <4>3, RowAt
      <4> QED BY <3>1, <4>2, <4>4
    <3> QED BY <3>a, <3>b
  <2> QED BY <1>3, <2>1, <2>2
<1>8. row[e][r] = new
  BY <1>3, <1>4, <1>6, <1>7 DEF Row
<1>9. Moved(i, r)
  BY <1>1, <1>2, <1>3, <1>4, <1>5, <1>8 DEF Moved, Grows, Rows
<1> QED BY <1>2, <1>9

\* A row that is inserted keeps the rows in order.
LEMMA RowsAppended ==
    ASSUME NEW exam \in Exams, NEW rows \in Seq(Row), RowsOk(exam, rows), NEW new \in Row,
           NEW k, k = PackOf[exam][new.node].under,
           new.node \in DOMAIN PackOf[exam], k = 0 => new.under = 0,
           k # 0 => new.under \in DOMAIN rows /\ rows[new.under].node = k,
           PackOf[exam][new.node].kind \in UniqueKinds =>
               \A q \in DOMAIN rows : rows[q].node # new.node,
           \A m \in 1..(new.node - 1) : \E q \in DOMAIN rows : rows[q].node = m
    PROVE  RowsOk(exam, Append(rows, new))
<1>1. PICK app : app = Append(rows, new)
  OBVIOUS
<1>2. PICK l \in Nat : l = Len(rows)
  BY Elements
<1>3. /\ DOMAIN rows = 1..l /\ DOMAIN app = 1..(l + 1) /\ app[l + 1] = new
      /\ \A q \in 1..l : app[q] = rows[q]
  BY <1>1, <1>2, Elements, Appended
<1>4. DOMAIN rows \subseteq DOMAIN app
  BY <1>3
<1> SUFFICES ASSUME NEW r \in DOMAIN app, NEW n, NEW p, n = app[r].node, p = app[r].under
             PROVE  /\ n \in DOMAIN PackOf[exam]
                    /\ PackOf[exam][n].under = 0 => p = 0
                    /\ PackOf[exam][n].under # 0 =>
                         p \in 1..(r - 1) /\ app[p].node = PackOf[exam][n].under
                    /\ PackOf[exam][n].kind \in UniqueKinds =>
                         \A q \in DOMAIN app : app[q].node = n => q = r
                    /\ \A m \in 1..(n - 1) : \E q \in DOMAIN app : app[q].node = m
  BY <1>1 DEF RowsOk
<1>5. CASE r \in DOMAIN rows
  <2>1. app[r] = rows[r] /\ n = rows[r].node /\ p = rows[r].under
    BY <1>3, <1>5
  <2>2. /\ n \in DOMAIN PackOf[exam]
        /\ PackOf[exam][n].under = 0 => p = 0
        /\ PackOf[exam][n].under # 0 =>
             p \in 1..(r - 1) /\ rows[p].node = PackOf[exam][n].under
        /\ PackOf[exam][n].kind \in UniqueKinds =>
             \A q \in DOMAIN rows : rows[q].node = n => q = r
        /\ \A m \in 1..(n - 1) : \E q \in DOMAIN rows : rows[q].node = m
    BY <1>5, <2>1 DEF RowsOk
  <2>3. PackOf[exam][n].under # 0 => app[p].node = PackOf[exam][n].under
    BY <1>2, <1>3, <1>5, <2>2
  <2>4. PackOf[exam][n].kind \in UniqueKinds => \A q \in DOMAIN app : app[q].node = n => q = r
    <3> SUFFICES ASSUME PackOf[exam][n].kind \in UniqueKinds,
                        NEW q \in DOMAIN app, app[q].node = n
                 PROVE  q = r
      OBVIOUS
    <3>1. CASE q \in DOMAIN rows
      BY <1>3, <2>2, <3>1
    <3>2. CASE q = l + 1
      BY <1>3, <1>5, <2>1, <3>2
    <3> QED BY <1>3, <3>1, <3>2
  <2>5. \A m \in 1..(n - 1) : \E q \in DOMAIN app : app[q].node = m
    BY <1>3, <1>4, <2>2
  <2> QED BY <2>2, <2>3, <2>4, <2>5
<1>6. CASE r = l + 1
  <2>1. n = new.node /\ p = new.under
    BY <1>3, <1>6
  <2>2. PackOf[exam][n].under # 0 => p \in 1..(r - 1) /\ app[p].node = PackOf[exam][n].under
    BY <1>2, <1>3, <1>6, <2>1
  <2>3. PackOf[exam][n].kind \in UniqueKinds => \A q \in DOMAIN app : app[q].node = n => q = r
    BY <1>3, <1>6, <2>1
  <2>4. \A m \in 1..(n - 1) : \E q \in DOMAIN app : app[q].node = m
    BY <1>3, <1>4, <2>1
  <2> QED BY <2>1, <2>2, <2>3, <2>4
<1> QED BY <1>3, <1>5, <1>6

\* What an instance has found, of the instance.
LEMMA FoundAt ==
    ASSUME SeedTyped, FoundInv, NEW i \in Instances, Seeds(i), NEW s, s = instance[i],
           NEW exam, exam = Exam(i)
    PROVE  /\ exam \in Exams /\ s \in InstanceStates /\ SeedsIn(s) /\ ExamIn(s) = exam
           /\ DOMAIN s.found = 1..(s.node - 1) /\ Len(s.found) = s.node - 1 /\ s.node \in Nat \ {0}
           /\ s.node \in DOMAIN PackOf[exam] /\ Len(PackOf[exam]) \in Nat
           /\ DOMAIN PackOf[exam] = 1..Len(PackOf[exam])
           /\ \A n \in 1..(s.node - 1) :
                /\ s.found[n] \in Rows(exam) /\ row[exam][s.found[n]] = RowOf(exam, n, s.found)
                /\ row[exam][s.found[n]].node = n
<1>1. exam \in Exams /\ s \in InstanceStates
  BY ExamOf
<1>2. SeedsIn(s) /\ ExamIn(s) = exam
  BY DEF Seeds, ExamIn, Exam
<1>3. FoundOk(s, row[exam])
  BY DEF FoundInv
<1>4. s.node \in Nat \ {0} /\ s.found \in Seq(Nat)
  BY <1>1 DEF InstanceStates
<1>5. PICK x : Shape(PackOf[exam], x)
  BY <1>1, PackShape
<1>6. /\ Len(s.found) = s.node - 1 /\ s.node <= Len(PackOf[exam])
      /\ \A n \in 1..(s.node - 1) : /\ s.found[n] \in Rows(exam)
                                    /\ row[exam][s.found[n]] = RowOf(exam, n, s.found)
  BY <1>2, <1>3 DEF FoundOk, Rows
<1>7. \A n : RowOf(exam, n, s.found).node = n
  BY DEF RowOf
<1>8. DOMAIN s.found = 1..(s.node - 1)
  BY <1>4, <1>6, Elements
<1>9. Len(PackOf[exam]) \in Nat /\ DOMAIN PackOf[exam] = 1..Len(PackOf[exam])
  BY <1>5 DEF Shape
<1>10. s.node \in DOMAIN PackOf[exam]
  BY <1>4, <1>6, <1>9
<1> QED BY <1>1, <1>2, <1>4, <1>6, <1>7, <1>8, <1>9, <1>10

LEMMA RowsInserted ==
    ASSUME SeedTyped, RowsInv, FoundInv, NEW i \in Instances, Seeds(i), Inserted(i)
    PROVE  RowsInv' /\ row' \in [Exams -> Seq(Row)]
<1>1. PICK e \in Exams : e = Exam(i)
  BY ExamOf
<1>2. PICK s \in InstanceStates : s = instance[i]
  BY ExamOf
<1>3. PICK rows \in Seq(Row) : rows = row[e]
  BY RowsType
<1>4. PICK new : new = RowOf(e, s.node, s.found)
  OBVIOUS
<1>5. PICK k : k = PackOf[e][s.node].under
  OBVIOUS
<1>6. /\ new \in Row /\ new.node = s.node /\ k = PackOf[e][new.node].under
      /\ k = 0 => new.under = 0
      /\ k # 0 => new.under \in DOMAIN rows /\ rows[new.under].node = k
  <2>1. /\ new \in Row /\ new.node = instance[i].node
        /\ LET l == PackOf[Exam(i)][new.node].under IN
           IF l = 0 THEN new.under = 0
           ELSE /\ l \in 1..(instance[i].node - 1) /\ new.under = instance[i].found[l]
                /\ new.under \in Rows(Exam(i)) /\ row[Exam(i)][new.under].node = l
    BY <1>1, <1>2, <1>4, RowOfType
  <2> QED BY <1>1, <1>2, <1>3, <1>5, <2>1 DEF Rows
<1>7. s.node \in DOMAIN PackOf[e] /\ \A n \in 1..(s.node - 1) : \E q \in DOMAIN rows : rows[q].node = n
  <2>1. /\ s.node \in DOMAIN PackOf[e]
        /\ \A n \in 1..(s.node - 1) : /\ s.found[n] \in Rows(e)
                                      /\ row[e][s.found[n]].node = n
    BY <1>1, <1>2, FoundAt
  <2> QED BY <1>3, <2>1 DEF Rows
<1>8. PackOf[e][s.node].kind \in UniqueKinds => \A q \in DOMAIN rows : rows[q].node # s.node
  BY <1>1, <1>2, <1>3 DEF Inserted, Conflicts, Lookup, Node, Rows
<1>9. RowsOk(e, rows)
  BY <1>3 DEF RowsInv
<1>10. RowsOk(e, Append(rows, new)) /\ Append(rows, new) \in Seq(Row)
  BY <1>6, <1>7, <1>8, <1>9, RowsAppended, Appended
<1>11. row' = [row EXCEPT ![e] = Append(rows, new)] /\ row \in [Exams -> Seq(Row)]
  BY <1>1, <1>2, <1>3, <1>4 DEF Inserted, SeedTyped
<1>12. row'[e] = Append(rows, new) /\ \A f \in Exams : f # e => row'[f] = row[f]
  BY <1>11
<1>13. \A f \in Exams : RowsOk(f, row'[f])
  BY <1>10, <1>12 DEF RowsInv
<1> QED BY <1>10, <1>11, <1>13 DEF RowsInv

\* After a pack the instance looks for the exam of the next one, or it answers requests.
After(s, t) ==
    /\ t \in InstanceStates /\ t.node = 1 /\ t.found = <<>>
    /\ \/ s.pack + 1 \in DOMAIN Packs /\ t.at = "check" /\ t.pack = s.pack + 1
       \/ s.pack = Len(Packs) /\ t.at = "serving" /\ t.pack = 1

LEMMA AfterIt ==
    ASSUME NEW s \in InstanceStates, NEW t, t = AfterPack(s)
    PROVE  After(s, t)
<1>1. s.pack \in DOMAIN Packs /\ DOMAIN Packs = 1..Len(Packs) /\ Len(Packs) \in Nat \ {0}
  BY SeedAssumption DEF InstanceStates
<1>2. <<>> \in Seq(Nat) /\ 1 \in DOMAIN Packs
  BY <1>1
<1>3. CASE s.pack < Len(Packs)
  <2>1. s.pack + 1 \in DOMAIN Packs
    BY <1>1, <1>3
  <2>2. t = [at |-> "check", pack |-> s.pack + 1, node |-> 1, found |-> <<>>]
    BY <1>3 DEF AfterPack, Checking, Down
  <2> QED BY <1>2, <2>1, <2>2 DEF After, InstanceStates
<1>4. CASE ~(s.pack < Len(Packs))
  <2>1. s.pack = Len(Packs)
    BY <1>1, <1>4
  <2>2. t = [at |-> "serving", pack |-> 1, node |-> 1, found |-> <<>>]
    BY <1>4 DEF AfterPack, Serving, Down
  <2> QED BY <1>2, <2>1, <2>2 DEF After, InstanceStates
<1> QED BY <1>3, <1>4

\* Where an instance goes from node s.node of its pack: to the next, or after the pack.
Onward(s, r, t) ==
    /\ t \in InstanceStates /\ t.at = "find" /\ t.pack = s.pack /\ t.node = s.node + 1
    /\ t.node <= Len(PackOf[ExamIn(s)])
    /\ Len(t.found) = s.node /\ DOMAIN t.found = 1..s.node /\ t.found[s.node] = r
    /\ \A n \in 1..(s.node - 1) : t.found[n] = s.found[n]

LEMMA MovesOn ==
    ASSUME SeedTyped, FoundInv, NEW i \in Instances, NEW r, Moved(i, r),
           NEW s, s = instance[i]
    PROVE  \E t \in InstanceStates :
              /\ instance' = [instance EXCEPT ![i] = t]
              /\ \/ Onward(s, r, t)
                 \/ After(s, t) /\ s.node = Len(PackOf[ExamIn(s)])
<1>1. PICK exam : exam = Exam(i)
  OBVIOUS
<1>2. /\ exam \in Exams /\ s \in InstanceStates /\ SeedsIn(s) /\ ExamIn(s) = exam
      /\ DOMAIN s.found = 1..(s.node - 1) /\ Len(s.found) = s.node - 1 /\ s.node \in Nat \ {0}
      /\ s.node \in DOMAIN PackOf[exam] /\ Len(PackOf[exam]) \in Nat
      /\ DOMAIN PackOf[exam] = 1..Len(PackOf[exam])
  BY <1>1, FoundAt DEF Moved
<1>3. PICK sq \in Seq(Nat) : sq = s.found
  BY <1>2 DEF InstanceStates
<1>4. r \in Nat
  BY DEF Moved
<1>5. PICK app : app = Append(sq, r)
  OBVIOUS
<1>6. /\ app \in Seq(Nat) /\ Len(app) = s.node /\ DOMAIN app = 1..s.node /\ app[s.node] = r
      /\ \A n \in 1..(s.node - 1) : app[n] = s.found[n]
  <2>1. /\ app \in Seq(Nat) /\ Len(app) = Len(sq) + 1 /\ DOMAIN app = 1..(Len(sq) + 1)
        /\ app[Len(sq) + 1] = r /\ \A q \in DOMAIN sq : app[q] = sq[q]
    BY <1>4, <1>5, Appended
  <2>2. Len(sq) = s.node - 1 /\ DOMAIN sq = 1..(s.node - 1) /\ Len(sq) + 1 = s.node
    BY <1>2, <1>3
  <2> QED BY <1>3, <2>1, <2>2
<1>7. CASE s.node < Len(PackOf[exam])
  <2>1. PICK t : t = [s EXCEPT !.at = "find", !.node = s.node + 1, !.found = app]
    OBVIOUS
  <2>2. instance' = [instance EXCEPT ![i] = t]
    BY <1>1, <1>3, <1>5, <1>7, <2>1 DEF Moved, Advance, Becomes
  <2>3. s.node + 1 \in Nat \ {0} /\ s.node + 1 <= Len(PackOf[exam])
    BY <1>2, <1>7
  <2>4. /\ t \in InstanceStates /\ t.at = "find" /\ t.pack = s.pack /\ t.node = s.node + 1
        /\ t.found = app
    BY <1>2, <1>6, <2>1, <2>3 DEF InstanceStates
  <2> QED BY <1>2, <1>6, <2>2, <2>3, <2>4 DEF Onward
<1>8. CASE ~(s.node < Len(PackOf[exam]))
  <2>1. PICK t : t = AfterPack(s)
    OBVIOUS
  <2>2. instance' = [instance EXCEPT ![i] = t]
    BY <1>1, <1>8, <2>1 DEF Moved, Advance, Becomes
  <2>3. After(s, t)
    BY <1>2, <2>1, AfterIt
  <2>4. s.node = Len(PackOf[exam]) /\ t \in InstanceStates
    BY <1>2, <1>8, <2>3 DEF After
  <2> QED BY <1>2, <2>2, <2>3, <2>4
<1> QED BY <1>7, <1>8

-----------------------------------------------------------------------------
(* The steps of an instance.                                                *)

Enters(i, t) == t \in InstanceStates /\ instance' = [instance EXCEPT ![i] = t]

\* Instance i goes from s to t, and no row is found.
Turn(i, s, t) ==
    \/ s.at = "find" /\ t.at = "insert" /\ t.pack = s.pack /\ t.node = s.node /\ t.found = s.found
    \/ s.at = "down" /\ t = Checking(1)
    \/ s.at = "check" /\ HasExam(Exam(i)) /\ After(s, t)
    \/ s.at = "check" /\ t.at = "find" /\ t.pack = s.pack /\ t.node = s.node /\ t.found = s.found

Turns(i) ==
    /\ row' = row /\ torn' = torn /\ deaths' = deaths
    /\ \E t : Enters(i, t) /\ Turn(i, instance[i], t)

Falls(i) ==
    /\ row' = row /\ torn' = torn \cup Cut(i) /\ deaths' \in 0..MaxDeaths
    /\ Enters(i, Down)

Stores(i) ==
    \E r : Moved(i, r) /\ (row' = row \/ (Inserted(i) /\ r = Len(row[Exam(i)]) + 1))

SeedStep(i) == Start(i) \/ CheckExam(i) \/ FindRow(i) \/ InsertRow(i) \/ Die(i)

LEMMA DownState == Down \in InstanceStates /\ Checking(1) \in InstanceStates
<1>1. 1 \in DOMAIN Packs /\ <<>> \in Seq(Nat)
  BY SeedAssumption
<1>2. PICK d : d = [at |-> "down", pack |-> 1, node |-> 1, found |-> <<>>]
  OBVIOUS
<1>3. d \in InstanceStates
  BY <1>1, <1>2 DEF InstanceStates
<1>4. [d EXCEPT !.at = "check", !.pack = 1] \in InstanceStates
  BY <1>1, <1>3 DEF InstanceStates
<1>5. Down = d
  BY <1>2 DEF Down
<1> QED BY <1>3, <1>4, <1>5 DEF Checking

LEMMA StepCases ==
    ASSUME SeedTyped, RowsInv, FoundInv, NEW i \in Instances, SeedStep(i)
    PROVE  Turns(i) \/ Falls(i) \/ Stores(i)
<1>1. PICK s \in InstanceStates : s = instance[i]
  BY ExamOf
<1>2. CASE Start(i)
  BY <1>1, <1>2, DownState DEF Start, Becomes, Turns, Turn, Enters
<1>3. CASE CheckExam(i)
  <2>1. CASE HasExam(Exam(i))
    <3>1. PICK t : t = AfterPack(s)
      OBVIOUS
    <3>2. After(s, t)
      BY <3>1, AfterIt
    <3>3. instance' = [instance EXCEPT ![i] = t] /\ UNCHANGED <<row, deaths, torn>> /\ s.at = "check"
      BY <1>1, <1>3, <2>1, <3>1 DEF CheckExam, Becomes, HasExam
    <3>4. t \in InstanceStates
      BY <3>2 DEF After
    <3> QED BY <1>1, <2>1, <3>2, <3>3, <3>4 DEF Turns, Turn, Enters
  <2>2. CASE ~HasExam(Exam(i))
    <3>1. PICK t : t = [s EXCEPT !.at = "find"]
      OBVIOUS
    <3>2. /\ t \in InstanceStates /\ t.at = "find" /\ t.pack = s.pack /\ t.node = s.node
          /\ t.found = s.found
      BY <3>1 DEF InstanceStates
    <3>3. instance' = [instance EXCEPT ![i] = t] /\ UNCHANGED <<row, deaths, torn>> /\ s.at = "check"
      BY <1>1, <1>3, <2>2, <3>1 DEF CheckExam, Becomes, HasExam
    <3> QED BY <1>1, <3>2, <3>3 DEF Turns, Turn, Enters
  <2> QED BY <2>1, <2>2
<1>4. CASE FindRow(i)
  <2>1. CASE Lookup(i) = {}
    <3>1. PICK t : t = [s EXCEPT !.at = "insert"]
      OBVIOUS
    <3>2. /\ t \in InstanceStates /\ t.at = "insert" /\ t.pack = s.pack /\ t.node = s.node
          /\ t.found = s.found
      BY <3>1 DEF InstanceStates
    <3>3. instance' = [instance EXCEPT ![i] = t] /\ UNCHANGED <<row, deaths, torn>> /\ s.at = "find"
      BY <1>1, <1>4, <2>1, <3>1 DEF FindRow, Becomes
    <3> QED BY <1>1, <3>2, <3>3 DEF Turns, Turn, Enters
  <2>2. CASE Lookup(i) # {}
    BY <1>4, <2>2, FoundMoved DEF Stores
  <2> QED BY <2>1, <2>2
<1>5. CASE InsertRow(i)
  <2>1. CASE Conflicts(i)
    BY <1>5, <2>1, DownState DEF InsertRow, Becomes, Falls, Enters, SeedTyped
  <2>2. CASE ~Conflicts(i)
    BY <1>5, <2>2, InsertedMoved DEF Stores
  <2> QED BY <2>1, <2>2
<1>6. CASE Die(i)
  <2>1. deaths + 1 \in 0..MaxDeaths
    BY <1>6, SeedAssumption DEF Die, SeedTyped
  <2> QED BY <1>6, <2>1, DownState DEF Die, Becomes, Falls, Enters
<1> QED BY <1>2, <1>3, <1>4, <1>5, <1>6 DEF SeedStep

\* The rows stay, or there is one more; and they are of the pack.
LEMMA StepRows ==
    ASSUME SeedTyped, RowsInv, FoundInv, NEW i \in Instances, Turns(i) \/ Falls(i) \/ Stores(i)
    PROVE  /\ Grows /\ RowsInv' /\ torn \subseteq torn'
           /\ \E t : Enters(i, t)
<1>1. CASE Turns(i) \/ Falls(i)
  <2>1. row' = row /\ torn \subseteq torn' /\ \E t : Enters(i, t)
    BY <1>1 DEF Turns, Falls
  <2>2. Grows /\ RowsInv'
    BY <2>1 DEF Grows, RowsInv, Rows
  <2> QED BY <2>1, <2>2
<1>2. CASE Stores(i)
  <2>1. PICK r : Moved(i, r) /\ (row' = row \/ Inserted(i))
    BY <1>2 DEF Stores
  <2>2. RowsInv'
    <3>1. CASE row' = row
      BY <3>1 DEF RowsInv
    <3>2. CASE Inserted(i)
      BY <2>1, <3>2, RowsInserted DEF Moved
    <3> QED BY <2>1, <3>1, <3>2
  <2>3. PICK s : s = instance[i]
    OBVIOUS
  <2>4. \E t \in InstanceStates : instance' = [instance EXCEPT ![i] = t]
    BY <2>1, <2>3, MovesOn
  <2> QED BY <2>1, <2>2, <2>4 DEF Moved, Enters
<1> QED BY <1>1, <1>2

LEMMA SeedTypedStep ==
    ASSUME SeedTyped, RowsInv, FoundInv, NEW i \in Instances, Turns(i) \/ Falls(i) \/ Stores(i)
    PROVE  SeedTyped'
<1>1. PICK t : Enters(i, t)
  BY StepRows
<1>2. instance' \in [Instances -> InstanceStates]
  BY <1>1 DEF Enters, SeedTyped
<1>3. row' \in [Exams -> Seq(Row)]
  <2>1. CASE row' = row
    BY <2>1 DEF SeedTyped
  <2>2. CASE Inserted(i) /\ Seeds(i)
    BY <2>2, RowsInserted
  <2> QED BY <2>1, <2>2 DEF Turns, Falls, Stores, Moved
<1>4. deaths' \in 0..MaxDeaths
  BY DEF Turns, Falls, Stores, Moved, SeedTyped
<1>5. torn' \subseteq Exams
  BY ExamOf DEF Turns, Falls, Stores, Moved, SeedTyped, Cut
<1> QED BY <1>2, <1>3, <1>4, <1>5 DEF SeedTyped

\* What instances have found stays, and instance i goes on.
LEMMA FoundFrom ==
    ASSUME SeedTyped, FoundInv, Grows, NEW i \in Instances, NEW t, Enters(i, t),
           NEW exam, exam = ExamIn(t), FoundOk(t, row'[exam])
    PROVE  FoundInv'
<1>1. instance' = [instance EXCEPT ![i] = t] /\ instance \in [Instances -> InstanceStates]
  BY DEF Enters, SeedTyped
<1> SUFFICES ASSUME NEW j \in Instances
             PROVE  FoundOk(instance'[j], row'[Exam(j)'])
  BY DEF FoundInv
<1>2. CASE j = i
  <2>1. instance'[j] = t /\ Exam(j)' = exam
    BY <1>1, <1>2 DEF Exam, ExamIn
  <2> QED BY <2>1
<1>3. CASE j # i
  <2>1. PICK s \in InstanceStates : s = instance[j]
    BY ExamOf
  <2>2. instance'[j] = s /\ Exam(j)' = Exam(j)
    BY <1>1, <1>3, <2>1 DEF Exam
  <2>3. PICK e \in Exams : e = Exam(j)
    BY ExamOf
  <2>4. FoundOk(s, row[e])
    BY <2>1, <2>3 DEF FoundInv
  <2>5. ExamIn(s) = e
    BY <2>1, <2>3 DEF ExamIn, Exam
  <2>6. /\ DOMAIN row[e] \subseteq DOMAIN row'[e]
        /\ \A r \in DOMAIN row[e] : row'[e][r] = row[e][r]
    BY DEF Grows, Rows
  <2>7. FoundOk(s, row'[e])
    BY <2>4, <2>6 DEF FoundOk
  <2> QED BY <2>2, <2>3, <2>7
<1> QED BY <1>2, <1>3

LEMMA FoundStep ==
    ASSUME SeedTyped, RowsInv, FoundInv, NEW i \in Instances, Turns(i) \/ Falls(i) \/ Stores(i)
    PROVE  FoundInv'
<1>1. Grows
  BY StepRows
<1>2. PICK s \in InstanceStates : s = instance[i]
  BY ExamOf
<1>3. PICK e \in Exams : e = Exam(i)
  BY ExamOf
<1>4. FoundOk(s, row[e]) /\ ExamIn(s) = e
  BY <1>2, <1>3 DEF FoundInv, Exam, ExamIn
<1>5. CASE Turns(i)
  <2>1. PICK t : Enters(i, t) /\ Turn(i, s, t)
    BY <1>2, <1>5 DEF Turns
  <2>2. row' = row
    BY <1>5 DEF Turns
  <2>3. PICK f : f = ExamIn(t)
    OBVIOUS
  <2>4. CASE s.at = "find" /\ t.at = "insert" /\ t.pack = s.pack /\ t.node = s.node /\ t.found = s.found
    <3>1. f = e
      BY <1>4, <2>3, <2>4 DEF ExamIn
    <3>2. FoundOk(t, row'[f])
      BY <1>4, <2>2, <2>4, <3>1, <2>3 DEF FoundOk, SeedsIn
    <3> QED BY <1>1, <2>1, <2>3, <3>2, FoundFrom
  <2>5. CASE t = Checking(1)
    <3>1. t.at = "check" /\ t.node = 1 /\ t.found = <<>>
      BY <2>5 DEF Checking, Down
    <3>2. FoundOk(t, row'[f])
      BY <3>1 DEF FoundOk, SeedsIn
    <3> QED BY <1>1, <2>1, <2>3, <3>2, FoundFrom
  <2>6. CASE After(s, t)
    <3>2. FoundOk(t, row'[f])
      BY <2>6 DEF FoundOk, SeedsIn, After
    <3> QED BY <1>1, <2>1, <2>3, <3>2, FoundFrom
  <2>7. CASE s.at = "check" /\ t.at = "find" /\ t.pack = s.pack /\ t.node = s.node /\ t.found = s.found
    <3>1. f = e
      BY <1>4, <2>3, <2>7 DEF ExamIn
    <3>2. t.node = 1 /\ t.found = <<>>
      BY <1>4, <2>7 DEF FoundOk, SeedsIn
    <3>3. PICK x : Shape(PackOf[e], x)
      BY PackShape
    <3>4. 1 <= Len(PackOf[e])
      BY <3>3 DEF Shape
    <3>5. FoundOk(t, row'[f])
      BY <2>3, <2>7, <3>1, <3>2, <3>4 DEF FoundOk, SeedsIn
    <3> QED BY <1>1, <2>1, <2>3, <3>5, FoundFrom
  <2> QED BY <2>1, <2>4, <2>5, <2>6, <2>7 DEF Turn
<1>6. CASE Falls(i)
  <2>1. Down.at = "down" /\ Down.pack = 1 /\ Down.node = 1 /\ Down.found = <<>>
    BY DEF Down
  <2>2. PICK f : f = ExamIn(Down)
    OBVIOUS
  <2>3. FoundOk(Down, row'[f])
    BY <2>1 DEF FoundOk, SeedsIn
  <2> QED BY <1>1, <1>6, <2>2, <2>3, FoundFrom DEF Falls
<1>7. CASE Stores(i)
  <2>1. PICK r : Moved(i, r)
    BY <1>7 DEF Stores
  <2>2. PICK t : Enters(i, t) /\ (Onward(s, r, t) \/ After(s, t))
    BY <1>2, <2>1, MovesOn DEF Enters
  <2>3. PICK f : f = ExamIn(t)
    OBVIOUS
  <2>4. CASE After(s, t)
    <3>1. FoundOk(t, row'[f])
      BY <2>4 DEF FoundOk, SeedsIn, After
    <3> QED BY <1>1, <2>2, <2>3, <3>1, FoundFrom
  <2>5. CASE Onward(s, r, t)
    <3>1. f = e /\ SeedsIn(t) /\ t.at = "find" /\ t.node = s.node + 1 /\ Len(t.found) = s.node
      BY <1>4, <2>3, <2>5 DEF ExamIn, Onward, SeedsIn
    <3>2. /\ t.node <= Len(PackOf[e]) /\ s.node \in Nat \ {0} /\ t.found[s.node] = r
          /\ \A n \in 1..(s.node - 1) : t.found[n] = s.found[n]
      BY <1>4, <2>5 DEF Onward, InstanceStates
    <3>3. SeedsIn(s) /\ DOMAIN PackOf[e] = 1..Len(PackOf[e]) /\ Len(PackOf[e]) \in Nat
      BY <1>2, <1>3, <2>1, FoundAt DEF Moved
    <3>4. PICK x : Shape(PackOf[e], x)
      BY PackShape
    <3>5. \A n \in 1..s.node : RowOf(e, n, t.found) = RowOf(e, n, s.found)
      <4> SUFFICES ASSUME NEW n \in 1..s.node, NEW k, k = PackOf[e][n].under
                   PROVE  k # 0 => t.found[k] = s.found[k]
        BY DEF RowOf
      <4>1. n \in DOMAIN PackOf[e]
        BY <3>1, <3>2, <3>3
      <4>2. k \in 0..(n - 1)
        BY <3>4, <4>1 DEF Shape
      <4> QED BY <3>2, <4>2
    <3>6. r \in DOMAIN row'[e] /\ row'[e][r] = RowOf(e, s.node, s.found)
      BY <1>2, <1>3, <2>1 DEF Moved
    <3>7. \A n \in 1..(s.node - 1) : /\ s.found[n] \in DOMAIN row'[e]
                                     /\ row'[e][s.found[n]] = RowOf(e, n, s.found)
      BY <1>1, <1>4, <3>3 DEF FoundOk, Grows, Rows
    <3>8. \A n \in 1..s.node : /\ t.found[n] \in DOMAIN row'[e]
                               /\ row'[e][t.found[n]] = RowOf(e, n, t.found)
      <4> SUFFICES ASSUME NEW n \in 1..s.node
                   PROVE  /\ t.found[n] \in DOMAIN row'[e]
                          /\ row'[e][t.found[n]] = RowOf(e, n, t.found)
        OBVIOUS
      <4>1. RowOf(e, n, t.found) = RowOf(e, n, s.found)
        BY <3>5
      <4>2. CASE n = s.node
        BY <3>2, <3>6, <4>1, <4>2
      <4>3. CASE n \in 1..(s.node - 1)
        BY <3>2, <3>7, <4>1, <4>3
      <4> QED BY <3>2, <4>2, <4>3
    <3>9. 1..(t.node - 1) = 1..s.node /\ Len(t.found) = t.node - 1
      BY <3>1, <3>2
    <3>10. FoundOk(t, row'[f])
      <4>1. \A n \in 1..(t.node - 1) : /\ t.found[n] \in DOMAIN row'[f]
                                       /\ row'[f][t.found[n]] = RowOf(ExamIn(t), n, t.found)
        BY <2>3, <3>1, <3>8, <3>9
      <4> QED BY <2>3, <3>1, <3>2, <3>9, <4>1 DEF FoundOk
    <3> QED BY <1>1, <2>2, <2>3, <3>10, FoundFrom
  <2> QED BY <2>2, <2>4, <2>5
<1> QED BY <1>5, <1>6, <1>7

\* An exam that is there stays.
LEMMA StillThere ==
    ASSUME SeedTyped, Grows, NEW exam \in Exams, HasExam(exam)
    PROVE  HasExam(exam)'
<1>1. PICK r \in Rows(exam) : PackOf[exam][row[exam][r].node].kind = "EXAM"
  BY DEF HasExam, Of
<1>2. r \in DOMAIN row'[exam] /\ row'[exam][r] = row[exam][r]
  BY DEF Grows
<1> QED BY <1>1, <1>2 DEF HasExam, Of, Rows

LEMMA PassedFrom ==
    ASSUME SeedTyped, PassedInv, Grows, NEW i \in Instances, NEW t, Enters(i, t),
           NEW s, s = instance[i], NEW e \in Exams, e = Exam(i),
           \/ t.at = "down"
           \/ t.at \in {"check", "find", "insert"} /\ t.pack = 1
           \/ /\ t.at \in {"check", "find", "insert"} /\ t.pack = s.pack
              /\ s.at \in {"check", "find", "insert"}
           \/ After(s, t) /\ s.at \in {"check", "find", "insert"} /\ HasExam(e)'
    PROVE  PassedInv'
<1> DEFINE Busy == {"check", "find", "insert"}
<1>1. instance' = [instance EXCEPT ![i] = t] /\ instance \in [Instances -> InstanceStates]
  BY DEF Enters, SeedTyped
<1>2. t \in InstanceStates /\ s \in InstanceStates
  BY ExamOf DEF Enters
<1>3. DOMAIN Packs = 1..Len(Packs) /\ Len(Packs) \in Nat \ {0}
  BY SeedAssumption
<1>4. \A k \in DOMAIN Packs : Packs[k].exam \in Exams
  BY PackNodes
<1>5. \A exam \in Exams : HasExam(exam) => HasExam(exam)'
  BY StillThere
<1> SUFFICES ASSUME NEW j \in Instances, NEW u, u = instance'[j]
             PROVE  /\ u.at \in Busy => \A k \in 1..(u.pack - 1) : HasExam(Packs[k].exam)'
                    /\ u.at = "serving" => \A exam \in Exams : HasExam(exam)'
  BY DEF PassedInv
<1>6. CASE j # i
  <2>1. u = instance[j] /\ u \in InstanceStates
    BY <1>1, <1>6
  <2>2. /\ u.at \in Busy => \A k \in 1..(u.pack - 1) : HasExam(Packs[k].exam)
        /\ u.at = "serving" => \A exam \in Exams : HasExam(exam)
    BY <2>1 DEF PassedInv
  <2>3. \A k \in 1..(u.pack - 1) : k \in DOMAIN Packs
    BY <1>3, <2>1 DEF InstanceStates
  <2>4. \A k \in 1..(u.pack - 1) : Packs[k].exam \in Exams
    BY <1>4, <2>3
  <2> QED BY <1>5, <2>2, <2>4
<1>7. CASE j = i
  <2>1. u = t
    BY <1>1, <1>7
  <2>2. s.at \in Busy => \A k \in 1..(s.pack - 1) : HasExam(Packs[k].exam)
    BY DEF PassedInv
  <2>3. \A k \in 1..(s.pack - 1) : k \in DOMAIN Packs
    BY <1>2, <1>3 DEF InstanceStates
  <2>4. s.at \in Busy => \A k \in 1..(s.pack - 1) : HasExam(Packs[k].exam)'
    BY <1>4, <1>5, <2>2, <2>3
  <2>5. CASE t.at = "down" \/ (t.at \in Busy /\ t.pack = 1)
    BY <2>1, <2>5
  <2>6. CASE t.at \in Busy /\ t.pack = s.pack /\ s.at \in Busy
    BY <2>1, <2>4, <2>6
  <2>7. CASE After(s, t) /\ s.at \in Busy /\ HasExam(e)'
    <3>1. s.pack \in DOMAIN Packs /\ s.pack \in Nat /\ Packs[s.pack].exam = e
      BY <1>2, <1>3 DEF InstanceStates, Exam
    <3>2. \A k \in 1..s.pack : HasExam(Packs[k].exam)'
      <4> SUFFICES ASSUME NEW k \in 1..s.pack PROVE HasExam(Packs[k].exam)'
        OBVIOUS
      <4>1. CASE k = s.pack
        BY <2>7, <3>1, <4>1
      <4>2. CASE k \in 1..(s.pack - 1)
        BY <2>4, <2>7, <4>2
      <4> QED BY <3>1, <4>1, <4>2
    <3>3. CASE t.at = "check" /\ t.pack = s.pack + 1
      <4>1. 1..(t.pack - 1) = 1..s.pack
        BY <3>1, <3>3
      <4> QED BY <2>1, <3>2, <3>3, <4>1
    <3>4. CASE s.pack = Len(Packs) /\ t.at = "serving"
      <4>1. \A exam \in Exams : \E k \in 1..s.pack : exam = Packs[k].exam
        BY <1>3, <3>4 DEF Exams
      <4>2. \A exam \in Exams : HasExam(exam)'
        BY <3>2, <4>1
      <4> QED BY <2>1, <3>4, <4>2
    <3> QED BY <2>7, <3>3, <3>4 DEF After
  <2> QED BY <2>5, <2>6, <2>7
<1> QED BY <1>6, <1>7

\* The rows of a pack that is stored to the end hold its exam.
LEMMA EndHasExam ==
    ASSUME SeedTyped, FoundInv, NEW i \in Instances, NEW r, Moved(i, r),
           NEW s, s = instance[i], NEW e \in Exams, e = Exam(i), s.node = Len(PackOf[e])
    PROVE  HasExam(e)
<1>1. PICK x : Shape(PackOf[e], x)
  BY PackShape
<1>a. Seeds(i)
  BY DEF Moved
<1>2. /\ s.node \in Nat \ {0}
      /\ \A n \in 1..(s.node - 1) : s.found[n] \in Rows(e) /\ row[e][s.found[n]].node = n
  BY <1>a, FoundAt
<1>3. PICK v \in DOMAIN PackOf[e] : PackOf[e][v].under = x
  BY <1>1 DEF Shape
<1>4. x \in 0..(v - 1) /\ v <= s.node /\ v \in Nat /\ x \in 1..s.node
  BY <1>1, <1>3 DEF Shape
<1>5. x \in 1..(s.node - 1)
  BY <1>2, <1>4
<1>6. PackOf[e][x].kind = "EXAM"
  BY <1>1 DEF Shape
<1> QED BY <1>2, <1>5, <1>6 DEF HasExam, Of

LEMMA PassedStep ==
    ASSUME SeedTyped, RowsInv, FoundInv, PassedInv, NEW i \in Instances,
           Turns(i) \/ Falls(i) \/ Stores(i)
    PROVE  PassedInv'
<1>1. Grows
  BY StepRows
<1>2. PICK s \in InstanceStates : s = instance[i]
  BY ExamOf
<1>3. PICK e \in Exams : e = Exam(i)
  BY ExamOf
<1>4. CASE Turns(i)
  <2>1. PICK t : Enters(i, t) /\ Turn(i, s, t)
    BY <1>2, <1>4 DEF Turns
  <2>2. CASE t = Checking(1)
    <3>1. t.at = "check" /\ t.pack = 1
      BY <2>2 DEF Checking, Down
    <3> QED BY <1>1, <1>2, <1>3, <2>1, <3>1, PassedFrom
  <2>3. CASE After(s, t) /\ s.at = "check" /\ HasExam(Exam(i))
    <3>1. HasExam(e)
      BY <1>3, <2>3
    <3>2. HasExam(e)'
      BY <1>1, <3>1, StillThere
    <3> QED BY <1>1, <1>2, <1>3, <2>1, <2>3, <3>2, PassedFrom
  <2>4. CASE t.at \in {"find", "insert"} /\ s.at \in {"check", "find"} /\ t.pack = s.pack
    BY <1>1, <1>2, <1>3, <2>1, <2>4, PassedFrom
  <2> QED BY <2>1, <2>2, <2>3, <2>4 DEF Turn
<1>5. CASE Falls(i)
  <2>1. Down.at = "down"
    BY DEF Down
  <2> QED BY <1>1, <1>2, <1>3, <1>5, <2>1, PassedFrom DEF Falls
<1>6. CASE Stores(i)
  <2>1. PICK r : Moved(i, r)
    BY <1>6 DEF Stores
  <2>2. PICK t : /\ Enters(i, t)
                 /\ Onward(s, r, t) \/ (After(s, t) /\ s.node = Len(PackOf[ExamIn(s)]))
    BY <1>2, <2>1, MovesOn DEF Enters
  <2>3. s.at \in {"find", "insert"} /\ ExamIn(s) = e
    BY <1>2, <1>3, <2>1 DEF Moved, Seeds, SeedsIn, ExamIn, Exam
  <2>4. CASE After(s, t) /\ s.node = Len(PackOf[e])
    <3>1. HasExam(e)
      BY <1>2, <1>3, <2>1, <2>4, EndHasExam
    <3>2. HasExam(e)'
      BY <1>1, <3>1, StillThere
    <3> QED BY <1>1, <1>2, <1>3, <2>2, <2>3, <2>4, <3>2, PassedFrom
  <2>5. CASE t.at = "find" /\ t.pack = s.pack
    BY <1>1, <1>2, <1>3, <2>2, <2>3, <2>5, PassedFrom
  <2> QED BY <2>2, <2>3, <2>4, <2>5 DEF Onward
<1> QED BY <1>4, <1>5, <1>6

\* What a row has it keeps.
LEMMA CompleteGrows ==
    ASSUME SeedTyped, Grows, NEW exam \in Exams, NEW r \in Rows(exam),
           Complete(exam, r, row[exam])
    PROVE  Complete(exam, r, row'[exam])
<1>1. /\ DOMAIN row[exam] \subseteq DOMAIN row'[exam] /\ r \in DOMAIN row[exam]
      /\ \A q \in DOMAIN row[exam] : row'[exam][q] = row[exam][q]
  BY DEF Grows, Rows
<1> QED BY <1>1 DEF Complete

\* The other instances go on seeding what they seed.
LEMMA OthersCover ==
    ASSUME SeedTyped, NEW i \in Instances, NEW t, Enters(i, t), NEW exam, NEW r,
           NEW j \in Instances, j # i, Covers(instance[j], exam, r)
    PROVE  Covers(instance'[j], exam, r)
BY DEF Enters, SeedTyped

LEMMA CompletedQuiet ==
    ASSUME SeedTyped, CompletedInv, NEW i \in Instances, Turns(i) \/ Falls(i)
    PROVE  CompletedInv'
<1>1. row' = row /\ torn \subseteq torn'
  BY DEF Turns, Falls
<1>2. PICK s \in InstanceStates : s = instance[i]
  BY ExamOf
<1> SUFFICES ASSUME NEW exam \in Exams \ torn', HasExam(exam)', NEW r \in DOMAIN row'[exam]
             PROVE  \/ Complete(exam, r, row'[exam])
                    \/ \E j \in Instances : Covers(instance'[j], exam, r)
  BY DEF CompletedInv, Rows
<1>3. exam \in Exams \ torn /\ HasExam(exam) /\ r \in Rows(exam)
  BY <1>1 DEF HasExam, Of, Rows
<1>4. CASE Complete(exam, r, row[exam])
  BY <1>1, <1>4
<1>5. CASE \E j \in Instances : Covers(instance[j], exam, r)
  <2>1. PICK j \in Instances : Covers(instance[j], exam, r)
    BY <1>5
  <2>2. CASE j # i
    <3>1. PICK t : Enters(i, t)
      BY DEF Turns, Falls
    <3> QED BY <2>1, <2>2, <3>1, OthersCover
  <2>3. CASE j = i
    <3>1. Covers(s, exam, r)
      BY <1>2, <2>1, <2>3
    <3>2. CASE Turns(i)
      <4>1. PICK t : Enters(i, t) /\ Turn(i, s, t)
        BY <1>2, <3>2 DEF Turns
      <4>2. t.at = "insert" /\ t.pack = s.pack /\ t.node = s.node /\ t.found = s.found
        BY <3>1, <4>1 DEF Turn, Covers, SeedsIn
      <4>3. Covers(t, exam, r)
        BY <3>1, <4>2 DEF Covers, SeedsIn, ExamIn, Deep, Held
      <4>4. instance'[i] = t
        BY <4>1 DEF Enters, SeedTyped
      <4> QED BY <4>3, <4>4
    <3>3. CASE Falls(i)
      <4>1. Exam(i) = exam /\ Cut(i) = {Exam(i)}
        BY <1>2, <3>1 DEF Covers, Deep, ExamIn, Exam, Cut
      <4>2. exam \in torn'
        BY <3>3, <4>1 DEF Falls
      <4> QED BY <4>2
    <3> QED BY <3>2, <3>3
  <2> QED BY <2>2, <2>3
<1> QED BY <1>3, <1>4, <1>5 DEF CompletedInv

\* At the end of a pack, what the instance has found has its rows.
LEMMA EndCompletes ==
    ASSUME SeedTyped, FoundInv, NEW i \in Instances, NEW r, Moved(i, r),
           NEW s, s = instance[i], NEW e \in Exams, e = Exam(i)
    PROVE  s.node = Len(PackOf[e]) => \A q \in Held(s) : Complete(e, q, row'[e])
<1>1. PICK x : Shape(PackOf[e], x)
  BY PackShape
<1>2. Seeds(i) /\ Grows /\ r \in DOMAIN row'[e] /\ row'[e][r] = RowOf(e, s.node, s.found)
  BY DEF Moved
<1>a. DOMAIN PackOf[e] = 1..Len(PackOf[e])
  BY <1>1 DEF Shape
<1>3. /\ s.node \in Nat \ {0}
      /\ \A n \in 1..(s.node - 1) :
           /\ s.found[n] \in Rows(e) /\ row[e][s.found[n]] = RowOf(e, n, s.found)
           /\ row[e][s.found[n]].node = n
  <2>1. Seeds(i)
    BY <1>2
  <2> QED BY <2>1, FoundAt
<1> SUFFICES ASSUME s.node = Len(PackOf[e]), NEW q \in Held(s)
             PROVE  Complete(e, q, row'[e])
  OBVIOUS
<1>4. PICK m \in 1..(s.node - 1) : q = s.found[m]
  BY DEF Held
<1>5. \A n \in 1..(s.node - 1) : /\ s.found[n] \in DOMAIN row'[e]
                                 /\ row'[e][s.found[n]] = RowOf(e, n, s.found)
  BY <1>2, <1>3 DEF Grows
<1>6. row'[e][q].node = m
  BY <1>2, <1>3, <1>4 DEF Grows
<1> SUFFICES ASSUME NEW n \in DOMAIN PackOf[e], PackOf[e][n].under = m
             PROVE  \E p \in DOMAIN row'[e] : row'[e][p] = [node |-> n, under |-> q]
  BY <1>6 DEF Complete
<1>7. RowOf(e, n, s.found) = [node |-> n, under |-> q]
  BY <1>3, <1>4 DEF RowOf
<1>8. CASE n = s.node
  BY <1>2, <1>7, <1>8
<1>9. CASE n \in 1..(s.node - 1)
  BY <1>5, <1>7, <1>9
<1> QED BY <1>3, <1>a, <1>8, <1>9

\* On the way, it holds what it has found.
LEMMA OnwardCovers ==
    ASSUME NEW s, NEW r, NEW t, NEW e, Onward(s, r, t), e = ExamIn(s),
           s.node \in Nat \ {0}, DOMAIN s.found = 1..(s.node - 1)
    PROVE  /\ SeedsIn(t) /\ ExamIn(t) = e /\ Held(s) \cup {r} \subseteq Held(t)
           /\ Deep(s) => Deep(t)
<1>1. /\ SeedsIn(t) /\ ExamIn(t) = e
  BY DEF Onward, SeedsIn, ExamIn
<1>2. t.node - 1 = s.node /\ s.node \in 1..s.node /\ DOMAIN t.found = 1..s.node
  BY DEF Onward
<1>3. \A n \in 1..(s.node - 1) : n \in 1..s.node
  OBVIOUS
<1>4. Held(s) \cup {r} \subseteq Held(t)
  BY <1>2, <1>3 DEF Held, Onward
<1>5. Deep(s) => Deep(t)
  BY <1>1, <1>2, <1>3 DEF Deep
<1> QED BY <1>1, <1>4, <1>5

\* A row inserted although the exam is there: the instance has got as far as the exam.
LEMMA InsertsDeep ==
    ASSUME SeedTyped, RowsInv, FoundInv, NEW i \in Instances, Seeds(i), Inserted(i),
           NEW s, s = instance[i], NEW e \in Exams, e = Exam(i), HasExam(e)
    PROVE  Deep(s)
<1>1. PICK x : Shape(PackOf[e], x)
  BY PackShape
<1>2. /\ s.node \in Nat \ {0} /\ s.node \in DOMAIN PackOf[e] /\ ExamIn(s) = e
      /\ DOMAIN s.found = 1..(s.node - 1)
  BY FoundAt
<1>3. PICK r \in Rows(e) : PackOf[e][row[e][r].node].kind = "EXAM"
  BY DEF HasExam, Of
<1>4. PICK n : n = row[e][r].node
  OBVIOUS
<1>5. n \in DOMAIN PackOf[e] /\ \A m \in 1..(n - 1) : \E q \in Rows(e) : row[e][q].node = m
  BY <1>4, RowAt
<1>6. n = x
  BY <1>1, <1>3, <1>4, <1>5 DEF Shape
<1>7. \A m \in 1..x : \E q \in Rows(e) : row[e][q].node = m
  <2> SUFFICES ASSUME NEW m \in 1..x PROVE \E q \in Rows(e) : row[e][q].node = m
    OBVIOUS
  <2>1. CASE m = x
    BY <1>4, <1>6, <2>1
  <2>2. CASE m \in 1..(x - 1)
    BY <1>5, <1>6, <2>2
  <2> QED BY <1>1, <2>1, <2>2 DEF Shape
<1>8. ~(s.node <= x)
  <2> SUFFICES ASSUME s.node <= x PROVE FALSE
    OBVIOUS
  <2>1. PackOf[e][s.node].kind \in UniqueKinds
    BY <1>1, <1>2 DEF Shape
  <2>2. s.node \in 1..x
    BY <1>1, <1>2 DEF Shape
  <2>3. PICK q \in Rows(e) : row[e][q].node = s.node
    BY <1>7, <2>2
  <2>4. Conflicts(i)
    BY <2>1, <2>3 DEF Conflicts, Lookup, Node
  <2> QED BY <2>4 DEF Inserted
<1>9. x \in DOMAIN s.found /\ PackOf[e][x].kind = "EXAM"
  BY <1>1, <1>2, <1>8 DEF Shape
<1> QED BY <1>2, <1>9 DEF Deep

\* The exam inserted: the instance has found every row that is there.
LEMMA InsertsExam ==
    ASSUME SeedTyped, RowsInv, FoundInv, NEW i \in Instances, NEW r, Moved(i, r), Inserted(i),
           NEW s, s = instance[i], NEW e \in Exams, e = Exam(i), ~HasExam(e), HasExam(e)',
           r = Len(row[e]) + 1
    PROVE  /\ s.node < Len(PackOf[e]) /\ PackOf[e][s.node].kind = "EXAM"
           /\ Rows(e) \subseteq Held(s)
<1>1. PICK x : Shape(PackOf[e], x)
  BY PackShape
<1>2. Seeds(i) /\ r \in Nat /\ row'[e][r] = RowOf(e, s.node, s.found)
  BY DEF Moved
<1>3. /\ s.node \in Nat \ {0} /\ s.node \in DOMAIN PackOf[e] /\ ExamIn(s) = e
      /\ \A n \in 1..(s.node - 1) : s.found[n] \in Rows(e) /\ row[e][s.found[n]].node = n
  <2>1. Seeds(i)
    BY <1>2
  <2> QED BY <2>1, FoundAt
<1>4. row'[e] = Append(row[e], RowOf(e, s.node, s.found))
  BY DEF Inserted, SeedTyped
<1>5. PICK q \in DOMAIN row'[e] : PackOf[e][row'[e][q].node].kind = "EXAM"
  BY DEF HasExam, Of, Rows
<1>6. PICK new : new = RowOf(e, s.node, s.found)
  OBVIOUS
<1>7. new \in Row /\ new.node = s.node
  BY <1>2, <1>6, RowOfType
<1>8. /\ row[e] \in Seq(Row) /\ Rows(e) = 1..Len(row[e]) /\ Len(row[e]) \in Nat
  BY RowsType
<1>9. PICK sq \in Seq(Row) : sq = row[e]
  BY <1>8
<1>10. DOMAIN row'[e] = 1..r /\ \A p \in Rows(e) : row'[e][p] = row[e][p]
  BY <1>4, <1>6, <1>7, <1>8, <1>9, Appended DEF Rows
<1>11. q = r
  <2> SUFFICES ASSUME q # r PROVE FALSE
    OBVIOUS
  <2>1. q \in Rows(e)
    BY <1>2, <1>5, <1>8, <1>10
  <2> QED BY <1>5, <1>10, <2>1 DEF HasExam, Of
<1>12. PackOf[e][s.node].kind = "EXAM" /\ s.node = x
  <2>1. row'[e][q].node = s.node
    BY <1>2, <1>6, <1>7, <1>11
  <2> QED BY <1>1, <1>3, <1>5, <2>1 DEF Shape
<1>13. s.node < Len(PackOf[e])
  <2>1. PICK v \in DOMAIN PackOf[e] : PackOf[e][v].under = x
    BY <1>1 DEF Shape
  <2> QED BY <1>1, <1>3, <1>12, <2>1 DEF Shape
<1>14. Rows(e) \subseteq Held(s)
  <2> SUFFICES ASSUME NEW p \in Rows(e) PROVE p \in Held(s)
    OBVIOUS
  <2>1. PICK n : n = row[e][p].node
    OBVIOUS
  <2>2. /\ n \in DOMAIN PackOf[e]
        /\ \A m \in 1..(n - 1) : \E l \in Rows(e) : row[e][l].node = m
        /\ PackOf[e][n].kind \in UniqueKinds => \A l \in Rows(e) : row[e][l].node = n => l = p
    BY <2>1, RowAt
  <2>3. \A l \in Rows(e) : row[e][l].node # x
    BY <1>1 DEF HasExam, Of, Shape
  <2>4. n < x
    <3>1. n \in Nat /\ x \in Nat \ {0} /\ n # x
      BY <1>1, <2>1, <2>2, <2>3 DEF Shape
    <3>2. ~(x \in 1..(n - 1))
      BY <2>2, <2>3
    <3> QED BY <3>1, <3>2
  <2>5. PackOf[e][n].kind \in UniqueKinds /\ n \in 1..(s.node - 1)
    BY <1>1, <1>12, <2>2, <2>4 DEF Shape
  <2>6. s.found[n] = p
    BY <1>3, <2>2, <2>5
  <2> QED BY <2>5, <2>6 DEF Held
<1> QED BY <1>12, <1>13, <1>14

\* What an instance stores leaves no row without its rows, unless an instance is about to
\* store them.
LEMMA CompletedStores ==
    ASSUME SeedTyped, RowsInv, FoundInv, CompletedInv, NEW i \in Instances, Stores(i)
    PROVE  CompletedInv'
<1>1. PICK r : Moved(i, r) /\ (row' = row \/ (Inserted(i) /\ r = Len(row[Exam(i)]) + 1))
  BY DEF Stores
<1>2. PICK s \in InstanceStates : s = instance[i]
  BY ExamOf
<1>3. PICK e \in Exams : e = Exam(i)
  BY ExamOf
<1>4. Seeds(i) /\ Grows /\ torn' = torn
  BY <1>1 DEF Moved
<1>5. /\ s.node \in Nat \ {0} /\ ExamIn(s) = e /\ SeedsIn(s)
      /\ DOMAIN s.found = 1..(s.node - 1)
  BY <1>2, <1>3, <1>4, FoundAt
<1>6. PICK t : /\ Enters(i, t)
               /\ Onward(s, r, t) \/ (After(s, t) /\ s.node = Len(PackOf[ExamIn(s)]))
  BY <1>1, <1>2, MovesOn DEF Enters
<1>7. instance'[i] = t
  BY <1>6 DEF Enters, SeedTyped
<1>8. Onward(s, r, t) \/ s.node = Len(PackOf[e])
  BY <1>5, <1>6
<1>9. Onward(s, r, t) => /\ SeedsIn(t) /\ ExamIn(t) = e /\ Held(s) \cup {r} \subseteq Held(t)
                         /\ Deep(s) => Deep(t)
  BY <1>5, OnwardCovers
\* What the instance holds stays covered, or is complete.
<1>10. \A q \in Held(s) : Deep(s) => Covers(instance'[i], e, q) \/ Complete(e, q, row'[e])
  <2>1. CASE Onward(s, r, t)
    BY <1>7, <1>9, <2>1 DEF Covers
  <2>2. CASE s.node = Len(PackOf[e])
    BY <1>1, <1>2, <1>3, <2>2, EndCompletes
  <2> QED BY <1>8, <2>1, <2>2
<1> SUFFICES ASSUME NEW exam \in Exams \ torn', HasExam(exam)', NEW q \in DOMAIN row'[exam]
             PROVE  \/ Complete(exam, q, row'[exam])
                    \/ \E j \in Instances : Covers(instance'[j], exam, q)
  BY DEF CompletedInv, Rows
\* A row that was there, of an exam that was there.
<1>11. CASE HasExam(exam) /\ q \in Rows(exam)
  <2>1. CASE Complete(exam, q, row[exam])
    BY <1>4, <1>11, <2>1, CompleteGrows
  <2>2. CASE \E j \in Instances : Covers(instance[j], exam, q)
    <3>1. PICK j \in Instances : Covers(instance[j], exam, q)
      BY <2>2
    <3>2. CASE j # i
      BY <1>6, <3>1, <3>2, OthersCover
    <3>3. CASE j = i
      <4>1. exam = e /\ Deep(s) /\ q \in Held(s)
        BY <1>2, <1>5, <3>1, <3>3 DEF Covers
      <4> QED BY <1>10, <4>1
    <3> QED BY <3>2, <3>3
  <2> QED BY <1>4, <1>11, <2>1, <2>2 DEF CompletedInv
<1>12. CASE row' = row \/ exam # e
  <2>1. row'[exam] = row[exam]
    BY <1>1, <1>3, <1>12 DEF Inserted, SeedTyped
  <2>2. HasExam(exam) /\ q \in Rows(exam)
    BY <2>1 DEF HasExam, Of, Rows
  <2> QED BY <1>11, <2>2
<1>13. CASE Inserted(i) /\ r = Len(row[e]) + 1 /\ exam = e /\ ~(HasExam(exam) /\ q \in Rows(exam))
  <2>1. q \in Rows(e) \cup {r}
    <3>1. PICK new : new = RowOf(e, s.node, s.found)
      OBVIOUS
    <3>2. new \in Row
      BY <1>2, <1>3, <1>4, <3>1, RowOfType
    <3>3. PICK sq \in Seq(Row) : sq = row[e]
      BY RowsType
    <3>4. row'[e] = Append(sq, new)
      BY <1>2, <1>3, <1>13, <3>1, <3>3 DEF Inserted, SeedTyped
    <3>5. DOMAIN sq = 1..Len(sq) /\ DOMAIN Append(sq, new) = 1..(Len(sq) + 1) /\ Len(sq) \in Nat
      BY <3>2, Elements, Appended
    <3>6. q \in 1..(Len(sq) + 1) /\ r = Len(sq) + 1
      BY <1>13, <3>3, <3>4, <3>5
    <3> QED BY <3>3, <3>5, <3>6 DEF Rows
  <2>2. CASE HasExam(e)
    <3>1. Deep(s)
      BY <1>2, <1>3, <1>4, <1>13, <2>2, InsertsDeep
    <3>2. q = r
      BY <1>13, <2>1, <2>2
    <3>3. CASE Onward(s, r, t)
      BY <1>7, <1>9, <1>13, <3>1, <3>2, <3>3 DEF Covers
    <3>4. CASE s.node = Len(PackOf[e])
      <4>1. row'[e][r] = RowOf(e, s.node, s.found)
        BY <1>1, <1>2, <1>3 DEF Moved
      <4>2. row'[e][r].node = s.node
        BY <4>1 DEF RowOf
      <4>3. PICK x : Shape(PackOf[e], x)
        BY PackShape
      <4>4. \A n \in DOMAIN PackOf[e] : PackOf[e][n].under # s.node
        BY <1>5, <3>4, <4>3 DEF Shape
      <4> QED BY <1>13, <3>2, <4>2, <4>4 DEF Complete
    <3> QED BY <1>8, <3>3, <3>4
  <2>3. CASE ~HasExam(e)
    <3>1. HasExam(e)'
      BY <1>13
    <3>2. /\ s.node < Len(PackOf[e]) /\ PackOf[e][s.node].kind = "EXAM"
          /\ Rows(e) \subseteq Held(s)
      BY <1>1, <1>2, <1>3, <1>13, <2>3, <3>1, InsertsExam
    <3>3. Onward(s, r, t)
      <4>1. s.node # Len(PackOf[e])
        BY <3>2, <1>4, <1>2, <1>3, FoundAt
      <4> QED BY <1>8, <4>1
    <3>4. Deep(t)
      <4>1. s.node \in DOMAIN t.found
        BY <1>5, <3>3 DEF Onward
      <4> QED BY <1>9, <3>2, <3>3, <4>1 DEF Deep
    <3>5. q \in Held(t)
      BY <1>9, <2>1, <3>2, <3>3
    <3> QED BY <1>7, <1>9, <1>13, <3>3, <3>4, <3>5 DEF Covers
  <2> QED BY <2>2, <2>3
<1> QED BY <1>1, <1>3, <1>11, <1>12, <1>13

-----------------------------------------------------------------------------
(* The exam packs: the invariant, and what it says.                         *)

LEMMA SeedStart == SeedInit => SeedInv
<1> SUFFICES ASSUME SeedInit PROVE SeedInv
  OBVIOUS
<1>1. SeedTyped
  <2>1. 0 \in 0..MaxDeaths /\ <<>> \in Seq(Row)
    BY SeedAssumption
  <2> QED BY <2>1, DownState DEF SeedInit, SeedTyped
<1>2. \A exam \in Exams : Rows(exam) = {}
  BY DEF SeedInit, Rows
<1>3. RowsInv
  BY <1>2 DEF RowsInv, RowsOk, Rows
<1>4. \A exam \in Exams : ~HasExam(exam)
  BY <1>2 DEF HasExam, Of
<1>5. Down.at = "down" /\ Down.pack = 1 /\ Down.node = 1 /\ Down.found = <<>>
  BY DEF Down
<1>6. \A i \in Instances : instance[i] = Down
  BY DEF SeedInit
<1>7. \A rows : FoundOk(Down, rows)
  BY <1>5 DEF FoundOk, SeedsIn
<1> QED BY <1>1, <1>3, <1>4, <1>5, <1>6, <1>7 DEF SeedInv, FoundInv, PassedInv, CompletedInv

LEMMA SeedKept ==
    ASSUME SeedInv, NEW i \in Instances, SeedStep(i)
    PROVE  SeedInv'
<1>1. Turns(i) \/ Falls(i) \/ Stores(i)
  BY StepCases DEF SeedInv
<1>2. SeedTyped' /\ RowsInv' /\ FoundInv' /\ PassedInv'
  BY <1>1, SeedTypedStep, StepRows, FoundStep, PassedStep DEF SeedInv
<1>3. CompletedInv'
  BY <1>1, CompletedQuiet, CompletedStores DEF SeedInv
<1> QED BY <1>2, <1>3 DEF SeedInv

LEMMA SeedIdle == SeedInv /\ UNCHANGED seedVars => SeedInv'
BY DEF SeedInv, seedVars, SeedTyped, RowsInv, FoundInv, PassedInv, CompletedInv, HasExam, Of, Rows,
       Exam

LEMMA SeedTypes == SeedInv => SeedTypeOK
<1> SUFFICES ASSUME SeedInv PROVE SeedTypeOK
  OBVIOUS
<1> USE DEF SeedInv
<1>1. ASSUME NEW exam \in Exams, NEW r \in Rows(exam)
      PROVE  row[exam][r].node \in DOMAIN PackOf[exam] /\ row[exam][r].under \in 0..(r - 1)
  <2>1. PICK n : n = row[exam][r].node
    OBVIOUS
  <2>2. PICK p : p = row[exam][r].under
    OBVIOUS
  <2>3. /\ n \in DOMAIN PackOf[exam]
        /\ PackOf[exam][n].under = 0 => p = 0
        /\ PackOf[exam][n].under # 0 => p \in 1..(r - 1)
    BY <2>1, <2>2, RowAt
  <2>4. r \in Nat \ {0}
    BY RowsType
  <2>5. p \in 0..(r - 1)
    BY <2>3, <2>4
  <2> QED BY <2>1, <2>2, <2>3, <2>5
<1>2. ASSUME NEW i \in Instances
      PROVE  /\ instance[i].at \in {"down", "check", "find", "insert", "serving"}
             /\ instance[i].pack \in DOMAIN Packs
             /\ instance[i].at \in {"find", "insert"} =>
                    Len(instance[i].found) = instance[i].node - 1
  BY DEF SeedTyped, InstanceStates, FoundInv, FoundOk, SeedsIn
<1> QED BY <1>1, <1>2 DEF SeedTypeOK, SeedTyped

LEMMA WholeFromInv == SeedInv => WholeWhenServed
<1> SUFFICES ASSUME SeedInv, NEW j \in Instances, instance[j].at = "serving",
                    NEW exam \in Exams \ torn, ~Seeding(exam)
             PROVE  Of(exam, "VERSION") # {} /\ Whole(exam)
  BY DEF WholeWhenServed
<1> USE DEF SeedInv
<1>1. HasExam(exam)
  BY DEF PassedInv
<1>2. \A r \in Rows(exam) : Complete(exam, r, row[exam])
  <2>1. \A r \in Rows(exam), i \in Instances : ~Covers(instance[i], exam, r)
    BY DEF Seeding, Covers, SeedsIn, ExamIn, Exam
  <2> QED BY <1>1, <2>1 DEF CompletedInv
<1>3. Whole(exam)
  BY <1>2 DEF Whole, Complete, Rows
<1>4. PICK x : Shape(PackOf[exam], x)
  BY PackShape
<1>5. PICK r \in Rows(exam) : PackOf[exam][row[exam][r].node].kind = "EXAM"
  BY <1>1 DEF HasExam, Of
<1>6. PICK n : n = row[exam][r].node
  OBVIOUS
<1>7. n \in DOMAIN PackOf[exam]
  BY <1>6, RowAt
<1>8. n = x
  BY <1>4, <1>5, <1>6, <1>7 DEF Shape
<1>9. PICK v \in DOMAIN PackOf[exam] : PackOf[exam][v].kind = "VERSION" /\ PackOf[exam][v].under = x
  BY <1>4 DEF Shape
<1>10. PICK q \in Rows(exam) : row[exam][q] = [node |-> v, under |-> r]
  BY <1>2, <1>6, <1>8, <1>9 DEF Complete, Rows
<1>11. row[exam][q].node = v
  BY <1>10
<1>12. q \in Of(exam, "VERSION")
  BY <1>9, <1>11 DEF Of
<1> QED BY <1>3, <1>12

-----------------------------------------------------------------------------
(***************************************************************************)
(* The study profiles, and the roadmaps.                                   *)
(***************************************************************************)
Requests ==
    [at : Ats, op : ProfileOps, student : Students \cup {NULL}, ent : Profiles,
     cols : SUBSET Columns, version : Versions \cup {KEEP}, weekly : Minutes \cup {KEEP}]

ProfileTyped ==
    /\ profile \in [Students -> Profiles]
    /\ req \in [Clients -> Requests]
    /\ asked \in [Students -> Minutes \cup {1200}]
    /\ wanted \subseteq Students \X Versions
    /\ mix \in Mixes

\* Profile p of student s, who asked for a minutes a week and wanted the versions w: one that
\* is not there has the default values.
ProfileOk(p, s, a, w, serial) ==
    /\ ~p.there => p.weekly = 1200 /\ p.version = NULL /\ a = 1200
    /\ serial => p.weekly = a
    /\ p.version # NULL => <<s, p.version>> \in w

\* A request of a student with profile p: what it is about to insert is what was sent or the
\* default; what it has loaded has the version of the profile or the one that was sent, and,
\* while no other request of the student is in flight, the minutes.
RequestOk(q, p, w, serial) ==
    /\ q.at # "idle" => q.student \in Students
    /\ q.at = "default" => q.ent = Default
    /\ q.at = "insert" => /\ q.ent.there
                          /\ q.ent.version = IF q.version = KEEP THEN NULL ELSE q.version
                          /\ q.ent.weekly = IF q.weekly = KEEP THEN 1200 ELSE q.weekly
    /\ q.at \in {"loaded", "reread"} =>
         /\ p.there
         /\ q.ent.version # NULL =>
                <<q.student, q.ent.version>> \in w \/ q.ent.version = q.version
         /\ serial => q.ent.weekly = IF q.weekly = KEEP THEN p.weekly ELSE q.weekly
    /\ q.at = "reread" /\ serial => "weekly" \in q.cols \/ q.ent.weekly = p.weekly
    /\ q.at = "plan" /\ q.ent.version # NULL => <<q.student, q.ent.version>> \in w

ProfilesInv == \A s \in Students : ProfileOk(profile[s], s, asked[s], wanted, mix.serial)
RequestsInv ==
    \A c \in Clients : RequestOk(req[c], profile[req[c].student], wanted, mix.serial)

\* Requests of one student do not overlap, where they wait for each other.
ApartInv ==
    mix.serial => \A c, d \in Clients : c # d =>
        req[c].student = NULL \/ req[c].student # req[d].student

ProfileInv == ProfileTyped /\ ProfilesInv /\ RequestsInv /\ ApartInv

\* No other request of student s is in flight.
Alone(c, s) == mix.serial => \A d \in Clients \ {c} : req[d].student # s

LEMMA GivenApart ==
    /\ NULL \notin Students /\ NULL \notin Versions /\ KEEP \notin Versions /\ NULL # KEEP
    /\ KEEP \notin Minutes /\ Minutes \subseteq Nat
BY ProfileAssumption

LEMMA IdleRequest ==
    /\ Idle \in Requests /\ Idle.student = NULL /\ Idle.at = "idle"
    /\ NoProfile \in Profiles /\ Default \in Profiles
    /\ NoProfile = [there |-> FALSE, version |-> NULL, weekly |-> 1200]
    /\ Default.there /\ Default.version = NULL /\ Default.weekly = 1200
    /\ \A p, w, serial : RequestOk(Idle, p, w, serial)
<1>1. NoProfile = [there |-> FALSE, version |-> NULL, weekly |-> 1200] /\ NoProfile \in Profiles
  BY DEF NoProfile, Profiles
<1>2. /\ Default.there /\ Default.version = NULL /\ Default.weekly = 1200
      /\ Default \in Profiles
  <2>1. PICK n : n = NoProfile
    OBVIOUS
  <2>b. PICK b \in BOOLEAN : b = TRUE
    OBVIOUS
  <2>2. PICK d : d = [n EXCEPT !.there = b]
    OBVIOUS
  <2>3. d.there /\ d.version = NULL /\ d.weekly = 1200
    BY <1>1, <2>1, <2>2, <2>b
  <2>a. n \in Profiles
    BY <1>1, <2>1
  <2>4. d \in Profiles
    BY <2>2, <2>a DEF Profiles
  <2>5. Default = d
    BY <2>1, <2>2, <2>b DEF Default
  <2> QED BY <2>3, <2>4, <2>5
<1>3. Idle.student = NULL /\ Idle.at = "idle"
  BY DEF Idle
<1>4. Idle \in Requests
  BY <1>1 DEF Idle, Requests, Ats, ProfileOps
<1> QED BY <1>1, <1>2, <1>3, <1>4 DEF RequestOk

LEMMA Caller ==
    ASSUME ProfileTyped, NEW c \in Clients, NEW op, Starts(c, op)
    PROVE  /\ Me(c) \in Students /\ op \in ProfileOps
           /\ Alone(c, Me(c)) /\ profile[Me(c)] \in Profiles
<1>1. mix.ops \subseteq ProfileOps /\ mix.of \in UNION {[C -> Students] : C \in SUBSET Clients}
  BY ProfileAssumption DEF ProfileTyped
<1>2. PICK C \in SUBSET Clients : mix.of \in [C -> Students]
  BY <1>1
<1>3. Me(c) \in Students
  BY <1>2 DEF Starts, Me
<1> QED BY <1>1, <1>3 DEF Starts, Alone, ProfileTyped

\* The entity with what was sent.
LEMMA PatchedOk ==
    ASSUME NEW p \in Profiles, NEW v \in Versions \cup {KEEP}, NEW w \in Minutes \cup {KEEP},
           NEW e, e = Patched(p, v, w)
    PROVE  /\ e \in Profiles /\ e.there
           /\ e.version = (IF v = KEEP \/ p.version # NULL THEN p.version ELSE v)
           /\ e.weekly = (IF w = KEEP THEN p.weekly ELSE w)
<1>1. /\ e.there /\ e.version = (IF v = KEEP \/ p.version # NULL THEN p.version ELSE v)
      /\ e.weekly = (IF w = KEEP THEN p.weekly ELSE w)
  BY DEF Patched
<1>2. p.version \in Versions \cup {NULL} /\ p.weekly \in Minutes \cup {1200}
  BY DEF Profiles
<1>3. (IF v = KEEP \/ p.version # NULL THEN p.version ELSE v) \in Versions \cup {NULL}
  BY <1>2
<1>4. (IF w = KEEP THEN p.weekly ELSE w) \in Minutes \cup {1200}
  BY <1>2
<1> QED BY <1>1, <1>3, <1>4 DEF Patched, Profiles

\* Student s has profile p, and asked for a minutes.
Keeps(s, p, a) == profile' = [profile EXCEPT ![s] = p] /\ asked' = [asked EXCEPT ![s] = a]

\* A request changes at most the profile of its student, when no other is in flight.
LEMMA ProfileMoves ==
    ASSUME ProfileInv, NEW c \in Clients, NEW q \in Requests, Goes(c, q),
           NEW s \in Students, NEW p \in Profiles, NEW a \in Minutes \cup {1200},
           Keeps(s, p, a), mix' = mix, wanted \subseteq wanted', wanted' \subseteq Students \X Versions,
           Alone(c, s), q.student = NULL \/ q.student = s, profile[s].there => p.there,
           ProfileOk(p, s, a, wanted', mix.serial), RequestOk(q, p, wanted', mix.serial)
    PROVE  ProfileInv'
<1>1. /\ profile \in [Students -> Profiles] /\ req \in [Clients -> Requests]
      /\ asked \in [Students -> Minutes \cup {1200}] /\ mix \in Mixes
      /\ req' = [req EXCEPT ![c] = q]
      /\ profile' = [profile EXCEPT ![s] = p] /\ asked' = [asked EXCEPT ![s] = a]
  BY DEF ProfileInv, ProfileTyped, Goes, Keeps
<1>2. ProfileTyped'
  BY <1>1 DEF ProfileTyped
<1>3. ProfilesInv'
  <2> SUFFICES ASSUME NEW u \in Students
               PROVE  ProfileOk(profile'[u], u, asked'[u], wanted', mix.serial)
    BY DEF ProfilesInv
  <2>1. CASE u = s
    <3>1. profile'[u] = p /\ asked'[u] = a
      BY <1>1, <2>1
    <3> QED BY <2>1, <3>1
  <2>2. CASE u # s
    <3>1. profile'[u] = profile[u] /\ asked'[u] = asked[u]
      BY <1>1, <2>2
    <3>2. ProfileOk(profile[u], u, asked[u], wanted, mix.serial)
      BY DEF ProfileInv, ProfilesInv
    <3> QED BY <3>1, <3>2 DEF ProfileOk
  <2> QED BY <2>1, <2>2
<1>4. RequestsInv'
  <2> SUFFICES ASSUME NEW d \in Clients
               PROVE  RequestOk(req'[d], profile'[req'[d].student], wanted', mix.serial)
    BY DEF RequestsInv
  <2>1. CASE d = c
    <3>1. req'[d] = q
      BY <1>1, <2>1
    <3>2. CASE q.student = s
      <4>1. profile'[s] = p
        BY <1>1
      <4> QED BY <3>1, <3>2, <4>1
    <3>3. CASE q.student = NULL
      <4>1. q.at = "idle"
        BY <3>3, GivenApart DEF RequestOk
      <4> QED BY <3>1, <4>1 DEF RequestOk
    <3> QED BY <3>2, <3>3
  <2>2. CASE d # c
    <3>1. PICK r \in Requests : r = req[d]
      BY <1>1
    <3>2. req'[d] = r
      BY <1>1, <2>2, <3>1
    <3>3. PICK u : u = r.student
      OBVIOUS
    <3>4. RequestOk(r, profile[u], wanted, mix.serial)
      BY <3>1, <3>3 DEF ProfileInv, RequestsInv
    <3>5. CASE r.at = "idle"
      BY <3>2, <3>5 DEF RequestOk
    <3>6. CASE r.at # "idle"
      <4>1. u \in Students
        BY <3>3, <3>4, <3>6 DEF RequestOk
      <4>2. profile[u].there => profile'[u].there
        BY <1>1, <4>1
      <4>3. mix.serial => profile'[u] = profile[u]
        BY <1>1, <2>2, <3>1, <3>3, <4>1 DEF Alone
      <4>4. RequestOk(r, profile'[u], wanted', mix.serial)
        <5>1. PICK pu : pu = profile[u]
          OBVIOUS
        <5>2. PICK pv : pv = profile'[u]
          OBVIOUS
        <5>3. pu.there => pv.there
          BY <4>2, <5>1, <5>2
        <5>4. mix.serial => pv = pu
          BY <4>3, <5>1, <5>2
        <5>5. RequestOk(r, pu, wanted, mix.serial)
          BY <3>4, <5>1
        <5>6. RequestOk(r, pv, wanted', mix.serial)
          BY <5>3, <5>4, <5>5 DEF RequestOk
        <5> QED BY <5>2, <5>6
      <4> QED BY <3>2, <3>3, <4>4
    <3> QED BY <3>5, <3>6
  <2> QED BY <2>1, <2>2
<1>5. ApartInv'
  <2> SUFFICES ASSUME mix.serial, NEW b \in Clients, NEW d \in Clients, b # d
               PROVE  req'[b].student = NULL \/ req'[b].student # req'[d].student
    BY DEF ApartInv
  <2>1. \A f \in Clients \ {c} : req'[f] = req[f]
    BY <1>1
  <2>2. req'[c] = q
    BY <1>1
  <2>3. CASE b # c /\ d # c
    BY <2>1, <2>3 DEF ProfileInv, ApartInv
  <2>4. CASE b = c
    BY <2>1, <2>2, <2>4 DEF Alone
  <2>5. CASE d = c
    <3>1. req'[b].student = req[b].student /\ req[b].student # s
      BY <2>1, <2>5 DEF Alone
    <3> QED BY <2>2, <2>5, <3>1
  <2> QED BY <2>3, <2>4, <2>5
<1> QED BY <1>2, <1>3, <1>4, <1>5 DEF ProfileInv

\* A request goes on, and nothing is stored.
LEMMA RequestMoves ==
    ASSUME ProfileInv, NEW c \in Clients, NEW q \in Requests, Goes(c, q),
           UNCHANGED <<profile, asked, wanted, mix>>, NEW s \in Students, Alone(c, s),
           q.student = s, RequestOk(q, profile[s], wanted, mix.serial)
    PROVE  ProfileInv'
<1>1. PICK p \in Profiles : p = profile[s]
  BY DEF ProfileInv, ProfileTyped
<1>2. PICK a \in Minutes \cup {1200} : a = asked[s]
  BY DEF ProfileInv, ProfileTyped
<1>3. Keeps(s, p, a)
  BY <1>1, <1>2 DEF Keeps, ProfileInv, ProfileTyped
<1>4. ProfileOk(p, s, a, wanted', mix.serial)
  BY <1>1, <1>2 DEF ProfileInv, ProfilesInv
<1>5. RequestOk(q, p, wanted', mix.serial)
  BY <1>1
<1>6. wanted \subseteq wanted' /\ wanted' \subseteq Students \X Versions
  BY DEF ProfileInv, ProfileTyped
<1>7. mix' = mix /\ (profile[s].there => p.there)
  BY <1>1
<1>8. q.student = NULL \/ q.student = s
  OBVIOUS
<1> QED BY <1>3, <1>4, <1>5, <1>6, <1>7, <1>8, ProfileMoves

\* Requests end, and nothing is stored.
LEMMA RequestsEnd ==
    ASSUME ProfileInv, NEW lost \in SUBSET Clients,
           req' = [c \in Clients |-> IF c \in lost THEN Idle ELSE req[c]],
           UNCHANGED <<profile, asked, wanted, mix>>
    PROVE  ProfileInv'
<1>1. \A c \in Clients : req'[c] = IF c \in lost THEN Idle ELSE req[c]
  OBVIOUS
<1>2. ProfileTyped'
  BY <1>1, IdleRequest DEF ProfileInv, ProfileTyped
<1>3. ProfilesInv'
  BY DEF ProfileInv, ProfilesInv
<1>4. RequestsInv'
  <2> SUFFICES ASSUME NEW d \in Clients
               PROVE  RequestOk(req'[d], profile'[req'[d].student], wanted', mix'.serial)
    BY DEF RequestsInv
  <2>1. CASE d \in lost
    BY <1>1, <2>1, IdleRequest
  <2>2. CASE d \notin lost
    BY <1>1, <2>2 DEF ProfileInv, RequestsInv
  <2> QED BY <2>1, <2>2
<1>5. ApartInv'
  BY <1>1, IdleRequest DEF ProfileInv, ApartInv
<1> QED BY <1>2, <1>3, <1>4, <1>5 DEF ProfileInv

LEMMA OneEnds ==
    ASSUME ProfileInv, NEW c \in Clients, Goes(c, Idle), UNCHANGED <<profile, asked, wanted, mix>>
    PROVE  ProfileInv'
<1>1. req' = [d \in Clients |-> IF d \in {c} THEN Idle ELSE req[d]]
  BY DEF Goes, ProfileInv, ProfileTyped
<1> QED BY <1>1, RequestsEnd

\* A request that starts.
LEMMA DoingOk ==
    ASSUME ProfileTyped, NEW c \in Clients, NEW op \in ProfileOps, NEW at \in Ats,
           NEW ent \in Profiles, Me(c) \in Students, NEW q, q = Doing(c, op, at, ent)
    PROVE  /\ q \in Requests /\ q.op = op /\ q.at = at /\ q.student = Me(c) /\ q.ent = ent
           /\ q.version = KEEP /\ q.weekly = KEEP
<1>1. PICK idle \in Requests : idle = Idle
  BY IdleRequest
<1>2. idle.version = KEEP /\ idle.weekly = KEEP
  BY <1>1 DEF Idle
<1>3. PICK s \in Students : s = Me(c)
  OBVIOUS
<1>4. q = [idle EXCEPT !.op = op, !.at = at, !.student = s, !.ent = ent]
  BY <1>1, <1>3 DEF Doing
<1> QED BY <1>2, <1>3, <1>4 DEF Requests

\* What a request that loads the profile makes of it.
LEMMA LoadedOk ==
    ASSUME NEW q \in Requests, NEW p \in Profiles, NEW w, NEW serial, q.at = "loaded",
           q.student \in Students, p.there, ProfileOk(p, q.student, 0, w, FALSE),
           NEW e, e = Patched(p, q.version, q.weekly), q.ent = e
    PROVE  RequestOk(q, p, w, serial)
<1>1. q.version \in Versions \cup {KEEP} /\ q.weekly \in Minutes \cup {KEEP}
  BY DEF Requests
<1>2. /\ e.version = (IF q.version = KEEP \/ p.version # NULL THEN p.version ELSE q.version)
      /\ e.weekly = (IF q.weekly = KEEP THEN p.weekly ELSE q.weekly)
  BY <1>1, PatchedOk
<1>3. e.version # NULL => <<q.student, e.version>> \in w \/ e.version = q.version
  BY <1>2 DEF ProfileOk
<1> QED BY <1>2, <1>3 DEF RequestOk

LEMMA GetKeeps ==
    ASSUME ProfileInv, NEW c \in Clients, GetProfile(c)
    PROVE  ProfileInv'
<1>1. PICK s \in Students : s = Me(c) /\ Alone(c, s)
  BY Caller DEF GetProfile, ProfileInv
<1>2. PICK q : q = Doing(c, "get", "default", Default)
  OBVIOUS
<1>3. q \in Requests /\ q.at = "default" /\ q.student = s /\ q.ent = Default
  BY <1>1, <1>2, DoingOk, IdleRequest DEF ProfileInv, ProfileOps, Ats
<1>4. RequestOk(q, profile[s], wanted, mix.serial)
  BY <1>3 DEF RequestOk
<1>5. Goes(c, q) /\ UNCHANGED <<profile, asked, wanted, mix>>
  BY <1>2 DEF GetProfile
<1> QED BY <1>1, <1>3, <1>4, <1>5, RequestMoves

LEMMA SaveKeeps ==
    ASSUME ProfileInv, NEW c \in Clients, NEW v \in Versions, NEW w \in Minutes \cup {KEEP},
           SaveProfile(c, v, w)
    PROVE  ProfileInv'
<1>1. PICK s \in Students : s = Me(c) /\ Alone(c, s)
  BY Caller DEF SaveProfile, ProfileInv
<1>2. PICK p \in Profiles : p = profile[s]
  BY DEF ProfileInv, ProfileTyped
<1>3. UNCHANGED <<profile, asked, wanted, mix>>
  BY DEF SaveProfile
<1>v. v \in Versions \cup {KEEP}
  OBVIOUS
<1>4. ProfileTyped
  BY DEF ProfileInv
<1>5. CASE p.there
  <2>1. PICK e : e = Patched(p, v, w)
    OBVIOUS
  <2>2. e \in Profiles
    BY <2>1, PatchedOk
  <2>3. PICK d : d = Doing(c, "save", "loaded", e)
    OBVIOUS
  <2>4. d \in Requests /\ d.at = "loaded" /\ d.student = s /\ d.ent = e
    BY <1>1, <1>4, <2>2, <2>3, DoingOk DEF ProfileOps, Ats
  <2>5. PICK q : q = [d EXCEPT !.version = v, !.weekly = w]
    OBVIOUS
  <2>6. /\ q \in Requests /\ q.at = "loaded" /\ q.student = s /\ q.ent = e /\ q.version = v
        /\ q.weekly = w
    BY <1>v, <2>4, <2>5 DEF Requests
  <2>7. Goes(c, q)
    BY <1>1, <1>2, <1>5, <2>1, <2>3, <2>5 DEF SaveProfile
  <2>8. ProfileOk(p, s, 0, wanted, FALSE)
    BY <1>2, <1>5 DEF ProfileInv, ProfilesInv, ProfileOk
  <2>9. RequestOk(q, p, wanted, mix.serial)
    BY <1>5, <2>1, <2>6, <2>8, LoadedOk
  <2> QED BY <1>1, <1>2, <1>3, <2>6, <2>7, <2>9, RequestMoves
<1>6. CASE ~p.there
  <2>0. PICK f \in Profiles : f = Default
    BY IdleRequest
  <2>1. PICK e : e = Patched(f, v, w)
    OBVIOUS
  <2>2. /\ e \in Profiles /\ e.there /\ e.version = (IF v = KEEP THEN NULL ELSE v)
        /\ e.weekly = (IF w = KEEP THEN 1200 ELSE w)
    BY <2>0, <2>1, PatchedOk, IdleRequest
  <2>3. PICK d : d = Doing(c, "save", "insert", e)
    OBVIOUS
  <2>4. d \in Requests /\ d.at = "insert" /\ d.student = s /\ d.ent = e
    BY <1>1, <1>4, <2>2, <2>3, DoingOk DEF ProfileOps, Ats
  <2>5. PICK q : q = [d EXCEPT !.version = v, !.weekly = w]
    OBVIOUS
  <2>6. /\ q \in Requests /\ q.at = "insert" /\ q.student = s /\ q.ent = e /\ q.version = v
        /\ q.weekly = w
    BY <1>v, <2>4, <2>5 DEF Requests
  <2>7. Goes(c, q)
    BY <1>1, <1>2, <1>6, <2>0, <2>1, <2>3, <2>5 DEF SaveProfile
  <2>8. RequestOk(q, p, wanted, mix.serial)
    BY <2>2, <2>6 DEF RequestOk
  <2> QED BY <1>1, <1>2, <1>3, <2>6, <2>7, <2>8, RequestMoves
<1> QED BY <1>5, <1>6

LEMMA UpdateKeeps ==
    ASSUME ProfileInv, NEW c \in Clients, NEW v \in Versions \cup {KEEP},
           NEW w \in Minutes \cup {KEEP}, UpdateProfile(c, v, w)
    PROVE  ProfileInv'
<1>1. PICK s \in Students : s = Me(c) /\ Alone(c, s)
  BY Caller DEF UpdateProfile, ProfileInv
<1>2. PICK p \in Profiles : p = profile[s]
  BY DEF ProfileInv, ProfileTyped
<1>3. UNCHANGED <<profile, asked, wanted, mix>>
  BY DEF UpdateProfile
<1>4. ProfileTyped
  BY DEF ProfileInv
<1>5. CASE p.there
  <2>1. PICK e : e = Patched(p, v, w)
    OBVIOUS
  <2>2. e \in Profiles
    BY <2>1, PatchedOk
  <2>3. PICK d : d = Doing(c, "update", "loaded", e)
    OBVIOUS
  <2>4. d \in Requests /\ d.at = "loaded" /\ d.student = s /\ d.ent = e
    BY <1>1, <1>4, <2>2, <2>3, DoingOk DEF ProfileOps, Ats
  <2>5. PICK q : q = [d EXCEPT !.version = v, !.weekly = w]
    OBVIOUS
  <2>6. /\ q \in Requests /\ q.at = "loaded" /\ q.student = s /\ q.ent = e /\ q.version = v
        /\ q.weekly = w
    BY <2>4, <2>5 DEF Requests
  <2>7. Goes(c, q)
    BY <1>1, <1>2, <1>5, <2>1, <2>3, <2>5 DEF UpdateProfile
  <2>8. ProfileOk(p, s, 0, wanted, FALSE)
    BY <1>2, <1>5 DEF ProfileInv, ProfilesInv, ProfileOk
  <2>9. RequestOk(q, p, wanted, mix.serial)
    BY <1>5, <2>1, <2>6, <2>8, LoadedOk
  <2> QED BY <1>1, <1>2, <1>3, <2>6, <2>7, <2>9, RequestMoves
<1>6. CASE ~p.there
  <2>3. PICK d : d = Doing(c, "update", "default", Default)
    OBVIOUS
  <2>4. d \in Requests /\ d.at = "default" /\ d.student = s /\ d.ent = Default
    BY <1>1, <1>4, <2>3, DoingOk, IdleRequest DEF ProfileOps, Ats
  <2>5. PICK q : q = [d EXCEPT !.version = v, !.weekly = w]
    OBVIOUS
  <2>6. q \in Requests /\ q.at = "default" /\ q.student = s /\ q.ent = Default
    BY <2>4, <2>5 DEF Requests
  <2>7. Goes(c, q)
    BY <1>1, <1>2, <1>6, <2>3, <2>5 DEF UpdateProfile
  <2>8. RequestOk(q, p, wanted, mix.serial)
    BY <2>6 DEF RequestOk
  <2> QED BY <1>1, <1>2, <1>3, <2>6, <2>7, <2>8, RequestMoves
<1> QED BY <1>5, <1>6

\* A request in flight.
LEMMA InFlight ==
    ASSUME ProfileInv, NEW c \in Clients, NEW q, q = req[c], q.at # "idle", NEW s, s = q.student
    PROVE  /\ q \in Requests /\ s \in Students /\ Alone(c, s) /\ profile[s] \in Profiles
           /\ RequestOk(q, profile[s], wanted, mix.serial)
           /\ ProfileOk(profile[s], s, asked[s], wanted, mix.serial)
           /\ asked[s] \in Minutes \cup {1200}
<1>1. q \in Requests /\ RequestOk(q, profile[s], wanted, mix.serial)
  BY DEF ProfileInv, ProfileTyped, RequestsInv
<1>2. s \in Students
  BY <1>1 DEF RequestOk
<1>3. Alone(c, s)
  BY <1>2, GivenApart DEF Alone, ProfileInv, ApartInv
<1> QED BY <1>1, <1>2, <1>3 DEF ProfileInv, ProfileTyped, ProfilesInv

LEMMA InsertDefaultKeeps ==
    ASSUME ProfileInv, NEW c \in Clients, InsertDefault(c)
    PROVE  ProfileInv'
<1>1. PICK q : q = req[c] /\ q.at = "default"
  BY DEF InsertDefault
<1>2. PICK s : s = q.student
  OBVIOUS
<1>3. /\ q \in Requests /\ s \in Students /\ Alone(c, s) /\ profile[s] \in Profiles
      /\ RequestOk(q, profile[s], wanted, mix.serial)
      /\ ProfileOk(profile[s], s, asked[s], wanted, mix.serial)
  BY <1>1, <1>2, InFlight
<1>4. UNCHANGED <<asked, wanted, mix>>
  BY DEF InsertDefault
<1>5. CASE profile[s].there
  BY <1>1, <1>2, <1>4, <1>5, OneEnds DEF InsertDefault
<1>6. CASE ~profile[s].there
  <2>1. PICK f \in Profiles : f = Default /\ f.there /\ f.version = NULL /\ f.weekly = 1200
    BY IdleRequest
  <2>2. q.ent = f /\ asked[s] = 1200
    BY <1>1, <1>3, <1>6, <2>1 DEF RequestOk, ProfileOk
  <2>3. PICK a : a = 1200 /\ a \in Minutes \cup {1200}
    OBVIOUS
  <2>4. Keeps(s, f, a)
    BY <1>1, <1>2, <1>4, <1>6, <2>2, <2>3 DEF InsertDefault, Keeps, ProfileInv, ProfileTyped
  <2>5. ProfileOk(f, s, a, wanted', mix.serial) /\ ProfileOk(f, s, 0, wanted', FALSE)
    BY <2>1, <2>3 DEF ProfileOk
  <2>6. wanted \subseteq wanted' /\ wanted' \subseteq Students \X Versions /\ mix' = mix
    BY <1>4 DEF ProfileInv, ProfileTyped
  <2>7. CASE q.op = "get"
    <3>1. Goes(c, Idle)
      BY <1>1, <1>2, <1>6, <2>7 DEF InsertDefault
    <3>2. PICK n \in Requests : n = Idle /\ n.student = NULL /\ RequestOk(n, f, wanted', mix.serial)
      BY IdleRequest
    <3> QED BY <1>3, <1>6, <2>1, <2>3, <2>4, <2>5, <2>6, <3>1, <3>2, ProfileMoves
  <2>8. CASE q.op # "get"
    <3>1. PICK e : e = Patched(f, q.version, q.weekly)
      OBVIOUS
    <3>2. q.version \in Versions \cup {KEEP} /\ q.weekly \in Minutes \cup {KEEP}
      BY <1>3 DEF Requests
    <3>3. e \in Profiles
      BY <3>1, <3>2, PatchedOk
    <3>4. PICK n : n = [q EXCEPT !.at = "loaded", !.ent = e]
      OBVIOUS
    <3>5. /\ n \in Requests /\ n.at = "loaded" /\ n.student = s /\ n.ent = e
          /\ n.version = q.version /\ n.weekly = q.weekly
      <4>1. q \in Requests
        BY <1>3
      <4> QED BY <1>2, <3>3, <3>4, <4>1 DEF Requests, Ats
    <3>6. Goes(c, n)
      BY <1>1, <1>2, <1>6, <2>2, <2>8, <3>1, <3>4 DEF InsertDefault
    <3>7. RequestOk(n, f, wanted', mix.serial)
      <4>1. e = Patched(f, n.version, n.weekly)
        BY <3>1, <3>5
      <4>2. n.student \in Students /\ ProfileOk(f, n.student, 0, wanted', FALSE)
        BY <1>3, <2>5, <3>5
      <4>3. n \in Requests /\ n.at = "loaded" /\ n.ent = e
        BY <3>5
      <4>4. f.there
        BY <2>1
      <4> QED BY <4>1, <4>2, <4>3, <4>4, LoadedOk
    <3> QED BY <1>3, <1>6, <2>1, <2>3, <2>4, <2>5, <2>6, <3>5, <3>6, <3>7, ProfileMoves
  <2> QED BY <2>7, <2>8
<1> QED BY <1>5, <1>6

\* What a request stores: the minutes and the version that were sent.
LEMMA StoredOk ==
    ASSUME ProfileInv, NEW q \in Requests, NEW s \in Students, s = q.student, Stored(q)
    PROVE  /\ asked' = [asked EXCEPT ![s] = IF q.weekly = KEEP THEN asked[s] ELSE q.weekly]
           /\ wanted \subseteq wanted' /\ wanted' \subseteq Students \X Versions
           /\ q.version # KEEP => <<s, q.version>> \in wanted'
<1>1. q.version \in Versions \cup {KEEP} /\ q.weekly \in Minutes \cup {KEEP}
  BY DEF Requests
<1>2. asked \in [Students -> Minutes \cup {1200}] /\ wanted \subseteq Students \X Versions
  BY DEF ProfileInv, ProfileTyped
<1>3. asked' = [asked EXCEPT ![s] = IF q.weekly = KEEP THEN asked[s] ELSE q.weekly]
  BY <1>2 DEF Stored
<1>4. /\ wanted \subseteq wanted' /\ wanted' \subseteq Students \X Versions
      /\ q.version # KEEP => <<s, q.version>> \in wanted'
  BY <1>1, <1>2 DEF Stored
<1> QED BY <1>3, <1>4

LEMMA InsertProfileKeeps ==
    ASSUME ProfileInv, NEW c \in Clients, InsertProfile(c)
    PROVE  ProfileInv'
<1>1. PICK q : q = req[c] /\ q.at = "insert"
  BY DEF InsertProfile
<1>2. PICK s : s = q.student
  OBVIOUS
<1>3. /\ q \in Requests /\ s \in Students /\ Alone(c, s) /\ profile[s] \in Profiles
      /\ RequestOk(q, profile[s], wanted, mix.serial)
      /\ ProfileOk(profile[s], s, asked[s], wanted, mix.serial)
  BY <1>1, <1>2, InFlight
<1>4. Goes(c, Idle) /\ mix' = mix
  BY DEF InsertProfile
<1>5. CASE profile[s].there
  BY <1>1, <1>2, <1>4, <1>5, OneEnds DEF InsertProfile
<1>6. CASE ~profile[s].there
  <2>1. PICK p : p = q.ent
    OBVIOUS
  <2>2. /\ p \in Profiles /\ p.there
        /\ p.version = (IF q.version = KEEP THEN NULL ELSE q.version)
        /\ p.weekly = (IF q.weekly = KEEP THEN 1200 ELSE q.weekly)
        /\ q.weekly \in Minutes \cup {KEEP} /\ asked[s] = 1200
    BY <1>1, <1>3, <1>6, <2>1 DEF Requests, RequestOk, ProfileOk
  <2>3. PICK a : a = p.weekly
    OBVIOUS
  <2>4. a \in Minutes \cup {1200}
    BY <2>2, <2>3
  <2>5. Stored(q) /\ profile' = [profile EXCEPT ![s] = p]
    BY <1>1, <1>2, <1>6, <2>1 DEF InsertProfile
  <2>6. /\ asked' = [asked EXCEPT ![s] = IF q.weekly = KEEP THEN asked[s] ELSE q.weekly]
        /\ wanted \subseteq wanted' /\ wanted' \subseteq Students \X Versions
        /\ q.version # KEEP => <<s, q.version>> \in wanted'
    BY <1>2, <1>3, <2>5, StoredOk
  <2>7. a = IF q.weekly = KEEP THEN asked[s] ELSE q.weekly
    BY <2>2, <2>3
  <2>8. Keeps(s, p, a)
    BY <2>5, <2>6, <2>7 DEF Keeps
  <2>9. ProfileOk(p, s, a, wanted', mix.serial)
    BY <2>2, <2>3, <2>6 DEF ProfileOk
  <2>10. PICK n : n = Idle /\ n \in Requests /\ n.student = NULL /\ RequestOk(n, p, wanted', mix.serial)
    BY IdleRequest
  <2>11. Goes(c, n)
    BY <1>4, <2>10
  <2>12. profile[s].there => p.there
    BY <1>6
  <2> QED BY <1>3, <1>4, <2>2, <2>4, <2>6, <2>8, <2>9, <2>10, <2>11, <2>12, ProfileMoves
<1> QED BY <1>5, <1>6

LEMMA RereadKeeps ==
    ASSUME ProfileInv, NEW c \in Clients, Reread(c)
    PROVE  ProfileInv'
<1>1. PICK q : q = req[c] /\ q.at = "loaded"
  BY DEF Reread
<1>2. PICK s : s = q.student
  OBVIOUS
<1>3. /\ q \in Requests /\ s \in Students /\ Alone(c, s) /\ profile[s] \in Profiles
      /\ RequestOk(q, profile[s], wanted, mix.serial)
  BY <1>1, <1>2, InFlight
<1>4. PICK p : p = profile[s]
  OBVIOUS
<1>5. PICK cols : cols = {f \in Columns : q.ent[f] # p[f]}
  OBVIOUS
<1>6. cols \subseteq Columns /\ ("weekly" \in cols \/ q.ent.weekly = p.weekly)
  BY <1>5 DEF Columns
<1>7. PICK n : n = [q EXCEPT !.at = "reread", !.cols = cols]
  OBVIOUS
<1>8. /\ n \in Requests /\ n.at = "reread" /\ n.student = s /\ n.ent = q.ent
      /\ n.cols = cols /\ n.version = q.version /\ n.weekly = q.weekly
  <2>1. q \in Requests
    BY <1>3
  <2> QED BY <1>2, <1>6, <1>7, <2>1 DEF Requests, Ats
<1>9. Goes(c, n) /\ UNCHANGED <<profile, asked, wanted, mix>>
  BY <1>1, <1>2, <1>4, <1>5, <1>7 DEF Reread
<1>10. RequestOk(q, p, wanted, mix.serial)
  BY <1>3, <1>4
<1>11. RequestOk(n, p, wanted, mix.serial)
  BY <1>1, <1>2, <1>3, <1>6, <1>8, <1>10 DEF RequestOk
<1>12. RequestOk(n, profile[s], wanted, mix.serial)
  BY <1>4, <1>11
<1> QED BY <1>3, <1>8, <1>9, <1>12, RequestMoves

LEMMA WriteKeeps ==
    ASSUME ProfileInv, NEW c \in Clients, WriteProfile(c)
    PROVE  ProfileInv'
<1>1. PICK q : q = req[c] /\ q.at = "reread"
  BY DEF WriteProfile
<1>2. PICK s : s = q.student
  OBVIOUS
<1>3. /\ q \in Requests /\ s \in Students /\ Alone(c, s) /\ profile[s] \in Profiles
      /\ RequestOk(q, profile[s], wanted, mix.serial)
      /\ ProfileOk(profile[s], s, asked[s], wanted, mix.serial)
      /\ asked[s] \in Minutes \cup {1200}
  BY <1>1, <1>2, InFlight
<1>4. PICK old : old = profile[s]
  OBVIOUS
<1>5. PICK p : p = [f \in DOMAIN NoProfile |-> IF f \in q.cols THEN q.ent[f] ELSE old[f]]
  OBVIOUS
<1>6. DOMAIN NoProfile = {"there", "version", "weekly"}
  BY DEF NoProfile
<1>7. /\ p.there = old.there
      /\ p.version = (IF "version" \in q.cols THEN q.ent.version ELSE old.version)
      /\ p.weekly = (IF "weekly" \in q.cols THEN q.ent.weekly ELSE old.weekly)
  <2>1. q.cols \subseteq Columns
    BY <1>3 DEF Requests
  <2>2. "there" \notin q.cols
    BY <2>1 DEF Columns
  <2> QED BY <1>5, <1>6, <2>2
<1>8. p \in Profiles
  <2>1. q.ent \in Profiles /\ old \in Profiles
    BY <1>3, <1>4 DEF Requests
  <2>2. /\ p.there \in BOOLEAN /\ p.version \in Versions \cup {NULL}
        /\ p.weekly \in Minutes \cup {1200}
    BY <1>7, <2>1 DEF Profiles
  <2>3. p = [there |-> p.there, version |-> p.version, weekly |-> p.weekly]
    BY <1>5, <1>6
  <2> QED BY <2>2, <2>3 DEF Profiles
<1>9. PICK a : a = IF q.weekly = KEEP THEN asked[s] ELSE q.weekly
  OBVIOUS
<1>10. a \in Minutes \cup {1200}
  BY <1>3, <1>9 DEF Requests
<1>11. Stored(q) /\ profile' = [profile EXCEPT ![s] = p] /\ Goes(c, Idle) /\ mix' = mix
  BY <1>1, <1>2, <1>4, <1>5 DEF WriteProfile, ProfileInv, ProfileTyped
<1>12. /\ asked' = [asked EXCEPT ![s] = IF q.weekly = KEEP THEN asked[s] ELSE q.weekly]
       /\ wanted \subseteq wanted' /\ wanted' \subseteq Students \X Versions
       /\ q.version # KEEP => <<s, q.version>> \in wanted'
  BY <1>2, <1>3, <1>11, StoredOk
<1>13. Keeps(s, p, a)
  BY <1>9, <1>11, <1>12 DEF Keeps
<1>14. /\ old.there /\ (mix.serial => old.weekly = asked[s])
       /\ old.version # NULL => <<s, old.version>> \in wanted
  BY <1>1, <1>3, <1>4 DEF RequestOk, ProfileOk
<1>15. /\ q.ent.version # NULL => <<s, q.ent.version>> \in wanted \/ q.ent.version = q.version
       /\ mix.serial => q.ent.weekly = IF q.weekly = KEEP THEN old.weekly ELSE q.weekly
       /\ mix.serial => "weekly" \in q.cols \/ q.ent.weekly = old.weekly
  BY <1>1, <1>2, <1>3, <1>4 DEF RequestOk
<1>16. p.version # NULL => <<s, p.version>> \in wanted'
  <2>1. q.ent.version \in Versions \cup {NULL} /\ KEEP \notin Versions /\ KEEP # NULL
    BY <1>3, GivenApart DEF Requests, Profiles
  <2> QED BY <1>7, <1>12, <1>14, <1>15, <2>1
<1>17. mix.serial => p.weekly = a
  BY <1>7, <1>9, <1>14, <1>15
<1>18. ProfileOk(p, s, a, wanted', mix.serial)
  BY <1>7, <1>14, <1>16, <1>17 DEF ProfileOk
<1>19. PICK n : n = Idle /\ n \in Requests /\ n.student = NULL /\ RequestOk(n, p, wanted', mix.serial)
  BY IdleRequest
<1>20. Goes(c, n) /\ (profile[s].there => p.there)
  BY <1>4, <1>7, <1>11, <1>19
<1> QED BY <1>3, <1>8, <1>10, <1>11, <1>12, <1>13, <1>18, <1>19, <1>20, ProfileMoves

LEMMA AskKeeps ==
    ASSUME ProfileInv, NEW c \in Clients, AskRoadmap(c)
    PROVE  ProfileInv'
<1>1. PICK s \in Students : s = Me(c) /\ Alone(c, s)
  BY Caller DEF AskRoadmap, ProfileInv
<1>2. PICK p : p = profile[s]
  OBVIOUS
<1>3. p \in Profiles /\ (p.version # NULL => <<s, p.version>> \in wanted)
  BY <1>2 DEF ProfileInv, ProfileTyped, ProfilesInv, ProfileOk
<1>4. PICK q : q = Doing(c, "generate", "plan", p)
  OBVIOUS
<1>5. q \in Requests /\ q.at = "plan" /\ q.student = s /\ q.ent = p
  BY <1>1, <1>3, <1>4, DoingOk DEF ProfileInv, ProfileOps, Ats
<1>6. RequestOk(q, profile[s], wanted, mix.serial)
  BY <1>3, <1>5 DEF RequestOk
<1>7. Goes(c, q) /\ UNCHANGED <<profile, asked, wanted, mix>>
  BY <1>1, <1>2, <1>4 DEF AskRoadmap
<1> QED BY <1>1, <1>5, <1>6, <1>7, RequestMoves

LEMMA ProfileStart == ProfileInit => ProfileInv
<1> SUFFICES ASSUME ProfileInit PROVE ProfileInv
  OBVIOUS
<1>1. ProfileTyped
  BY IdleRequest DEF ProfileInit, ProfileTyped
<1>2. ProfilesInv
  <2> SUFFICES ASSUME NEW s \in Students
               PROVE  ProfileOk(profile[s], s, asked[s], wanted, mix.serial)
    BY DEF ProfilesInv
  <2>1. profile[s] = NoProfile /\ asked[s] = 1200
    BY DEF ProfileInit
  <2>2. NoProfile.there = FALSE /\ NoProfile.version = NULL /\ NoProfile.weekly = 1200
    BY DEF NoProfile
  <2> QED BY <2>1, <2>2 DEF ProfileOk
<1>3. RequestsInv
  BY IdleRequest DEF ProfileInit, RequestsInv
<1>4. ApartInv
  BY IdleRequest DEF ProfileInit, ApartInv
<1> QED BY <1>1, <1>2, <1>3, <1>4 DEF ProfileInv

LEMMA ProfileTypes == ProfileInv => ProfileTypeOK
<1> SUFFICES ASSUME ProfileInv PROVE ProfileTypeOK
  OBVIOUS
<1>1. ProfileTyped
  BY DEF ProfileInv
<1>2. ASSUME NEW c \in Clients
      PROVE  \E q \in {req[c]} :
               /\ DOMAIN q = DOMAIN Idle /\ q.at \in Ats /\ q.op \in ProfileOps
               /\ q.student \in Students \cup {NULL} /\ q.ent \in Profiles /\ q.cols \subseteq Columns
               /\ q.version \in Versions \cup {KEEP} /\ q.weekly \in Minutes \cup {KEEP}
  <2>1. req[c] \in Requests
    BY <1>1 DEF ProfileTyped
  <2>2. DOMAIN req[c] = DOMAIN Idle
    BY <2>1 DEF Requests, Idle
  <2>3. /\ req[c].at \in Ats /\ req[c].op \in ProfileOps
        /\ req[c].student \in Students \cup {NULL} /\ req[c].ent \in Profiles
        /\ req[c].cols \subseteq Columns
        /\ req[c].version \in Versions \cup {KEEP} /\ req[c].weekly \in Minutes \cup {KEEP}
    BY <2>1 DEF Requests
  <2> QED BY <2>2, <2>3
<1> QED BY <1>1, <1>2 DEF ProfileTypeOK, ProfileTyped

LEMMA Asked == ProfileInv => ProfileAsAsked
BY DEF ProfileInv, ProfilesInv, ProfileOk, ProfileAsAsked

-----------------------------------------------------------------------------
(* The whole.                                                               *)

OnboardingInv ==
    /\ SeedInv /\ ProfileInv
    /\ roadmap \in [Students -> Roadmaps \cup {NULL}]
    /\ RoadmapFromPack

LEMMA OnboardingStart == Init => OnboardingInv
<1> SUFFICES ASSUME Init PROVE OnboardingInv
  OBVIOUS
<1>1. SeedInv /\ ProfileInv
  BY SeedStart, ProfileStart DEF Init
<1> QED BY <1>1 DEF Init, OnboardingInv, RoadmapFromPack

\* What is wanted stays wanted: the roadmaps that are there stay right.
LEMMA RoadmapsStay ==
    ASSUME RoadmapFromPack, roadmap' = roadmap, wanted \subseteq wanted'
    PROVE  RoadmapFromPack'
BY DEF RoadmapFromPack

LEMMA WantedGrows ==
    ASSUME NEW c \in Clients, InsertProfile(c) \/ WriteProfile(c)
    PROVE  wanted \subseteq wanted'
BY DEF InsertProfile, WriteProfile, Stored

\* While an instance answers requests a roadmap is made from a whole curriculum.
LEMMA MadeWhole ==
    ASSUME OnboardingInv, NEW c \in Clients, Answers, MakeRoadmap(c), UNCHANGED seedVars
    PROVE  OnboardingInv'
<1>1. SeedInv' /\ ProfileInv'
  BY SeedIdle, OneEnds DEF OnboardingInv, MakeRoadmap
<1>2. PICK q : q = req[c] /\ q.at = "plan"
  BY DEF MakeRoadmap
<1>3. PICK s : s = q.student
  OBVIOUS
<1>4. q \in Requests /\ s \in Students /\ RequestOk(q, profile[s], wanted, mix.serial)
  BY <1>2, <1>3, InFlight DEF OnboardingInv
<1>5. PICK v \in Sources(q.ent) :
         roadmap' = [roadmap EXCEPT ![s] =
                       [version |-> v, unset |-> q.ent.version = NULL,
                        whole |-> Whole(v[1]) \/ v[1] \in torn \/ Seeding(v[1])]]
  BY <1>2, <1>3 DEF MakeRoadmap
<1>6. v \in Versions /\ v \in AllVersions /\ v[1] \in Exams
  BY <1>5, VersionsAssumption DEF Sources, VersionsOf, AllVersions
<1>7. Whole(v[1]) \/ v[1] \in torn \/ Seeding(v[1])
  BY <1>6, WholeFromInv DEF OnboardingInv, Answers, WholeWhenServed
<1>8. PICK unset \in BOOLEAN : unset = (q.ent.version = NULL)
  OBVIOUS
<1>9. PICK whole \in BOOLEAN : whole = (Whole(v[1]) \/ v[1] \in torn \/ Seeding(v[1]))
  OBVIOUS
<1>10. PICK made : made = [version |-> v, unset |-> unset, whole |-> whole]
  OBVIOUS
<1>11. made \in Roadmaps /\ roadmap' = [roadmap EXCEPT ![s] = made]
  BY <1>5, <1>6, <1>8, <1>9, <1>10 DEF Roadmaps
<1>12. /\ made.whole
       /\ IF made.unset THEN made.version[1] = "YKS" ELSE <<s, made.version>> \in wanted
  <2>1. made.whole /\ made.unset = unset /\ made.version = v
    BY <1>7, <1>9, <1>10
  <2>2. CASE q.ent.version = NULL
    <3>1. v \in VersionsOf("YKS")
      BY <1>5, <2>2 DEF Sources
    <3>2. v[1] = "YKS"
      BY <3>1 DEF VersionsOf
    <3> QED BY <1>8, <2>1, <2>2, <3>2
  <2>3. CASE q.ent.version # NULL
    <3>1. v = q.ent.version
      BY <1>5, <2>3 DEF Sources
    <3>2. <<s, q.ent.version>> \in wanted
      BY <1>2, <1>3, <1>4, <2>3 DEF RequestOk
    <3> QED BY <1>8, <2>1, <2>3, <3>1, <3>2
  <2> QED BY <2>2, <2>3
<1>13. wanted' = wanted
  BY DEF MakeRoadmap
<1>14. RoadmapFromPack'
  <2> SUFFICES ASSUME NEW u \in Students, roadmap'[u] # NULL
               PROVE  /\ roadmap'[u].whole
                      /\ IF roadmap'[u].unset THEN roadmap'[u].version[1] = "YKS"
                         ELSE <<u, roadmap'[u].version>> \in wanted'
    BY DEF RoadmapFromPack
  <2>1. CASE u = s
    <3>1. roadmap'[u] = made
      BY <1>4, <1>11, <2>1 DEF OnboardingInv
    <3> QED BY <1>12, <1>13, <2>1, <3>1
  <2>2. CASE u # s
    <3>1. roadmap'[u] = roadmap[u]
      BY <1>4, <1>11, <2>2 DEF OnboardingInv
    <3> QED BY <1>13, <3>1 DEF OnboardingInv, RoadmapFromPack
  <2> QED BY <2>1, <2>2
<1> QED BY <1>1, <1>4, <1>11, <1>14 DEF OnboardingInv

\* A step of an instance.
LEMMA InstanceKeeps ==
    ASSUME OnboardingInv, NEW i \in Instances, Step(i) \/ Dies(i)
    PROVE  OnboardingInv'
<1>1. SeedStep(i)
  BY DEF Step, Dies, Seed, SeedStep
<1>2. SeedInv'
  BY <1>1, SeedKept DEF OnboardingInv
<1>3. ProfileInv' /\ UNCHANGED <<wanted, roadmap>>
  <2>1. CASE Step(i)
    <3>1. UNCHANGED <<profile, req, asked, wanted, mix, roadmap>>
      BY <2>1 DEF Step, Seed, profileVars
    <3>2. ProfileInv'
      BY <3>1 DEF OnboardingInv, ProfileInv, ProfileTyped, ProfilesInv, RequestsInv, ApartInv
    <3> QED BY <3>1, <3>2
  <2>2. CASE Dies(i)
    BY <2>2, RequestsEnd DEF Dies, OnboardingInv
  <2> QED BY <2>1, <2>2
<1>4. RoadmapFromPack'
  BY <1>3, RoadmapsStay DEF OnboardingInv
<1> QED BY <1>2, <1>3, <1>4 DEF OnboardingInv

\* A step of a request.
UserStep(c) ==
    \/ GetProfile(c)
    \/ \E v \in AllVersions, w \in Minutes \cup {KEEP} : SaveProfile(c, v, w)
    \/ \E v \in AllVersions \cup {KEEP}, w \in Minutes \cup {KEEP} : UpdateProfile(c, v, w)
    \/ InsertDefault(c) \/ InsertProfile(c) \/ Reread(c) \/ WriteProfile(c) \/ AskRoadmap(c)
    \/ Abort(c)

LEMMA UserKeeps ==
    ASSUME OnboardingInv, NEW c \in Clients, UserStep(c), UNCHANGED <<seedVars, roadmap>>
    PROVE  OnboardingInv'
<1>1. SeedInv'
  BY SeedIdle DEF OnboardingInv
<1>2. ProfileInv
  BY DEF OnboardingInv
<1>3. ProfileInv' /\ wanted \subseteq wanted'
  <2>1. CASE GetProfile(c)
    BY <1>2, <2>1, GetKeeps DEF GetProfile
  <2>2. CASE \E v \in AllVersions, w \in Minutes \cup {KEEP} : SaveProfile(c, v, w)
    <3>1. PICK v \in Versions, w \in Minutes \cup {KEEP} : SaveProfile(c, v, w)
      BY <2>2 DEF AllVersions
    <3>2. wanted' = wanted
      BY <3>1 DEF SaveProfile
    <3> QED BY <1>2, <3>1, <3>2, SaveKeeps
  <2>3. CASE \E v \in AllVersions \cup {KEEP}, w \in Minutes \cup {KEEP} : UpdateProfile(c, v, w)
    <3>1. PICK v \in Versions \cup {KEEP}, w \in Minutes \cup {KEEP} : UpdateProfile(c, v, w)
      BY <2>3 DEF AllVersions
    <3>2. wanted' = wanted
      BY <3>1 DEF UpdateProfile
    <3> QED BY <1>2, <3>1, <3>2, UpdateKeeps
  <2>4. CASE InsertDefault(c)
    BY <1>2, <2>4, InsertDefaultKeeps DEF InsertDefault
  <2>5. CASE InsertProfile(c)
    BY <1>2, <2>5, InsertProfileKeeps, WantedGrows
  <2>6. CASE Reread(c)
    BY <1>2, <2>6, RereadKeeps DEF Reread
  <2>7. CASE WriteProfile(c)
    BY <1>2, <2>7, WriteKeeps, WantedGrows
  <2>8. CASE AskRoadmap(c)
    BY <1>2, <2>8, AskKeeps DEF AskRoadmap
  <2>9. CASE Abort(c)
    BY <1>2, <2>9, OneEnds DEF Abort
  <2> QED BY <2>1, <2>2, <2>3, <2>4, <2>5, <2>6, <2>7, <2>8, <2>9 DEF UserStep
<1>4. RoadmapFromPack'
  BY <1>3, RoadmapsStay DEF OnboardingInv
<1> QED BY <1>1, <1>3, <1>4 DEF OnboardingInv

LEMMA OnboardingKept == OnboardingInv /\ [Next]_vars => OnboardingInv'
<1> SUFFICES ASSUME OnboardingInv, [Next]_vars PROVE OnboardingInv'
  OBVIOUS
<1>1. CASE \E i \in Instances : Step(i) \/ Dies(i)
  BY <1>1, InstanceKeeps
<1>2. CASE \E c \in Clients : UserStep(c) /\ UNCHANGED <<seedVars, roadmap>>
  BY <1>2, UserKeeps
<1>3. CASE \E c \in Clients : Answers /\ MakeRoadmap(c) /\ UNCHANGED seedVars
  BY <1>3, MadeWhole
<1>4. CASE UNCHANGED vars
  <2>1. UNCHANGED seedVars /\ UNCHANGED <<profile, req, asked, wanted, mix, roadmap>>
    BY <1>4 DEF vars, profileVars
  <2>2. SeedInv'
    BY <2>1, SeedIdle DEF OnboardingInv
  <2>3. ProfileInv'
    BY <2>1 DEF OnboardingInv, ProfileInv, ProfileTyped, ProfilesInv, RequestsInv, ApartInv
  <2>4. RoadmapFromPack'
    BY <2>1, RoadmapsStay DEF OnboardingInv
  <2> QED BY <2>1, <2>2, <2>3, <2>4 DEF OnboardingInv
<1> QED BY <1>1, <1>2, <1>3, <1>4 DEF Next, User, UserStep

LEMMA Always == Spec => []OnboardingInv
BY OnboardingStart, OnboardingKept, PTL DEF Spec

\* The tables hold rows of their types, whatever instances and requests do and however often
\* the program dies.
THEOREM TypeCorrect == Spec => []TypeOK
<1>1. OnboardingInv => TypeOK
  BY SeedTypes, ProfileTypes DEF OnboardingInv, TypeOK
<1> QED BY <1>1, Always, PTL

\* Once an instance answers requests, every exam has a version and its whole curriculum,
\* unless it is being seeded by another instance or a seeding of it was cut off
\* (exam-packs.service 57-192): for any packs and any number of instances.
THEOREM ServesWholePacks == Spec => []WholeWhenServed
<1>1. OnboardingInv => WholeWhenServed
  BY WholeFromInv DEF OnboardingInv
<1> QED BY <1>1, Always, PTL

\* The profile has the minutes last stored, when the requests of a student do not overlap;
\* and only a version that was stored once, if they do (study-profile.service 21-120).
THEOREM StoresWhatWasAsked == Spec => []ProfileAsAsked
<1>1. OnboardingInv => ProfileAsAsked
  BY Asked DEF OnboardingInv
<1> QED BY <1>1, Always, PTL

\* A roadmap is planned from a whole curriculum, of a version that the student chose or,
\* without one, of YKS (roadmap.service 47-64).
THEOREM PlansFromPacks == Spec => []RoadmapFromPack
<1>1. OnboardingInv => RoadmapFromPack
  BY DEF OnboardingInv
<1> QED BY <1>1, Always, PTL
=============================================================================
