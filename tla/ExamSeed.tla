------------------------------ MODULE ExamSeed ------------------------------
(***************************************************************************)
(* ExamPacksService at start-up: every instance of the program stores the  *)
(* packs whose exam is missing before it answers requests. A pack is one   *)
(* row after the other, each looked up and then inserted if it is missing, *)
(* without a transaction; every await is a point where other instances     *)
(* interleave and where an instance may die.                               *)
(*                                                                         *)
(* A pack is the sequence of its rows in the order of their creation: the  *)
(* kind of each and the place of its parent. How many there are of each    *)
(* kind is left to the constant.                                           *)
(***************************************************************************)
EXTENDS Naturals, Sequences

CONSTANTS
    Packs,      \* the packs, in order: [exam, nodes], nodes a sequence of [kind, under]
    Instances,  \* instances of the program
    MaxDeaths   \* bound: how often an instance dies

Kinds == {"COUNTRY", "SYSTEM", "EXAM", "VERSION", "SECTION", "SUBJECT", "TOPIC"}
UniqueKinds == {"COUNTRY", "SYSTEM", "EXAM"} \* their code is UNIQUE
Exams == {Packs[k].exam : k \in DOMAIN Packs}

\* The country, the education system and the exam come first, then a version of the exam.
ASSUME SeedAssumption ==
    /\ Len(Packs) \in Nat \ {0} /\ DOMAIN Packs = 1..Len(Packs)
    /\ \A k \in DOMAIN Packs : LET nodes == Packs[k].nodes IN
         /\ Len(nodes) \in Nat /\ DOMAIN nodes = 1..Len(nodes)
         /\ \A n \in DOMAIN nodes : nodes[n].kind \in Kinds /\ nodes[n].under \in 0..(n - 1)
         /\ \E x \in DOMAIN nodes :
              /\ \A n \in DOMAIN nodes : /\ nodes[n].kind = "EXAM" <=> n = x
                                         /\ nodes[n].kind \in UniqueKinds <=> n <= x
              /\ \E n \in DOMAIN nodes : nodes[n].kind = "VERSION" /\ nodes[n].under = x
    /\ \A k, l \in DOMAIN Packs : Packs[k].exam = Packs[l].exam => k = l
    /\ MaxDeaths \in Nat

VARIABLES
    row,      \* per exam, the rows of its pack: sequences of [node, under], under a row
    instance, \* what each instance does
    deaths,   \* how often instances died
    torn      \* history: exams whose seeding ended early

seedVars == <<row, instance, deaths, torn>>

PackOf ==
    [exam \in Exams |-> LET k == CHOOSE k \in DOMAIN Packs : Packs[k].exam = exam IN Packs[k].nodes]
Rows(exam) == DOMAIN row[exam]
Of(exam, kind) == {r \in Rows(exam) : PackOf[exam][row[exam][r].node].kind = kind}

(***************************************************************************)
(* An instance looks for exam `pack', or for the row of `node', or is about*)
(* to insert it; `found' are the rows of the nodes before it.              *)
(***************************************************************************)
Down == [at |-> "down", pack |-> 1, node |-> 1, found |-> <<>>]
Checking(pack) == [Down EXCEPT !.at = "check", !.pack = pack]
Serving == [Down EXCEPT !.at = "serving"]

SeedTypeOK ==
    /\ \A exam \in Exams : \A r \in Rows(exam) :
         /\ row[exam][r].node \in DOMAIN PackOf[exam]
         /\ row[exam][r].under \in 0..(r - 1)
    /\ \A i \in Instances :
         /\ instance[i].at \in {"down", "check", "find", "insert", "serving"}
         /\ instance[i].pack \in DOMAIN Packs
         /\ instance[i].at \in {"find", "insert"} =>
                Len(instance[i].found) = instance[i].node - 1
    /\ deaths \in 0..MaxDeaths
    /\ torn \subseteq Exams

\* The tables are empty.
SeedInit ==
    /\ row = [exam \in Exams |-> <<>>]
    /\ instance = [i \in Instances |-> Down]
    /\ deaths = 0
    /\ torn = {}

-----------------------------------------------------------------------------

Exam(i) == Packs[instance[i].pack].exam
Node(i) == PackOf[Exam(i)][instance[i].node]
Becomes(i, s) == instance' = [instance EXCEPT ![i] = s]

\* The row of the node's parent: it has been found, or inserted, before.
Parent(i) == IF Node(i).under = 0 THEN 0 ELSE instance[i].found[Node(i).under]

AfterPack(s) == IF s.pack < Len(Packs) THEN Checking(s.pack + 1) ELSE Serving

\* Fault: the last row of a pack is not stored.
AdvanceShort(i, r) ==
    LET s == instance[i] IN
    Becomes(i, IF s.node + 1 < Len(PackOf[Exam(i)])
               THEN [s EXCEPT !.at = "find", !.node = @ + 1, !.found = Append(@, r)]
               ELSE AfterPack(s))

\* On to the next row, or the next pack, or to listening.
Advance(i, r) ==
    LET s == instance[i] IN
    Becomes(i, IF s.node < Len(PackOf[Exam(i)])
               THEN [s EXCEPT !.at = "find", !.node = @ + 1, !.found = Append(@, r)]
               ELSE AfterPack(s))

Start(i) ==
    /\ instance[i].at = "down"
    /\ Becomes(i, Checking(1))
    /\ UNCHANGED <<row, deaths, torn>>

\* "Exam pack already initialized": the exam is there, whatever is below it.
CheckExam(i) ==
    LET s == instance[i] IN
    /\ s.at = "check"
    /\ Becomes(i, IF Of(Exam(i), "EXAM") # {} THEN AfterPack(s) ELSE [s EXCEPT !.at = "find"])
    /\ UNCHANGED <<row, deaths, torn>>

\* findOne by the code and the parent, by the code alone where it is UNIQUE: any of them.
Lookup(i) ==
    LET exam == Exam(i) IN
    {r \in Rows(exam) : /\ row[exam][r].node = instance[i].node
                        /\ Node(i).kind \in UniqueKinds \/ row[exam][r].under = Parent(i)}

FindRow(i) ==
    /\ instance[i].at = "find"
    /\ IF Lookup(i) = {} THEN Becomes(i, [instance[i] EXCEPT !.at = "insert"])
       ELSE \E r \in Lookup(i) : Advance(i, r)
    /\ UNCHANGED <<row, deaths, torn>>

\* The pack of the instance is cut off if the instance has got as far as the exam.
Cut(i) ==
    IF \E n \in DOMAIN instance[i].found : PackOf[Exam(i)][n].kind = "EXAM"
    THEN {Exam(i)} ELSE {}

Conflicts(i) == Node(i).kind \in UniqueKinds /\ Lookup(i) # {}

\* Fault: start-up waits for the conflict to go away.
InsertRowAgain(i) ==
    /\ instance[i].at = "insert"
    /\ ~Conflicts(i)
    /\ row' = [row EXCEPT ![Exam(i)] = Append(@, [node |-> instance[i].node,
                                                  under |-> Parent(i)])]
    /\ Advance(i, Len(row[Exam(i)]) + 1)
    /\ UNCHANGED <<deaths, torn>>

\* The row is inserted; or a UNIQUE code was inserted meanwhile, and start-up fails.
InsertRow(i) ==
    /\ instance[i].at = "insert"
    /\ \/ /\ ~Conflicts(i)
          /\ row' = [row EXCEPT ![Exam(i)] = Append(@, [node |-> instance[i].node,
                                                        under |-> Parent(i)])]
          /\ Advance(i, Len(row[Exam(i)]) + 1)
          /\ UNCHANGED torn
       \/ /\ Conflicts(i)
          /\ Becomes(i, Down)
          /\ torn' = torn \cup Cut(i)
          /\ UNCHANGED row
    /\ UNCHANGED deaths

\* The process dies, or a statement of its start-up fails.
Die(i) ==
    /\ instance[i].at # "down" /\ deaths < MaxDeaths
    /\ deaths' = deaths + 1
    /\ Becomes(i, Down)
    /\ torn' = torn \cup Cut(i)
    /\ UNCHANGED row

-----------------------------------------------------------------------------
(* Properties.                                                              *)

\* Every row has the rows below it that the pack has.
Whole(exam) ==
    LET nodes == PackOf[exam]
        stored == {row[exam][r] : r \in Rows(exam)}
    IN  \A r \in Rows(exam), n \in DOMAIN nodes :
            nodes[n].under = row[exam][r].node => [node |-> n, under |-> r] \in stored

Seeding(exam) ==
    \E i \in Instances : instance[i].at \in {"find", "insert"} /\ Exam(i) = exam

\* Once an instance answers requests, every exam is there with a version, and with
\* its whole curriculum, if the exam is not being seeded by another instance and
\* no seeding of it was cut off: a pack that was is never completed (57-192).
WholeWhenServed ==
    (\E i \in Instances : instance[i].at = "serving") =>
        \A exam \in Exams \ torn : ~Seeding(exam) =>
            Of(exam, "VERSION") # {} /\ Whole(exam)
=============================================================================
