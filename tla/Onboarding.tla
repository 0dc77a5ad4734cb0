----------------------------- MODULE Onboarding -----------------------------
(***************************************************************************)
(* From an empty database to a roadmap: the instances seed the exam packs  *)
(* (ExamSeed) and then answer requests about study profiles (StudyProfile) *)
(* and for roadmaps, which RoadmapService plans from the version of the    *)
(* profile, or from the current one of YKS. What the roadmap stores is in  *)
(* RoadmapService, what it plans in RoadmapPlan.                           *)
(***************************************************************************)
EXTENDS ExamSeed, StudyProfile

VARIABLE
    roadmap \* per student, the ACTIVE roadmap: the version it was made from, if the profile
            \* had none, and if the curriculum was whole or not expected to be

vars == <<seedVars, profileVars, roadmap>>

\* The exam versions are the rows of their exams.
ASSUME VersionsAssumption == Versions \subseteq Exams \X (Nat \ {0})

AllVersions == {v \in Versions : v[2] \in Of(v[1], "VERSION")}
VersionsOf(exam) == {v \in AllVersions : v[1] = exam}
SubjectsOf(v) ==
    {r \in Of(v[1], "SUBJECT") : row[v[1]][row[v[1]][r].under].under = v[2]}

Roadmaps == [version : Versions, unset : BOOLEAN, whole : BOOLEAN]

TypeOK ==
    /\ SeedTypeOK
    /\ ProfileTypeOK
    /\ roadmap \in [Students -> Roadmaps \cup {NULL}]

Init ==
    /\ SeedInit
    /\ ProfileInit
    /\ roadmap = [s \in Students |-> NULL]

-----------------------------------------------------------------------------

\* onModuleInit comes before the instance listens.
Answers == \E i \in Instances : instance[i].at = "serving"

\* generateRoadmap loads the profile, which has to be there ...
AskRoadmap(c) ==
    /\ Starts(c, "generate")
    /\ profile[Me(c)].there
    /\ Goes(c, Doing(c, "generate", "plan", profile[Me(c)]))
    /\ UNCHANGED <<profile, asked, wanted, mix>>

\* Fault: the version of the profile is not looked at.
SourcesYks(ent) == VersionsOf("YKS")

Sources(ent) == IF ent.version = NULL THEN VersionsOf("YKS") ELSE {ent.version} \cap AllVersions

\* ... and then the version, of which there has to be a subject.
MakeRoadmap(c) ==
    LET q == req[c] IN
    /\ q.at = "plan"
    /\ \E v \in Sources(q.ent) :
         /\ SubjectsOf(v) # {}
         /\ roadmap' = [roadmap EXCEPT ![q.student] =
                          [version |-> v, unset |-> q.ent.version = NULL,
                           whole |-> Whole(v[1]) \/ v[1] \in torn \/ Seeding(v[1])]]
    /\ Goes(c, Idle)
    /\ UNCHANGED <<profile, asked, wanted, mix>>

Running(i) == i <= mix.instances

\* Requests that the instance was serving die with it.
Dies(i) ==
    /\ Running(i) /\ Die(i)
    /\ \E lost \in SUBSET Clients :
         /\ instance[i].at # "serving" => lost = {}
         /\ (\A j \in Instances \ {i} : instance[j].at # "serving") => lost = Clients
         /\ req' = [c \in Clients |-> IF c \in lost THEN Idle ELSE req[c]]
    /\ UNCHANGED <<profile, asked, wanted, mix, roadmap>>

Seed(A) == A /\ UNCHANGED <<profileVars, roadmap>>
User(A) == Answers /\ A /\ UNCHANGED <<seedVars, roadmap>>

Step(i) ==
    \/ Running(i) /\ Seed(Start(i))
    \/ Seed(CheckExam(i))
    \/ Seed(FindRow(i))
    \/ Seed(InsertRow(i))

Next ==
    \/ \E i \in Instances : Step(i) \/ Dies(i)
    \/ \E c \in Clients :
        \/ User(GetProfile(c))
        \/ \E v \in AllVersions, w \in Minutes \cup {KEEP} : User(SaveProfile(c, v, w))
        \/ \E v \in AllVersions \cup {KEEP}, w \in Minutes \cup {KEEP} :
              User(UpdateProfile(c, v, w))
        \/ User(InsertDefault(c))
        \/ User(InsertProfile(c))
        \/ User(Reread(c))
        \/ User(WriteProfile(c))
        \/ User(AskRoadmap(c))
        \/ Answers /\ MakeRoadmap(c) /\ UNCHANGED seedVars
        \/ User(Abort(c))

\* The event loop of a process goes on, and a process that died is started again.
Fairness == \A i \in Instances : WF_vars(Step(i))

Spec == Init /\ [][Next]_vars /\ Fairness

-----------------------------------------------------------------------------
(* Properties.                                                              *)

\* A roadmap is planned from a whole curriculum, unless the seeding of its exam was cut
\* off or was going on in another instance; and from a version that the student
\* chose, unless the profile had none: then from one of YKS (roadmap.service 47-64).
RoadmapFromPack ==
    \A u \in {u \in Students : roadmap[u] # NULL} : LET r == roadmap[u] IN
        /\ r.whole
        /\ IF r.unset THEN r.version[1] = "YKS" ELSE <<u, r.version>> \in wanted

\* Every instance that should run answers requests in the end.
AllAnswer == <>[](\A i \in Instances : Running(i) => instance[i].at = "serving")
=============================================================================
