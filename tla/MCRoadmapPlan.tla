--------------------------- MODULE MCRoadmapPlan ---------------------------
(* A small instance of RoadmapPlan for TLC, on the curricula as they are.    *)
EXTENDS RoadmapPlan

Goal(exam, track, examDay, weekly) ==
    [exam |-> exam, track |-> track, examDay |-> examDay, weekly |-> weekly]

\* Every track of both exams; few and many weeks, and the boundaries of 4 and 60 weeks;
\* little and much time.
SomeGoals ==
    {Goal("YKS", track, 196, 1200) : track \in Tracks \ {"SAT_RW_FOCUS"}} \cup
    {Goal("SAT", track, 196, 1200) : track \in {"SAT_ALL", "SAT_MATH_FOCUS", "DIL"}} \cup
    {Goal("SAT", "SAT_RW_FOCUS", examDay, 60) : examDay \in {21, 22, 29}} \cup
    {Goal("SAT", "SAT_RW_FOCUS", examDay, 900) : examDay \in {-3, 420, 500}} \cup
    {Goal("YKS", "SAYISAL", examDay, 10080) : examDay \in {28, 70}}

SomeMoves == {-9, 15, 300}
SomeDays == {15}
SomeWeekly == {60, 2000}
=============================================================================
