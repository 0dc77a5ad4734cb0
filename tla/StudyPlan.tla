----------------------------- MODULE StudyPlan -----------------------------
(***************************************************************************)
(* What the roadmap endpoints promise a user: one plan, in which lessons   *)
(* change their status and get tasks; a new plan replaces it as a whole;   *)
(* and replanning keeps what is completed and reopens all the rest.        *)
(* RoadmapService implements it when the requests on a user's roadmaps do  *)
(* not overlap.                                                            *)
(***************************************************************************)
CONSTANTS Users, Lessons, Tasks, ItemStatuses, NULL

VARIABLE plan   \* user -> NULL, or the user's lessons

Fresh == [l \in Lessons |-> [status |-> "PENDING", task |-> NULL]]

Init == plan = [u \in Users |-> NULL]

Generate(u) == plan' = [plan EXCEPT ![u] = Fresh]

\* A lesson is updated, or converted into a task.
Mark(u, l, status, task) ==
    /\ plan[u] # NULL
    /\ plan' = [plan EXCEPT ![u][l] = [status |-> status, task |-> task]]

Replan(u) ==
    /\ plan[u] # NULL
    /\ \E l \in Lessons : plan[u][l].status # "COMPLETED"
    /\ plan' = [plan EXCEPT ![u] =
                  [l \in Lessons |-> IF @[l].status = "COMPLETED" THEN @[l] ELSE Fresh[l]]]

Next ==
    \E u \in Users :
        \/ Generate(u)
        \/ Replan(u)
        \/ \E l \in Lessons, s \in ItemStatuses, t \in Tasks \cup {NULL} : Mark(u, l, s, t)

Spec == Init /\ [][Next]_plan
=============================================================================
