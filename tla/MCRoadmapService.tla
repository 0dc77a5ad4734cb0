-------------------------- MODULE MCRoadmapService --------------------------
(***************************************************************************)
(* Instances of RoadmapService for TLC.                                    *)
(***************************************************************************)
EXTENDS RoadmapService, TLC

CONSTANTS u1, c1, c2

\* One device of one user: no requests overlap.
OneDevice == c1 :> u1

\* Two devices of one user, whose requests overlap.
TwoDevices == c1 :> u1 @@ c2 :> u1

EveryEndpoint == [c \in Clients |-> AllOps]

\* Both devices generate and replan, one of them also completes items.
OneCompletesItems == c1 :> {"generate", "replan"} @@ c2 :> {"generate", "replan", "update"}

\* The ids are interchangeable, and so are the lessons.
RoadmapSymmetry ==
    Permutations(Roadmaps) \cup Permutations(Versions) \cup Permutations(Lessons)
        \cup Permutations(Tasks)
=============================================================================
