-------------------------- MODULE MCStudySessions --------------------------
(***************************************************************************)
(* Instances of StudySessions for TLC. u1 is a student, u2 a mentor with   *)
(* canVerifySessions on u1's sessions, u3 one without.                     *)
(***************************************************************************)
EXTENDS StudySessions, TLC

CONSTANTS u1, u2, u3, c1, c2, c3, c4, t1

\* Two devices of the student, one of each mentor.
TwoDevicesAndMentors == c1 :> u1 @@ c2 :> u1 @@ c3 :> u2 @@ c4 :> u3
MentorVerifies == {<<u2, u1>>}

\* Both devices start; one of them finishes and the other one cancels, the mentors
\* try to verify.
OpsByDevice == c1 :> {"start", "finish"} @@ c2 :> {"start", "cancel"}
                 @@ c3 :> {"verify"} @@ c4 :> {"verify"}

\* Three connections of the same user: two devices, and a retry.
ThreeDevices == c1 :> u1 @@ c2 :> u1 @@ c3 :> u1
NobodyVerifies == {}
StartsAndFinishes == [c \in Clients |-> {"start", "finish", "record"}]

NoTasks == {}
SeededTask == {<<t1, u1>>}

\* Results and sessions are interchangeable ids.
SessionSymmetry == Permutations(Sessions) \cup Permutations(Results)
=============================================================================
