-------------------------- MODULE SessionLifecycle --------------------------
(***************************************************************************)
(* What the study-session endpoints promise: a session is opened when its  *)
(* user has no other one in progress, and is then finished or cancelled    *)
(* once; or it is recorded, already finished. It is lost when nothing is   *)
(* promised of it any more: StudySessions promises this until two requests *)
(* about a user's sessions overlap, and nothing of that user from then on. *)
(***************************************************************************)
CONSTANTS Users, Sessions, NULL

VARIABLE life   \* session id -> its status and its user

Unborn == [status |-> "NONE", user |-> NULL]

Init == life = [s \in Sessions |-> Unborn]

\* start: the only session of the user that is in progress.
Open(s, u) ==
    /\ life[s] = Unborn
    /\ \A t \in Sessions : ~(life[t].user = u /\ life[t].status = "ACTIVE")
    /\ life' = [life EXCEPT ![s] = [status |-> "ACTIVE", user |-> u]]

\* finish or cancel: only a session in progress.
Close(s, status) ==
    /\ life[s].status = "ACTIVE"
    /\ life' = [life EXCEPT ![s].status = status]

\* record: a session of the past.
Record(s, u) ==
    /\ life[s] = Unborn
    /\ life' = [life EXCEPT ![s] = [status |-> "FINISHED", user |-> u]]

Lost == [status |-> "LOST", user |-> NULL]

Lose(lost) == life' = [s \in Sessions |-> IF s \in lost THEN Lost ELSE life[s]]

Next ==
    \/ \E s \in Sessions :
         \/ \E u \in Users : Open(s, u) \/ Record(s, u)
         \/ Close(s, "FINISHED")
         \/ Close(s, "CANCELLED")
    \/ \E lost \in SUBSET Sessions : Lose(lost)

Spec == Init /\ [][Next]_life
=============================================================================
