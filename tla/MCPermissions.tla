--------------------------- MODULE MCPermissions ---------------------------
(* Small instances of Permissions for TLC.                                  *)
EXTENDS Permissions, TLC

CONSTANTS m, n, s, c1, c2

AllUsers == {m, n, s}
TwoMentors == {m, n}

Mix(ops, changes, links, of, serial) ==
    [ops |-> ops, changes |-> changes, links |-> links, of |-> of, serial |-> serial]

Both(u, v) == (c1 :> u) @@ (c2 :> v)
TaskOps == {"create", "update", "remove"}
RecordOps == {"create", "update", "remove", "record"}
EvidenceOps == {"submit", "replace", "judge", "withdraw"}

\* A mentor and a student with a task or evidence of the student, one request after the
\* other or overlapping; the student becomes a mentor; a task is handed to another mentor.
AllMixes ==
    {Mix(RecordOps, {"connect"}, {<<m, s>>}, Both(m, s), serial) : serial \in BOOLEAN} \cup
    {Mix({"create", "assign"}, {"grant"}, {<<m, s>>}, Both(m, m), TRUE),
     Mix({"create", "update"}, {"connect", "switch"}, {<<m, s>>}, Both(m, s), TRUE),
     Mix(TaskOps, {"connect"}, {<<m, s>>}, Both(m, n), TRUE)} \cup
    {Mix(EvidenceOps, {"connect"}, {<<m, s>>}, Both(m, s), serial) : serial \in BOOLEAN} \cup
    {Mix(EvidenceOps, {"grant", "switch"}, {<<m, s>>}, Both(m, s), TRUE),
     Mix({"submit", "judge"}, {"connect"}, {<<m, s>>, <<n, s>>}, Both(m, n), FALSE)}

AssignMixes == {Mix({"assign"}, {"grant"}, {<<m, s>>}, Both(m, s), TRUE)}
=============================================================================
