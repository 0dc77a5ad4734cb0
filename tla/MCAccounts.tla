----------------------------- MODULE MCAccounts -----------------------------
(* Small instances of Accounts for TLC.                                     *)
EXTENDS Accounts, TLC

CONSTANTS m, s, n, c1, c2, c3

AllUsers == {m, s, n}
OneNewcomer == {n}
OneMentor == {m}
OneOwner == {n}

One(u) == c1 :> u
Two(u, v) == (c1 :> u) @@ (c2 :> v)
Three(u, v, w) == Two(u, v) @@ (c3 :> w)

Mix(ops, of, serial, tears) == [ops |-> ops, of |-> of, serial |-> serial, tears |-> tears]

SessionOps == {"register", "login", "refresh", "logout", "password", "rename"}
RoleOps == {"switch", "rename", "code", "logout", "delete"}
LinkOps == {"request", "respond", "unlink"}

\* Sessions of a user on two devices; role, name and deletion of one user, who is an
\* owner or not; connections of a mentor and two students, who approve and leave at
\* the same time; of a mentor and a student who switch roles, are renamed or deleted.
\* Each one request after the other, or overlapping.
AllMixes ==
    {Mix(SessionOps, Two(n, n), serial, TRUE) : serial \in BOOLEAN} \cup
    {Mix(RoleOps, Two(u, u), serial, TRUE) : u \in {s, m}, serial \in BOOLEAN} \cup
    {Mix({"register", "login", "delete"}, Two(n, n), FALSE, TRUE)} \cup
    {Mix(LinkOps \cup {"register"}, Three(m, s, n), TRUE, tears) : tears \in BOOLEAN} \cup
    {Mix({"register", "request", "respond"}, Three(m, m, n), FALSE, FALSE),
     Mix(LinkOps \cup {"delete", "switch"}, Two(m, s), TRUE, FALSE),
     Mix(LinkOps \cup {"rename"}, Three(m, s, s), FALSE, FALSE),
     Mix(LinkOps \cup {"delete"}, Two(m, s), FALSE, TRUE)}
=============================================================================
