----------------------------- MODULE MCCommunity -----------------------------
(* Small instances of Community for TLC.                                    *)
EXTENDS Community

CONSTANTS a, b, g, c1, c2, math

One(u) == c1 :> u
Two(u, v) == One(u) @@ (c2 :> v)

Mix(ops, of, rows, moments, zone) ==
    [ops |-> [c \in DOMAIN of |-> ops], of |-> of, rows |-> [table \in Tables |-> rows],
     subjects |-> {NULL, math}, moments |-> moments, starts |-> moments, zone |-> zone]

Work == {"study", "plan", "complete"}

\* Days of 24 hours that begin at an offset from those of UTC.
Zone(offset) == {Day * d - offset : d \in 0..10}

\* Days as in spring or autumn: the second day has an hour less, or more.
Change(hours) == {0, Day} \cup {Day * d + hours : d \in 2..9}

Streaks(zone, moments) == Mix({"record", "progress"}, One(a), 3, moments, zone)

\* Streaks in time zones without changes of the time, where a UTC day has two dates; progress
\* while sessions and tasks change; two members of a group, at the end of the week that
\* counts; a member who is active on six days; members who come and go; two devices of a
\* user; links that are revoked or expire.
AllMixes ==
    {Streaks(Zone(offset), {5, 22, 30, 46, 70, 94}) : offset \in {3, 0}} \cup
    {Mix({"study", "finish", "plan", "complete", "progress"}, One(a), 2, {5, 20, 30}, Zone(3)),
     [Mix({}, Two(a, b), 2, {5, 180}, UTC)
        EXCEPT !.ops = (c1 :> Work \cup {"group"}) @@ (c2 :> Work \cup {"join", "board"})],
     [Mix({"record", "plan", "complete", "group", "board"}, One(a), 1,
          {130}, UTC) EXCEPT !.rows.session = 6, !.subjects = {NULL},
                             !.starts = {5, 29, 53, 77, 101, 125}],
     Mix({"group", "join", "leave", "board"}, Two(a, b), 3, {5}, UTC),
     Mix({"group", "join", "leave", "board"}, Two(a, a), 3, {5}, UTC),
     Mix({"study", "finish", "share", "revoke", "report"}, Two(a, a), 1, {5, 20, 30}, UTC)}

\* The last hour of a day of 25 hours, and the first of the day after one of 23.
ChangeMixes ==
    {Streaks(Change(1), {5, 25, 48}), Streaks(Change(-1), {5, 25, 47})}
=============================================================================
