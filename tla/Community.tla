----------------------------- MODULE Community ------------------------------
(***************************************************************************)
(* What users see of their work and of that of others: the progress of a   *)
(* user (StudySessionsService.getProgress), report links and accountability*)
(* groups with their leaderboard (AccountabilityService). Each read is a   *)
(* statement of its own: sessions, tasks, members and links change between *)
(* the reads of an answer, and time goes on.                               *)
(*                                                                         *)
(* How sessions and tasks come about is in StudySessions and Permissions:  *)
(* here they are stored as those leave them. The clock goes from one of    *)
(* the moments of the behaviour to the next.                               *)
(***************************************************************************)
EXTENDS Progress, Sequences, TLC

CONSTANTS
    Users,
    Clients, \* connections: each has at most one request in flight
    Subjects,
    Groups,  \* bound: the groups that may be created
    MaxRows, \* bound: rows of each table of a behaviour, see `mix'
    Mixes    \* what happens in a behaviour: see `mix'

VARIABLES
    session, \* set of the sessions: [user, start, minutes, subject, finished]
    task,    \* sequence of the tasks: [user, created, completed]
    link,    \* table share_token: sequence of [user, days, expiresAt, isRevoked]
    group,   \* table accountability_group: per group, its creator, or NULL
    member,  \* table group_member: sequence of [group, user, role], or NULL if removed
    told,    \* the groups whose code was answered to the creator
    left,    \* history: <<group, user>> that left
    req,     \* per client, the request in flight
    answer,  \* per client, the last answer
    clock,   \* the present hour
    mix      \* the endpoints called and by whom, the subjects of sessions, and when those
             \* that are recorded start; the moments of the clock, the time zone;
             \* bound: how many sessions, tasks, links and memberships are stored, of each

vars == <<session, task, link, group, member, told, left, req, answer, clock, mix>>

Ops == {"study", "finish", "record", "plan", "complete", "progress", "share", "revoke", "report",
        "group", "join", "leave", "board"}

Tables == {"session", "task", "link", "member"}

Memberships == [group : Groups, user : Users, role : {"ADMIN", "MEMBER"}]

ASSUME CommunityAssumption ==
    /\ MaxRows \in Nat
    /\ NULL \notin Users \cup Memberships
    /\ \A m \in Mixes :
         /\ DOMAIN m.of \subseteq Clients /\ m.of \in [DOMAIN m.of -> Users]
         /\ m.ops \in [DOMAIN m.of -> SUBSET Ops]
         /\ m.rows \in [Tables -> 0..MaxRows]
         /\ m.subjects \subseteq Subjects \cup {NULL}
         /\ m.moments \subseteq Nat /\ m.moments # {}
         /\ m.starts \subseteq Nat /\ m.zone \subseteq Int /\ IsFiniteSet(m.zone)
         /\ \A t \in m.moments \cup m.starts : \E z \in m.zone : z <= t

(***************************************************************************)
(* `at' is what a request does next. `seen' is what it has read of the     *)
(* sessions and tasks, per row of its `list', `since' from when; `of' the  *)
(* group, link or row it is about; `dead' the links that were over when it *)
(* arrived (history).                                                      *)
(***************************************************************************)
Idle == [at |-> "idle", user |-> NULL, of |-> NULL, list |-> <<>>, since |-> 0, seen |-> <<>>,
         dead |-> {}]
NoAnswer == [is |-> "none"]
Ats == {"idle", "sessions", "tasks", "streak", "revoke", "admin", "join", "leave", "members",
        "board", "check", "report"}

Sessions == [user : Users, start : Nat, minutes : Nat, subject : Subjects \cup {NULL},
             finished : BOOLEAN]

TypeOK ==
    /\ session \subseteq Sessions
    /\ task \in Seq([user : Users, created : Nat, completed : BOOLEAN])
    /\ link \in Seq([user : Users, days : Nat, expiresAt : Nat, isRevoked : BOOLEAN])
    /\ group \in [Groups -> Users \cup {NULL}]
    /\ member \in Seq(Memberships \cup {NULL})
    /\ told \subseteq {g \in Groups : group[g] # NULL}
    /\ \A c \in Clients : req[c].at \in Ats /\ req[c].dead \subseteq DOMAIN link
    /\ clock \in mix.moments /\ mix \in Mixes

Init ==
    /\ session = {} /\ task = <<>> /\ link = <<>> /\ member = <<>>
    /\ group = [g \in Groups |-> NULL] /\ told = {} /\ left = {}
    /\ req = [c \in Clients |-> Idle]
    /\ answer = [c \in Clients |-> NoAnswer]
    /\ mix \in Mixes
    /\ clock = Min(mix.moments)

-----------------------------------------------------------------------------
(* Sessions, tasks and time.                                                *)

Acts(op, u) == \E c \in DOMAIN mix.of : mix.of[c] = u /\ op \in mix.ops[c]

Others == <<link, group, member, told, left, req, answer, mix>>

Study(u) ==
    /\ Acts("study", u) /\ Cardinality(session) < mix.rows.session
    /\ \A s \in session : s.user = u => s.finished /\ s.start # clock
    /\ session' = session \cup {[user |-> u, start |-> clock, minutes |-> 0, subject |-> NULL,
                                 finished |-> FALSE]}
    /\ UNCHANGED <<task, clock, Others>>

\* The duration is what the client sends: here what has passed.
FinishStudy(u) ==
    /\ Acts("finish", u)
    /\ \E s \in session :
         /\ s.user = u /\ ~s.finished
         /\ session' = (session \ {s}) \cup
                          {[s EXCEPT !.finished = TRUE, !.minutes = 60 * (clock - s.start)]}
    /\ UNCHANGED <<task, clock, Others>>

\* record: the times are those that are sent, whatever they are.
Record(u, start, subject) ==
    /\ Acts("record", u) /\ Cardinality(session) < mix.rows.session
    /\ start \in mix.starts /\ subject \in mix.subjects
    /\ \A s \in session : s.user = u => s.start # start
    /\ session' = session \cup {[user |-> u, start |-> start, minutes |-> 60,
                                 subject |-> subject, finished |-> TRUE]}
    /\ UNCHANGED <<task, clock, Others>>

Plan(u) ==
    /\ Acts("plan", u) /\ Len(task) < mix.rows.task
    /\ task' = Append(task, [user |-> u, created |-> clock, completed |-> FALSE])
    /\ UNCHANGED <<session, clock, Others>>

CompleteTask(k) ==
    /\ k \in DOMAIN task /\ ~task[k].completed
    /\ Acts("complete", task[k].user)
    /\ task' = [task EXCEPT ![k].completed = TRUE]
    /\ UNCHANGED <<session, clock, Others>>

Tick ==
    /\ \E t \in mix.moments : t > clock
    /\ clock' = Min({t \in mix.moments : t > clock})
    /\ UNCHANGED <<session, task, Others>>

-----------------------------------------------------------------------------
(* Requests.                                                                *)

Me(c) == mix.of[c]

Sends(c, op) == c \in DOMAIN mix.of /\ op \in mix.ops[c] /\ req[c] = Idle

Goes(c, at) == [Idle EXCEPT !.at = at, !.user = Me(c)]

Becomes(c, q) == req' = [req EXCEPT ![c] = q]
Answers(c, a) == answer' = [answer EXCEPT ![c] = a]

Of(u) == {s \in session : s.user = u}
TasksOf(u, since) ==
    LET mine == {k \in DOMAIN task : task[k].user = u /\ task[k].created >= since}
    IN  [all |-> Cardinality(mine), done |-> Cardinality({k \in mine : task[k].completed})]

\* getProgress of the last week; with sessions that end now, at the latest.
AskProgress(c) ==
    /\ Sends(c, "progress")
    /\ LET read == {s \in Of(Me(c)) : s.finished /\ s.start \in (clock - Week)..clock}
       IN  Becomes(c, [Goes(c, "tasks") EXCEPT !.since = clock - Week, !.seen = <<read>>])
    /\ UNCHANGED <<session, task, link, group, member, told, left, answer, clock, mix>>

ProgressTasks(c) ==
    /\ req[c].at = "tasks"
    /\ Becomes(c, [req[c] EXCEPT !.at = "streak",
                                 !.seen = Append(@, TasksOf(req[c].user, req[c].since))])
    /\ UNCHANGED <<session, task, link, group, member, told, left, answer, clock, mix>>

\* The streak has a read of its own, of all the finished sessions, and a now of its own.
ProgressStreak(c) ==
    LET q == req[c]
        dates == Dates(mix.zone, {s \in Of(q.user) : s.finished})
    IN
    /\ q.at = "streak"
    /\ Answers(c, [is |-> "progress", total |-> Minutes(q.seen[1]), count |-> Cardinality(q.seen[1]),
                   rate |-> Rate(q.seen[2].done, q.seen[2].all),
                   subjects |-> BySubject(q.seen[1]), days |-> ByDay(mix.zone, q.seen[1]),
                   streak |-> Streak(mix.zone, dates, clock),
                   real |-> RealStreak(dates, LocalDate(mix.zone, clock))])
    /\ Becomes(c, Idle)
    /\ UNCHANGED <<session, task, link, group, member, told, left, clock, mix>>

\* A link that lasts some days, to a report of the last `days'.
Share(c, lasts, days) ==
    /\ Sends(c, "share") /\ Len(link) < mix.rows.link
    /\ link' = Append(link, [user |-> Me(c), days |-> days, expiresAt |-> clock + Day * lasts,
                             isRevoked |-> FALSE])
    /\ UNCHANGED <<session, task, group, member, told, left, req, answer, clock, mix>>

Revoke(c, k) ==
    /\ Sends(c, "revoke")
    /\ k \in DOMAIN link /\ link[k].user = Me(c)
    /\ Becomes(c, [Goes(c, "revoke") EXCEPT !.of = k])
    /\ UNCHANGED <<session, task, link, group, member, told, left, answer, clock, mix>>

WriteRevoked(c) ==
    /\ req[c].at = "revoke"
    /\ link' = [link EXCEPT ![req[c].of].isRevoked = TRUE]
    /\ Becomes(c, Idle)
    /\ UNCHANGED <<session, task, group, member, told, left, answer, clock, mix>>

\* A link is over when it is revoked, whether that was answered yet or not, and when its
\* time is up.
Over == {k \in DOMAIN link : link[k].isRevoked \/ link[k].expiresAt <= clock}

\* getPublicReport, by anybody who has the link: the time is read before the statement ...
AskReport(c, k) ==
    /\ Sends(c, "report") /\ k \in DOMAIN link
    /\ Becomes(c, [Goes(c, "check") EXCEPT !.of = k, !.since = clock, !.dead = Over])
    /\ UNCHANGED <<session, task, link, group, member, told, left, answer, clock, mix>>

\* Fault: a link works until it expires.
WorksUntilExpiry(k, now) == link[k].expiresAt > now

Works(k, now) == ~link[k].isRevoked /\ link[k].expiresAt > now

\* ... that finds the link or refuses. The time that the report is of is read after it.
CheckReport(c) ==
    LET q == req[c] IN
    /\ q.at = "check"
    /\ Becomes(c, IF Works(q.of, q.since)
                  THEN [q EXCEPT !.at = "sessions", !.since = clock - Day * link[q.of].days]
                  ELSE Idle)
    /\ UNCHANGED <<session, task, link, group, member, told, left, answer, clock, mix>>

\* The sessions are those of any status.
ReportSessions(c) ==
    LET q == req[c] IN
    /\ q.at = "sessions"
    /\ Becomes(c, [q EXCEPT !.at = "report",
                            !.seen = <<{s \in Of(link[q.of].user) : s.start > q.since}>>])
    /\ UNCHANGED <<session, task, link, group, member, told, left, answer, clock, mix>>

ReportTasks(c) ==
    LET q == req[c]
        tasks == TasksOf(link[q.of].user, q.since + 1)
    IN
    /\ q.at = "report"
    /\ Answers(c, [is |-> "report", link |-> q.of, dead |-> q.dead, total |-> Minutes(q.seen[1]),
                   count |-> Cardinality(q.seen[1]), rate |-> Rate(tasks.done, tasks.all)])
    /\ Becomes(c, Idle)
    /\ UNCHANGED <<session, task, link, group, member, told, left, clock, mix>>

\* createGroup: the group, and then its creator, as ADMIN.
CreateGroup(c, g) ==
    /\ Sends(c, "group") /\ group[g] = NULL
    /\ group' = [group EXCEPT ![g] = Me(c)]
    /\ Becomes(c, [Goes(c, "admin") EXCEPT !.of = g])
    /\ UNCHANGED <<session, task, link, member, told, left, answer, clock, mix>>

Row(g, u, role) == [group |-> g, user |-> u, role |-> role]
RowsOf(g, u) == {k \in DOMAIN member : member[k] # NULL /\ member[k].group = g /\ member[k].user = u}

\* Fault: the creator is a member like the others.
InsertAdminAsMember(c) ==
    LET q == req[c] IN
    /\ q.at = "admin" /\ Len(member) < mix.rows.member
    /\ member' = Append(member, Row(q.of, q.user, "MEMBER"))
    /\ told' = told \cup {q.of}
    /\ Becomes(c, Idle)
    /\ UNCHANGED <<session, task, link, group, left, answer, clock, mix>>

InsertAdmin(c) ==
    LET q == req[c] IN
    /\ q.at = "admin" /\ Len(member) < mix.rows.member
    /\ member' = Append(member, Row(q.of, q.user, "ADMIN"))
    /\ told' = told \cup {q.of}
    /\ Becomes(c, Idle)
    /\ UNCHANGED <<session, task, link, group, left, answer, clock, mix>>

\* joinGroup: by the code that the creator was told; who is a member stays what he is.
Join(c, g) ==
    /\ Sends(c, "join") /\ g \in told
    /\ RowsOf(g, Me(c)) = {}
    /\ Becomes(c, [Goes(c, "join") EXCEPT !.of = g])
    /\ UNCHANGED <<session, task, link, group, member, told, left, answer, clock, mix>>

\* The insert fails if the user became a member meanwhile: UNIQUE (group, user).
InsertMember(c) ==
    LET q == req[c] IN
    /\ q.at = "join" /\ Len(member) < mix.rows.member
    /\ member' = IF RowsOf(q.of, q.user) = {} THEN Append(member, Row(q.of, q.user, "MEMBER"))
                 ELSE member
    /\ Becomes(c, Idle)
    /\ UNCHANGED <<session, task, link, group, told, left, answer, clock, mix>>

Leave(c, g) ==
    /\ Sends(c, "leave")
    /\ \E k \in RowsOf(g, Me(c)) : Becomes(c, [Goes(c, "leave") EXCEPT !.of = k])
    /\ UNCHANGED <<session, task, link, group, member, told, left, answer, clock, mix>>

\* The row that was found is removed, if it is still there, and no other.
RemoveMember(c) ==
    LET k == req[c].of IN
    /\ req[c].at = "leave"
    /\ member' = [member EXCEPT ![k] = NULL]
    /\ left' = IF member[k] = NULL THEN left ELSE left \cup {<<member[k].group, member[k].user>>}
    /\ Becomes(c, Idle)
    /\ UNCHANGED <<session, task, link, group, told, answer, clock, mix>>

\* getGroupLeaderboard, by a member.
AskBoard(c, g) ==
    /\ Sends(c, "board") /\ RowsOf(g, Me(c)) # {}
    /\ Becomes(c, [Goes(c, "members") EXCEPT !.of = g])
    /\ UNCHANGED <<session, task, link, group, member, told, left, answer, clock, mix>>

ReadMembers(c) ==
    LET q == req[c]
        rows == {k \in DOMAIN member : member[k] # NULL /\ member[k].group = q.of}
    IN
    /\ q.at = "members"
    /\ Becomes(c, [q EXCEPT !.at = "board", !.list = [k \in rows |-> member[k]],
                            !.since = clock - Week, !.seen = [k \in rows |-> <<>>]])
    /\ UNCHANGED <<session, task, link, group, member, told, left, answer, clock, mix>>

\* The tasks of a member and then his sessions, of any status: all members side by side.
ReadTasks(c, k) ==
    LET q == req[c] IN
    /\ q.at = "board" /\ k \in DOMAIN q.list /\ q.seen[k] = <<>>
    /\ Becomes(c, [q EXCEPT !.seen[k] = <<TasksOf(q.list[k].user, q.since + 1)>>])
    /\ UNCHANGED <<session, task, link, group, member, told, left, answer, clock, mix>>

ReadSessions(c, k) ==
    LET q == req[c] IN
    /\ q.at = "board" /\ k \in DOMAIN q.list /\ Len(q.seen[k]) = 1
    /\ Becomes(c, [q EXCEPT !.seen[k] =
                     Append(@, {s \in Of(q.list[k].user) : s.start > q.since})])
    /\ UNCHANGED <<session, task, link, group, member, told, left, answer, clock, mix>>

\* The days are those of UTC.
Entry(row, tasks, ss) ==
    LET days == Cardinality(Dates(UTC, ss)) IN
    [user |-> row.user, role |-> row.role, minutes |-> Minutes(ss), days |-> days,
     done |-> tasks.done, all |-> tasks.all, score |-> Score(tasks.done, tasks.all, days)]

Rank(c) ==
    LET q == req[c] IN
    /\ q.at = "board" /\ \A k \in DOMAIN q.list : Len(q.seen[k]) = 2
    /\ Answers(c, [is |-> "board", ranks |-> Ranking([k \in DOMAIN q.list |->
                                       Entry(q.list[k], q.seen[k][1], q.seen[k][2])])])
    /\ Becomes(c, Idle)
    /\ UNCHANGED <<session, task, link, group, member, told, left, clock, mix>>

\* A statement fails, or the process or the connection dies.
Abort(c) ==
    /\ req[c] # Idle
    /\ Becomes(c, Idle)
    /\ UNCHANGED <<session, task, link, group, member, told, left, answer, clock, mix>>

Next ==
    \/ \E u \in Users : Study(u) \/ FinishStudy(u) \/ Plan(u)
    \/ \E u \in Users, s \in Subjects \cup {NULL} : \E t \in mix.starts : Record(u, t, s)
    \/ \E k \in 1..MaxRows : CompleteTask(k)
    \/ Tick
    \/ \E c \in Clients :
        \/ AskProgress(c) \/ ProgressTasks(c) \/ ProgressStreak(c)
        \/ Share(c, 1, 7) \/ WriteRevoked(c) \/ CheckReport(c)
        \/ ReportSessions(c) \/ ReportTasks(c)
        \/ \E k \in 1..MaxRows : Revoke(c, k) \/ AskReport(c, k)
        \/ \E g \in Groups : CreateGroup(c, g) \/ Join(c, g) \/ Leave(c, g) \/ AskBoard(c, g)
        \/ InsertAdmin(c) \/ InsertMember(c) \/ RemoveMember(c)
        \/ ReadMembers(c) \/ Rank(c) \/ Abort(c)
        \/ \E k \in 1..MaxRows : ReadTasks(c, k) \/ ReadSessions(c, k)

Spec == Init /\ [][Next]_vars

-----------------------------------------------------------------------------
(* Properties.                                                              *)

Got(kind) == {answer[c] : c \in {c \in Clients : answer[c].is = kind}}

\* The streak is the number of consecutive days with a finished session up to today, or
\* up to yesterday if there is none today yet (study-sessions.service 336-389).
StreakIsReal == \A a \in Got("progress") : a.streak = a.real

\* The minutes and sessions of the subjects add up to the total, and so do those of the
\* days, whatever the sessions belong to and wherever a day ends (256-334).
ProgressAddsUp ==
    \A a \in Got("progress") :
        LET AddsUp(f) == /\ a.total = SumFunction([x \in DOMAIN f |-> f[x].minutes])
                         /\ a.count = SumFunction([x \in DOMAIN f |-> f[x].count])
        IN  AddsUp(a.subjects) /\ AddsUp(a.days)

\* The days of the time zone have 24 hours each, and there is one for each moment.
EvenDays ==
    LET n == Cardinality(mix.zone) IN
    \E first \in mix.zone :
        /\ mix.zone = {first + Day * d : d \in 0..(n - 1)}
        /\ \A t \in mix.moments \cup mix.starts : t < first + Day * n

\* A progress report tells the truth: its parts add up, and its streak is real where the
\* clocks are not changed (198-407).
ProgressIsReal == (EvenDays => StreakIsReal) /\ ProgressAddsUp

\* A leaderboard lists each member once; it is in the order of the scores, which are
\* between 0 and 100; and who completed no smaller part of his tasks and was active on
\* no fewer days has no lower score, however many minutes the other one studied
\* (accountability.service 581-663).
BoardIsFair ==
    \A a \in Got("board") : \A i, j \in DOMAIN a.ranks :
        LET e == a.ranks[i]
            f == a.ranks[j]
        IN  /\ e.score \in 0..100
            /\ i # j => e.user # f.user
            /\ i < j => e.score >= f.score
            /\ e.done * f.all >= f.done * e.all /\ e.days >= f.days /\ (e.all > 0 \/ f.all = 0)
                   => e.score >= f.score

\* The creator of a group whose creation was answered is its ADMIN until he leaves,
\* whoever joins and leaves at the same time (501-579).
CreatorIsAdmin ==
    \A g \in told : LET u == group[g] IN
        <<g, u>> \in left \/ \E k \in RowsOf(g, u) : member[k].role = "ADMIN"

\* A report is answered only to a request that arrived before its link was revoked and
\* before it expired, however the check and the reads of the report overlap with a
\* revocation and with the end of the link: a revocation that was answered is final, for
\* whoever asks afterwards (417-442).
ReportWhileValid == \A a \in Got("report") : a.link \notin a.dead
=============================================================================
