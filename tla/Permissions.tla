---------------------------- MODULE Permissions ----------------------------
(***************************************************************************)
(* Who may write which task and which evidence: TasksService,              *)
(* EvidenceService, AccountabilityService.assignTaskToStudent and what     *)
(* StudySessionsService.record does to a task, over tables task and        *)
(* evidence, while connections and grants come and go.                     *)
(*                                                                         *)
(* Every await is a point where other requests, and the environment,       *)
(* interleave. Of a task what a mentor plans (title, dates) is told apart  *)
(* from the rest; of a grant whether it is ACTIVE, lets the grantee assign *)
(* tasks, and has expired. There are no administrators, and one grant at a *)
(* time from one user to another.                                          *)
(***************************************************************************)
EXTENDS Naturals

CONSTANTS
    Users,
    Mentors,   \* the users who are mentors at first; the others are students
    Clients,   \* connections: each has at most one request in flight
    Tasks,     \* bound: ids of task rows
    Evidences, \* bound: ids of evidence rows
    Mixes,     \* what happens in a behaviour: see `mix'
    NULL

Ops == {"create", "assign", "update", "remove", "record",
        "submit", "replace", "judge", "withdraw"}
Changes == {"connect", "grant", "switch"}
Kinds == {"VIEW", "ASSIGN"}
Pairs == Users \X Users

ASSUME ConstantsAssumption ==
    /\ Mentors \subseteq Users
    /\ Mixes \subseteq [ops : SUBSET Ops, changes : SUBSET Changes, links : SUBSET Pairs,
                        of : UNION {[C -> Users] : C \in SUBSET Clients}, serial : BOOLEAN]
    /\ NULL \notin Users \cup Tasks \cup Evidences

VARIABLES
    role,     \* users.role
    switched, \* users who have used their one switch of role
    students, \* table user_students: <<mentor, student>>
    grant,    \* access_grant: per <<grantee, granter>>, see Grants
    task,     \* table task
    evidence, \* table evidence
    req,      \* per client, the request in flight
    ever,     \* history: <<user, student>> once connected, or with a grant, or the same
    assigns,  \* history: those once connected, or with a grant to assign tasks
    verdict,  \* history: per evidence, the last verdict that a mentor gave
    verdicts, \* history: all of them
    missed,   \* history: the clients whose request was about a row when it was deleted
    mix       \* the endpoints called and by whom, which relations come and go between
              \* whom, and whether requests about one row wait for each other

rows == <<task, evidence>>
relations == <<role, switched, students, grant, ever, assigns>>
vars == <<relations, rows, req, verdict, verdicts, missed, mix>>

Statuses == {"PENDING", "APPROVED", "REJECTED"}
Grants == [active : BOOLEAN, kind : Kinds, expired : BOOLEAN]
NoGrant == [active |-> FALSE, kind |-> "VIEW", expired |-> FALSE]

(***************************************************************************)
(* `plan' is the user who last set title or dates of a task; `maker' who   *)
(* created it, and `handed' whether its assigner was changed (history).    *)
(***************************************************************************)
Someone == Users \cup {NULL}
TaskRows == [owner : Someone, by : Someone, plan : Someone, progress : Someone,
             deleted : BOOLEAN, maker : Someone, handed : BOOLEAN]
NoTask == [owner |-> NULL, by |-> NULL, plan |-> NULL, progress |-> NULL,
           deleted |-> FALSE, maker |-> NULL, handed |-> FALSE]
TaskColumns == {"by", "plan", "progress", "deleted"}

EvidenceRows == [student : Someone, image : {"FIRST", "SECOND"}, status : Statuses,
                 active : BOOLEAN]
NoEvidence == [student |-> NULL, image |-> "FIRST", status |-> "PENDING", active |-> FALSE]
Columns == {"image", "status", "active"}

(***************************************************************************)
(* A request in flight. `user', `role': who calls; `id': the row; `about': *)
(* the student whose relation to the user is checked, `times' still to go, *)
(* before `then'; `to', `plans': what an update of a task writes; `row',   *)
(* `ent', `cols': the task or evidence about to be saved, and the columns  *)
(* that differ.                                                            *)
(***************************************************************************)
Ats == {"idle", "connected", "granted", "permission", "insert", "store", "archive",
        "recorded", "rewrite", "loaded", "reread", "submit"}
KEEP == "KEEP"

Idle == [at |-> "idle", op |-> "create", user |-> NULL, role |-> "STUDENT", id |-> NULL,
         about |-> NULL, times |-> 0, then |-> "idle", to |-> KEEP, plans |-> FALSE,
         row |-> NoTask, ent |-> NoEvidence, cols |-> {}]

TypeOK ==
    /\ role \in [Users -> {"STUDENT", "MENTOR"}] /\ switched \subseteq Users
    /\ students \subseteq Pairs /\ grant \in [Pairs -> Grants]
    /\ task \in [Tasks -> TaskRows] /\ evidence \in [Evidences -> EvidenceRows]
    /\ \A c \in Clients : \E q \in {req[c]} :
         /\ DOMAIN q = DOMAIN Idle /\ q.at \in Ats /\ q.then \in Ats /\ q.op \in Ops
         /\ q.user \in Someone /\ q.id \in Tasks \cup Evidences \cup {NULL}
         /\ q.about \in Someone /\ q.times \in 0..2 /\ q.to \in Someone \cup {KEEP}
         /\ q.row \in TaskRows /\ q.ent \in EvidenceRows
         /\ q.cols \subseteq Columns \cup TaskColumns
    /\ assigns \subseteq Pairs /\ ever \subseteq Pairs
    /\ verdict \in [Evidences -> Statuses] /\ verdicts \subseteq Evidences \X Statuses
    /\ missed \subseteq Clients /\ mix \in Mixes

Init ==
    /\ role = [u \in Users |-> IF u \in Mentors THEN "MENTOR" ELSE "STUDENT"]
    /\ switched = {}
    /\ students = {} /\ grant = [p \in Pairs |-> NoGrant]
    /\ task = [t \in Tasks |-> NoTask]
    /\ evidence = [e \in Evidences |-> NoEvidence]
    /\ req = [c \in Clients |-> Idle]
    /\ ever = {<<u, u>> : u \in Users} /\ assigns = {}
    /\ verdict = [e \in Evidences |-> "PENDING"] /\ verdicts = {}
    /\ missed = {} /\ mix \in Mixes

-----------------------------------------------------------------------------

Me(c) == mix.of[c]
Is(c, r) == role[Me(c)] = r

\* The client starts a request, as the user it is authenticated as now.
Starts(c, op) ==
    /\ op \in mix.ops /\ c \in DOMAIN mix.of
    /\ req[c] = Idle

Alone(id) == mix.serial => \A d \in Clients : req[d].id # id

Goes(c, q) ==
    /\ req' = [req EXCEPT ![c] = q]
    /\ missed' = IF q = Idle THEN missed \ {c} ELSE missed

\* The request ends with the deletion of the row that others hold as it was.
EndsDeleting(c) ==
    /\ req' = [req EXCEPT ![c] = Idle]
    /\ missed' = (missed \cup {d \in Clients : req[d].id = req[c].id}) \ {c}

Doing(c, op, at) == [Idle EXCEPT !.op = op, !.at = at, !.user = Me(c), !.role = role[Me(c)]]
Checking(q, student, times, then) ==
    [q EXCEPT !.at = "connected", !.about = student, !.times = times, !.then = then]

\* The next of the checks, or what they were for.
Passed(q) ==
    IF q.times > 1 THEN [q EXCEPT !.at = "connected", !.times = @ - 1]
    ELSE [q EXCEPT !.at = q.then, !.times = 0, !.then = "idle"]

\* isMentorConnectedToStudent: oneself, or a student of the mentor ...
CheckConnected(c) ==
    LET q == req[c] IN
    /\ q.at = "connected"
    /\ Goes(c, IF q.user = q.about \/ <<q.user, q.about>> \in students THEN Passed(q)
               ELSE [q EXCEPT !.at = "granted"])
    /\ UNCHANGED <<relations, rows, verdict, verdicts, mix>>

\* Fault: any active grant lets a mentor assign tasks.
LetsAny(g, op) == g.active

\* Whatever its expiry.
Lets(g, op) == g.active /\ (op = "create" => g.kind = "ASSIGN")

\* ... or the grantee of an active grant, which for a task lets assign tasks.
CheckGrant(c) ==
    LET q == req[c] IN
    /\ q.at = "granted"
    /\ Goes(c, IF Lets(grant[<<q.user, q.about>>], q.op) THEN Passed(q) ELSE Idle)
    /\ UNCHANGED <<relations, rows, verdict, verdicts, mix>>

-----------------------------------------------------------------------------
(* TasksService.                                                            *)

FreeTasks == {t \in Tasks : task[t].owner = NULL} \* bounds the requests as well

\* create: students for themselves, mentors for themselves or, after a check, a student.
CreateTask(c, s) ==
    LET q == Doing(c, "create", "insert") IN
    /\ Starts(c, "create") /\ FreeTasks # {}
    /\ s = Me(c) \/ Is(c, "MENTOR")
    /\ Goes(c, IF s = Me(c) THEN [q EXCEPT !.about = s] ELSE Checking(q, s, 1, "insert"))
    /\ UNCHANGED <<relations, rows, verdict, verdicts, mix>>

\* assignTaskToStudent, for anybody with a grant that has not expired ...
AssignTask(c, s) ==
    LET g == grant[<<Me(c), s>>] IN
    /\ Starts(c, "assign") /\ FreeTasks # {}
    /\ s = Me(c) \/ (g.active /\ ~g.expired /\ g.kind = "ASSIGN")
    /\ Goes(c, [Doing(c, "assign", "insert") EXCEPT !.about = s])
    /\ UNCHANGED <<relations, rows, verdict, verdicts, mix>>

\* ... goes on to create() as the student: create() knows of no other assigner then.
InsertTask(c) ==
    LET q == req[c]
        by == IF q.op = "create" /\ q.about # q.user THEN q.user ELSE NULL
    IN
    /\ q.at = "insert"
    /\ \E t \in Tasks :
         /\ t \in FreeTasks
         /\ task' = [task EXCEPT ![t] = [NoTask EXCEPT !.owner = q.about, !.by = by,
                                           !.plan = q.user, !.maker = q.user]]
    /\ Goes(c, Idle)
    /\ UNCHANGED <<relations, evidence, verdict, verdicts, mix>>

\* findOne: of the rows that are not deleted, mentors those they assigned, students
\* theirs, and those they assigned.
Accessible(c, t) ==
    /\ task[t].owner # NULL /\ ~task[t].deleted
    /\ task[t].by = Me(c) \/ (task[t].owner = Me(c) /\ Is(c, "STUDENT"))

Assigned(row) == row.by # NULL /\ row.by # row.owner

\* Fault: the student may plan a task that a mentor assigned.
AnyMayPlan(c, row) == TRUE

\* A student leaves the title and the dates of a task that was assigned alone.
MayPlan(c, row) == ~(Assigned(row) /\ row.owner = Me(c) /\ Is(c, "STUDENT"))

\* update, of the progress only, or of the plan, or of the assigner as well, which only the
\* assigner changes: anybody else's is ignored.
UpdateTask(c, t, plans, to) ==
    LET row == task[t] IN
    /\ Starts(c, "update") /\ Alone(t)
    /\ Accessible(c, t)
    /\ plans \/ to # KEEP => MayPlan(c, row)
    /\ Goes(c, [Doing(c, "update", "store") EXCEPT !.id = t, !.plans = plans,
                  !.to = IF row.by = Me(c) THEN to ELSE KEEP])
    /\ UNCHANGED <<relations, rows, verdict, verdicts, mix>>

\* One statement, of these columns, whatever the row has become.
StoreTask(c) ==
    LET q == req[c]  row == task[q.id] IN
    /\ q.at = "store"
    /\ task' = [task EXCEPT ![q.id] =
                  [row EXCEPT !.progress = q.user,
                              !.plan = IF q.plans THEN q.user ELSE @,
                              !.by = IF q.to = KEEP THEN @ ELSE q.to,
                              !.handed = @ \/ q.to # KEEP]]
    /\ Goes(c, Idle)
    /\ UNCHANGED <<relations, evidence, verdict, verdicts, mix>>

RemoveTask(c, t) ==
    /\ Starts(c, "remove") /\ Alone(t)
    /\ Accessible(c, t)
    /\ Goes(c, [Doing(c, "remove", "archive") EXCEPT !.id = t])
    /\ UNCHANGED <<relations, rows, verdict, verdicts, mix>>

ArchiveTask(c) ==
    LET q == req[c] IN
    /\ q.at = "archive"
    /\ task' = [task EXCEPT ![q.id].deleted = TRUE]
    /\ EndsDeleting(c)
    /\ UNCHANGED <<relations, evidence, verdict, verdicts, mix>>

\* StudySessionsService.record finds the task of the user or one that the user assigned,
\* whatever the user's role is, and marks the entity as completed.
RecordTask(c, t) ==
    LET row == task[t] IN
    /\ Starts(c, "record") /\ Alone(t)
    /\ row.owner # NULL /\ ~row.deleted /\ Me(c) \in {row.owner, row.by}
    /\ Goes(c, [Doing(c, "record", "recorded") EXCEPT !.id = t,
                  !.row = [row EXCEPT !.progress = Me(c)]])
    /\ UNCHANGED <<relations, rows, verdict, verdicts, mix>>

\* save(task) reads the row again, deleted or not: what differs from the entity ...
RereadTask(c) ==
    LET q == req[c] IN
    /\ q.at = "recorded"
    /\ Goes(c, [q EXCEPT !.at = "rewrite",
                         !.cols = {f \in TaskColumns : q.row[f] # task[q.id][f]}])
    /\ UNCHANGED <<relations, rows, verdict, verdicts, mix>>

\* ... is written, the empty deletedAt of an entity over a deletion as well.
WriteTask(c) ==
    LET q == req[c] IN
    /\ q.at = "rewrite"
    /\ task' = [task EXCEPT ![q.id] = [f \in DOMAIN NoTask |->
                                          IF f \in q.cols THEN q.row[f] ELSE @[f]]]
    /\ Goes(c, Idle)
    /\ UNCHANGED <<relations, evidence, verdict, verdicts, mix>>

-----------------------------------------------------------------------------
(* EvidenceService.                                                         *)

FreeEvidences == {e \in Evidences : evidence[e].student = NULL}

\* create: students for themselves, mentors, after a check, for a student.
Submit(c, s) ==
    LET q == Doing(c, "submit", "submit") IN
    /\ Starts(c, "submit") /\ FreeEvidences # {}
    /\ Is(c, "STUDENT") => s = Me(c)
    /\ Goes(c, IF Is(c, "STUDENT") THEN [q EXCEPT !.about = s]
               ELSE Checking(q, s, 1, "submit"))
    /\ UNCHANGED <<relations, rows, verdict, verdicts, mix>>

InsertEvidence(c) ==
    LET q == req[c] IN
    /\ q.at = "submit"
    /\ \E e \in Evidences :
         /\ e \in FreeEvidences
         /\ evidence' = [evidence EXCEPT ![e] = [NoEvidence EXCEPT !.student = q.about,
                                                                   !.active = TRUE]]
    /\ Goes(c, Idle)
    /\ UNCHANGED <<relations, task, verdict, verdicts, mix>>

\* Fault: deleted evidence is found.
ReadableAny(e) == evidence[e].student # NULL

Readable(e) == evidence[e].active

Saving(q, e, ent) == [q EXCEPT !.id = e, !.ent = ent]

\* update of a student: another image; the verdict stays.
ReplaceImage(c, e) ==
    /\ Starts(c, "replace") /\ Alone(e)
    /\ Readable(e) /\ evidence[e].student = Me(c) /\ Is(c, "STUDENT")
    /\ Goes(c, Saving(Doing(c, "replace", "loaded"), e,
                      [evidence[e] EXCEPT !.image = "SECOND"]))
    /\ UNCHANGED <<relations, rows, verdict, verdicts, mix>>

\* Fault: the students may send a verdict.
JudgeAnybody(c, e, status) ==
    /\ Starts(c, "judge") /\ Alone(e)
    /\ Readable(e)
    /\ Goes(c, IF Is(c, "MENTOR")
               THEN Checking(Saving(Doing(c, "judge", "loaded"), e,
                                    [evidence[e] EXCEPT !.status = status]),
                             evidence[e].student, 2, "loaded")
               ELSE Saving(Doing(c, "judge", "loaded"), e,
                           [evidence[e] EXCEPT !.status = status]))
    /\ UNCHANGED <<relations, rows, verdict, verdicts, mix>>

\* update of a mentor: the row is loaded, then the connection checked twice.
Judge(c, e, status) ==
    /\ Starts(c, "judge") /\ Alone(e)
    /\ Readable(e) /\ Is(c, "MENTOR")
    /\ Goes(c, Checking(Saving(Doing(c, "judge", "loaded"), e,
                               [evidence[e] EXCEPT !.status = status]),
                        evidence[e].student, 2, "loaded"))
    /\ UNCHANGED <<relations, rows, verdict, verdicts, mix>>

\* remove, by the student; a student who became a mentor passes the check as well.
Withdraw(c, e) ==
    /\ Starts(c, "withdraw") /\ Alone(e)
    /\ Readable(e) /\ evidence[e].student = Me(c)
    /\ Goes(c, Saving(Doing(c, "withdraw", "loaded"), e,
                      [evidence[e] EXCEPT !.active = FALSE]))
    /\ UNCHANGED <<relations, rows, verdict, verdicts, mix>>

\* save(evidence) reads the row again: what differs from the entity ...
Reread(c) ==
    LET q == req[c] IN
    /\ q.at = "loaded"
    /\ Goes(c, [q EXCEPT !.at = "reread",
                         !.cols = {f \in Columns : q.ent[f] # evidence[q.id][f]}])
    /\ UNCHANGED <<relations, rows, verdict, verdicts, mix>>

\* ... is written.
Write(c) ==
    LET q == req[c]  e == q.id
        judges == q.op = "judge" /\ q.role = "MENTOR" /\ <<q.user, q.ent.student>> \in ever
    IN
    /\ q.at = "reread"
    /\ evidence' = [evidence EXCEPT ![e] = [f \in DOMAIN NoEvidence |->
                                              IF f \in q.cols THEN q.ent[f] ELSE @[f]]]
    /\ verdict' = IF judges THEN [verdict EXCEPT ![e] = q.ent.status] ELSE verdict
    /\ verdicts' = IF judges THEN verdicts \cup {<<e, q.ent.status>>} ELSE verdicts
    /\ IF evidence'[e].active THEN Goes(c, Idle) ELSE EndsDeleting(c)
    /\ UNCHANGED <<relations, task, mix>>

\* A statement fails, the process or the connection dies.
Abort(c) ==
    /\ req[c] # Idle
    /\ Goes(c, Idle)
    /\ UNCHANGED <<relations, rows, verdict, verdicts, mix>>

-----------------------------------------------------------------------------
(* The environment: what Accounts and AccessGrants do to their tables.      *)

Connect(p) ==
    /\ "connect" \in mix.changes /\ p \in mix.links /\ role[p[1]] = "MENTOR"
    /\ students' = students \cup {p}
    /\ ever' = ever \cup {p} /\ assigns' = assigns \cup {p}
    /\ UNCHANGED <<role, switched, grant, rows, req, verdict, verdicts, missed, mix>>

Disconnect(p) ==
    /\ p \in students
    /\ students' = students \ {p}
    /\ UNCHANGED <<role, switched, grant, ever, assigns, rows, req, verdict, verdicts, missed, mix>>

\* The granter gives access; what is ACTIVE stays so when it expires.
Grant(p, kind) ==
    /\ "grant" \in mix.changes /\ p \in mix.links /\ ~grant[p].active
    /\ grant' = [grant EXCEPT ![p] = [active |-> TRUE, kind |-> kind, expired |-> FALSE]]
    /\ ever' = ever \cup {p}
    /\ assigns' = IF kind = "ASSIGN" THEN assigns \cup {p} ELSE assigns
    /\ UNCHANGED <<role, switched, students, rows, req, verdict, verdicts, missed, mix>>

Expire(p) ==
    /\ grant[p].active /\ ~grant[p].expired
    /\ grant' = [grant EXCEPT ![p].expired = TRUE]
    /\ UNCHANGED <<role, switched, students, ever, assigns, rows, req, verdict, verdicts, missed, mix>>

Revoke(p) ==
    /\ grant[p].active
    /\ grant' = [grant EXCEPT ![p] = NoGrant]
    /\ UNCHANGED <<role, switched, students, ever, assigns, rows, req, verdict, verdicts, missed, mix>>

\* users.switchRole, once.
SwitchRole(u) ==
    /\ "switch" \in mix.changes /\ u \notin switched
    /\ switched' = switched \cup {u}
    /\ role' = [role EXCEPT ![u] = IF @ = "MENTOR" THEN "STUDENT" ELSE "MENTOR"]
    /\ UNCHANGED <<students, grant, ever, assigns, rows, req, verdict, verdicts, missed, mix>>

Next ==
    \/ \E c \in Clients :
        \/ CheckConnected(c) \/ CheckGrant(c)
        \/ \E s \in Users : CreateTask(c, s) \/ AssignTask(c, s) \/ Submit(c, s)
        \/ InsertTask(c) \/ StoreTask(c) \/ ArchiveTask(c) \/ InsertEvidence(c)
        \/ \E t \in Tasks, plans \in BOOLEAN, to \in Someone \cup {KEEP} :
              UpdateTask(c, t, plans, to)
        \/ \E t \in Tasks : RemoveTask(c, t) \/ RecordTask(c, t)
        \/ RereadTask(c) \/ WriteTask(c)
        \/ \E e \in Evidences : ReplaceImage(c, e) \/ Withdraw(c, e)
        \/ \E e \in Evidences, status \in Statuses : Judge(c, e, status)
        \/ Reread(c) \/ Write(c) \/ Abort(c)
    \/ \E p \in Pairs :
        \/ Connect(p) \/ Disconnect(p) \/ Expire(p) \/ Revoke(p)
        \/ \E kind \in Kinds : Grant(p, kind)
    \/ \E u \in Users : SwitchRole(u)

Spec == Init /\ [][Next]_vars

-----------------------------------------------------------------------------
(* Properties.                                                              *)

\* A task with an assigner, unless it was handed over, was made by that mentor, who
\* once was allowed to assign tasks to its owner, whatever has changed since
\* (tasks.service 41-57, 237-259).
AssignerAllowed ==
    \A t \in Tasks : task[t].by # NULL /\ ~task[t].handed =>
        /\ task[t].by = task[t].maker
        /\ <<task[t].by, task[t].owner>> \in assigns

\* While requests about one task do not overlap, the plan of an assigned task and its
\* assigner change by the assigner only, however the task was handed on and the users
\* have switched their roles (177-219).
PlanStep ==
    \A t \in Tasks :
        LET old == task[t]  new == task'[t] IN
        Assigned(old) /\ <<new.plan, new.by>> # <<old.plan, old.by>> => new.progress = old.by

PlanByAssigner == [][mix.serial => PlanStep]_vars

\* A deleted task or evidence is written by nothing but a request that was under way about
\* it when it was deleted (and is brought back by none that comes later), and by nothing
\* at all while requests about one row do not overlap (tasks 145-235, evidence 125-233,
\* study-sessions 119-122).
DeletedStep ==
    LET Late(id) == \E c \in missed : req[c].id = id /\ req'[c] = Idle IN
    /\ \A t \in Tasks : task[t].deleted /\ task'[t] # task[t] => Late(t) /\ ~mix.serial
    /\ \A e \in Evidences :
         evidence[e].student # NULL /\ ~evidence[e].active /\ evidence'[e] # evidence[e] =>
            Late(e) /\ ~mix.serial

DeletedUntouched == [][DeletedStep]_vars

\* The status of evidence is the last verdict of a mentor who had been allowed to see it
\* (a student who became a mentor may see his own), while requests about it do not
\* overlap; otherwise it is one of the verdicts given, or back to PENDING, when a request
\* of the student writes what it had loaded (164-233).
VerdictOfMentor ==
    \A e \in Evidences :
        /\ mix.serial => evidence[e].status = verdict[e]
        /\ evidence[e].status = "PENDING" \/ <<e, evidence[e].status>> \in verdicts

\* A task that somebody made for another is assigned by that user, unless it was handed
\* over: "Mentor assigns a task to a student" (accountability.controller.ts:86).
AssignedByMaker ==
    \A t \in Tasks : task[t].owner # task[t].maker /\ ~task[t].handed =>
        task[t].by = task[t].maker
=============================================================================
