------------------------- MODULE PermissionsProofs --------------------------
(***************************************************************************)
(* Theorems about Permissions, for every value of its constants: any       *)
(* number of users, clients, tasks and evidences, and any mixes.           *)
(***************************************************************************)
EXTENDS Permissions, TLAPS

USE ConstantsAssumption

Requests ==
    [at : Ats, op : Ops, user : Someone, role : {"STUDENT", "MENTOR"},
     id : Tasks \cup Evidences \cup {NULL}, about : Someone, times : 0..2, then : Ats,
     to : Someone \cup {KEEP}, plans : BOOLEAN, row : TaskRows, ent : EvidenceRows,
     cols : SUBSET (Columns \cup TaskColumns)]

\* The stages at which a request is about to write a task.
TaskStages == {"store", "archive", "recorded", "rewrite"}

\* What a request is about to do: now, or when its checks have passed.
Stage(q) == IF q.at \in {"connected", "granted"} THEN q.then ELSE q.at

Staged(q) ==
    /\ q.at \in {"connected", "granted"} =>
           /\ q.then \in {"insert", "submit", "loaded"}
           /\ q.times \in 1..2
           /\ q.about \in Users
    /\ q.at # "permission"
    /\ q.at # "idle" => q.user \in Users
    /\ Stage(q) = "insert" => q.about \in Users /\ q.op \in {"create", "assign"}
    /\ Stage(q) = "submit" => q.about \in Users
    /\ Stage(q) \in {"loaded", "reread"} =>
           q.id \in Evidences /\ q.ent.student \in Users /\ q.op \in {"replace", "judge", "withdraw"}
    /\ Stage(q) \in TaskStages => q.id \in Tasks
    /\ Stage(q) \in {"recorded", "rewrite"} => q.op = "record"

\* The row of an entity about to be saved is one of the same student's.
Fits(q) == Stage(q) \in {"loaded", "reread"} => evidence[q.id].student = q.ent.student

\* The types, and what a request in flight has at each of its stages.
Typed ==
    /\ role \in [Users -> {"STUDENT", "MENTOR"}] /\ switched \subseteq Users
    /\ students \subseteq Pairs /\ grant \in [Pairs -> Grants]
    /\ task \in [Tasks -> TaskRows] /\ evidence \in [Evidences -> EvidenceRows]
    /\ req \in [Clients -> Requests]
    /\ assigns \subseteq Pairs /\ ever \subseteq Pairs
    /\ verdict \in [Evidences -> Statuses] /\ verdicts \subseteq Evidences \X Statuses
    /\ mix \in Mixes
    /\ \A c \in Clients : Staged(req[c]) /\ Fits(req[c])
    /\ \A e \in Evidences : evidence[e].active => evidence[e].student # NULL

LEMMA TypedTypes == Typed /\ missed \subseteq Clients => TypeOK
<1> SUFFICES ASSUME Typed, missed \subseteq Clients PROVE TypeOK
  OBVIOUS
<1>1. ASSUME NEW c \in Clients
      PROVE  LET q == req[c] IN
             /\ DOMAIN q = DOMAIN Idle /\ q.at \in Ats /\ q.then \in Ats /\ q.op \in Ops
             /\ q.user \in Someone /\ q.id \in Tasks \cup Evidences \cup {NULL}
             /\ q.about \in Someone /\ q.times \in 0..2 /\ q.to \in Someone \cup {KEEP}
             /\ q.row \in TaskRows /\ q.ent \in EvidenceRows
             /\ q.cols \subseteq Columns \cup TaskColumns
  <2>1. req[c] \in Requests
    BY DEF Typed
  <2>2. DOMAIN req[c] = DOMAIN Idle
    BY <2>1 DEF Requests, Idle
  <2> QED BY <2>1, <2>2 DEF Requests
<1> QED BY <1>1 DEF Typed, TypeOK

-----------------------------------------------------------------------------
(* The requests that the handlers build.                                    *)

\* The caller of a request is a user.
LEMMA Caller ==
    ASSUME mix \in Mixes, NEW c \in DOMAIN mix.of
    PROVE  Me(c) \in Users
<1>1. mix.of \in UNION {[C -> Users] : C \in SUBSET Clients}
  OBVIOUS
<1>2. PICK C \in SUBSET Clients : mix.of \in [C -> Users]
  BY <1>1
<1> QED BY <1>2 DEF Me

LEMMA IdleType == Idle \in Requests /\ Staged(Idle) /\ Idle.at = "idle" /\ Idle.id = NULL
<1>1. NoEvidence \in EvidenceRows /\ NoTask \in TaskRows
  BY DEF NoEvidence, EvidenceRows, NoTask, TaskRows, Someone, Statuses
<1> QED BY <1>1 DEF Idle, Requests, Staged, Stage, TaskStages, Ats, Ops, Someone, Columns

LEMMA IdleFits == Fits(Idle) /\ Stage(Idle) = "idle"
BY DEF Fits, Stage, Idle

LEMMA Literals ==
    /\ \A op \in {"create", "assign", "update", "remove", "record", "submit", "replace", "judge",
                  "withdraw"} : op \in Ops
    /\ \A at \in {"insert", "store", "archive", "recorded", "loaded", "submit"} : at \in Ats
    /\ 1 \in 0..2 /\ 2 \in 0..2
BY DEF Ops, Ats

LEMMA DoingType ==
    ASSUME Typed, NEW c \in DOMAIN mix.of, NEW op \in Ops, NEW at \in Ats
    PROVE  Doing(c, op, at) \in Requests
<1>1. Me(c) \in Users /\ role[Me(c)] \in {"STUDENT", "MENTOR"}
  BY Caller DEF Typed
<1>2. Idle \in Requests
  BY IdleType
<1> QED BY <1>1, <1>2 DEF Doing, Requests, Someone

LEMMA CheckingType ==
    ASSUME NEW q \in Requests, NEW s \in Users, NEW n \in 0..2, NEW then \in Ats
    PROVE  Checking(q, s, n, then) \in Requests
BY DEF Checking, Requests, Someone, Ats

LEMMA SavingType ==
    ASSUME NEW q \in Requests, NEW e \in Evidences, NEW ent \in EvidenceRows
    PROVE  Saving(q, e, ent) \in Requests
BY DEF Saving, Requests

LEMMA PassedFields ==
    ASSUME NEW q \in Requests, Staged(q), q.at \in {"connected", "granted"}
    PROVE  LET p == Passed(q) IN
           /\ p \in Requests /\ Staged(p) /\ Stage(p) = Stage(q)
           /\ p.at \in {"connected", q.then}
           /\ q.times = 1 => p.at = q.then
           /\ p.op = q.op /\ p.user = q.user /\ p.role = q.role /\ p.id = q.id /\ p.ent = q.ent
           /\ p.about = q.about /\ p.to = q.to /\ p.plans = q.plans /\ p.row = q.row /\ p.cols = q.cols
           /\ p.at = "connected" => p.then = q.then
<1> DEFINE p == Passed(q)
<1>0. q.times \in 1..2 /\ q.then \in {"insert", "submit", "loaded"}
  BY DEF Staged
<1>1. CASE q.times > 1
  <2>1. p = [q EXCEPT !.at = "connected", !.times = q.times - 1]
    BY <1>1 DEF Passed
  <2>2. q.times - 1 \in 0..2 /\ q.times - 1 \in 1..2
    BY <1>0, <1>1
  <2>3. /\ p \in Requests
        /\ p.at = "connected" /\ p.times = q.times - 1 /\ p.then = q.then
        /\ p.op = q.op /\ p.user = q.user /\ p.role = q.role /\ p.id = q.id /\ p.ent = q.ent
        /\ p.about = q.about /\ p.to = q.to /\ p.plans = q.plans /\ p.row = q.row /\ p.cols = q.cols
    BY <2>1, <2>2 DEF Requests, Ats
  <2>4. Staged(p) /\ Stage(p) = Stage(q)
    BY <2>2, <2>3 DEF Staged, Stage, TaskStages
  <2> QED BY <1>0, <1>1, <2>3, <2>4
<1>2. CASE ~(q.times > 1)
  <2>1. p = [q EXCEPT !.at = q.then, !.times = 0, !.then = "idle"]
    BY <1>2 DEF Passed
  <2>2. q.then \in Ats /\ 0 \in 0..2 /\ "idle" \in Ats
    BY <1>0 DEF Ats
  <2>3. /\ p \in Requests
        /\ p.at = q.then /\ p.times = 0 /\ p.then = "idle"
        /\ p.op = q.op /\ p.user = q.user /\ p.role = q.role /\ p.id = q.id /\ p.ent = q.ent
        /\ p.about = q.about /\ p.to = q.to /\ p.plans = q.plans /\ p.row = q.row /\ p.cols = q.cols
    BY <2>1, <2>2 DEF Requests
  <2>5. Stage(p) = q.then /\ Stage(q) = q.then /\ p.at \notin {"connected", "granted"}
    BY <1>0, <2>3 DEF Stage
  <2>4. Staged(p) /\ Stage(p) = Stage(q)
    BY <1>0, <2>3, <2>5 DEF Staged, TaskStages
  <2> QED BY <1>0, <2>3, <2>4
<1> QED BY <1>1, <1>2

-----------------------------------------------------------------------------
(* What a request is when it begins, one case per group of endpoints.       *)

BegunInsert(q) ==
    /\ q.op \in {"create", "assign", "submit"} /\ q.id = NULL /\ q.about \in Users
    /\ \/ /\ q.at = "insert" /\ q.op \in {"create", "assign"}
          /\ q.op = "create" => q.about = q.user
       \/ q.at = "submit" /\ q.op = "submit"
       \/ /\ q.at = "connected" /\ q.times = 1
          /\ \/ q.op = "create" /\ q.then = "insert"
             \/ q.op = "submit" /\ q.then = "submit"

\* The row is the loaded one but for what the request sets.
Holds(q) == \A f \in TaskColumns \ {"progress"} : q.row[f] = task[q.id][f]

BegunTask(q) ==
    /\ q.at \in {"store", "archive", "recorded"} /\ q.id \in Tasks /\ Alone(q.id)
    /\ task[q.id].owner # NULL /\ ~task[q.id].deleted
    /\ q.at = "recorded" => q.op = "record" /\ Holds(q)
    /\ q.at = "store" /\ (q.plans \/ q.to # KEEP) /\ Assigned(task[q.id]) =>
           task[q.id].by = q.user

BegunEvidence(q) ==
    /\ q.id \in Evidences /\ Alone(q.id) /\ evidence[q.id].active
    /\ q.ent.student = evidence[q.id].student
    /\ \/ /\ q.op \in {"replace", "withdraw"} /\ q.at = "loaded"
          /\ q.ent.status = evidence[q.id].status
       \/ /\ q.op = "judge" /\ q.role = "MENTOR" /\ q.about = q.ent.student
          /\ q.at = "connected" /\ q.then = "loaded" /\ q.times = 2

Begins(c, q) ==
    /\ q \in Requests /\ q.user \in Users
    /\ BegunInsert(q) \/ BegunTask(q) \/ BegunEvidence(q)
    /\ req[c] = Idle /\ req' = [req EXCEPT ![c] = q]
    /\ UNCHANGED <<relations, rows, verdict, verdicts, mix>>

LEMMA CreateBegins ==
    ASSUME Typed, NEW c \in Clients, NEW s \in Users, CreateTask(c, s)
    PROVE  \E q : Begins(c, q)
<1> DEFINE d == Doing(c, "create", "insert")
           p == IF s = Me(c) THEN [d EXCEPT !.about = s] ELSE Checking(d, s, 1, "insert")
<1>1. c \in DOMAIN mix.of /\ Me(c) \in Users
  BY Caller DEF CreateTask, Starts, Typed
<1>2. d \in Requests
  BY <1>1, DoingType, Literals
<1>3. p \in Requests
  BY <1>2, CheckingType, Literals DEF Requests, Someone
<1>4. BegunInsert(p) /\ p.user = Me(c)
  BY DEF BegunInsert, Checking, Doing, Idle
<1> QED BY <1>1, <1>3, <1>4 DEF CreateTask, Starts, Begins, Goes

LEMMA AssignBegins ==
    ASSUME Typed, NEW c \in Clients, NEW s \in Users, AssignTask(c, s)
    PROVE  \E q : Begins(c, q)
<1> DEFINE p == [Doing(c, "assign", "insert") EXCEPT !.about = s]
<1>1. c \in DOMAIN mix.of /\ Me(c) \in Users
  BY Caller DEF AssignTask, Starts, Typed
<1>2. Doing(c, "assign", "insert") \in Requests
  BY <1>1, DoingType, Literals
<1>3. p \in Requests
  BY <1>2 DEF Requests, Someone
<1>4. BegunInsert(p) /\ p.user = Me(c)
  BY DEF BegunInsert, Doing, Idle
<1> QED BY <1>1, <1>3, <1>4 DEF AssignTask, Starts, Begins, Goes

LEMMA SubmitBegins ==
    ASSUME Typed, NEW c \in Clients, NEW s \in Users, Submit(c, s)
    PROVE  \E q : Begins(c, q)
<1> DEFINE d == Doing(c, "submit", "submit")
           p == IF Is(c, "STUDENT") THEN [d EXCEPT !.about = s] ELSE Checking(d, s, 1, "submit")
<1>1. c \in DOMAIN mix.of /\ Me(c) \in Users
  BY Caller DEF Submit, Starts, Typed
<1>2. d \in Requests
  BY <1>1, DoingType, Literals
<1>3. p \in Requests
  BY <1>2, CheckingType, Literals DEF Requests, Someone
<1>4. BegunInsert(p) /\ p.user = Me(c)
  BY DEF BegunInsert, Checking, Doing, Idle
<1> QED BY <1>1, <1>3, <1>4 DEF Submit, Starts, Begins, Goes

LEMMA UpdateBegins ==
    ASSUME Typed, NEW c \in Clients, NEW t \in Tasks, NEW plans \in BOOLEAN,
           NEW to \in Someone \cup {KEEP}, UpdateTask(c, t, plans, to)
    PROVE  \E q : Begins(c, q)
<1> DEFINE row == task[t]
           to2 == IF row.by = Me(c) THEN to ELSE KEEP
           p == [Doing(c, "update", "store") EXCEPT !.id = t, !.plans = plans, !.to = to2]
<1>1. c \in DOMAIN mix.of /\ Me(c) \in Users /\ Alone(t) /\ Accessible(c, t)
  BY Caller DEF UpdateTask, Starts, Typed
<1>2. Doing(c, "update", "store") \in Requests
  BY <1>1, DoingType, Literals
<1>3. p \in Requests
  BY <1>2 DEF Requests
<1>4. (plans \/ to2 # KEEP) /\ Assigned(row) => row.by = Me(c)
  BY <1>1 DEF UpdateTask, MayPlan, Accessible, Assigned
<1>5. p.at = "store" /\ p.user = Me(c) /\ p.id = t /\ p.plans = plans /\ p.to = to2
  BY DEF Doing, Idle
<1>6. BegunTask(p)
  BY <1>1, <1>4, <1>5 DEF BegunTask, Accessible
<1> QED BY <1>1, <1>3, <1>5, <1>6 DEF UpdateTask, Starts, Begins, Goes

LEMMA RemoveBegins ==
    ASSUME Typed, NEW c \in Clients, NEW t \in Tasks, RemoveTask(c, t)
    PROVE  \E q : Begins(c, q)
<1> DEFINE p == [Doing(c, "remove", "archive") EXCEPT !.id = t]
<1>1. c \in DOMAIN mix.of /\ Me(c) \in Users /\ Alone(t) /\ Accessible(c, t)
  BY Caller DEF RemoveTask, Starts, Typed
<1>2. Doing(c, "remove", "archive") \in Requests
  BY <1>1, DoingType, Literals
<1>3. p \in Requests
  BY <1>2 DEF Requests
<1>4. p.at = "archive" /\ p.user = Me(c) /\ p.id = t
  BY DEF Doing, Idle
<1>5. BegunTask(p)
  BY <1>1, <1>4 DEF BegunTask, Accessible
<1> QED BY <1>1, <1>3, <1>4, <1>5 DEF RemoveTask, Starts, Begins, Goes

LEMMA RecordBegins ==
    ASSUME Typed, NEW c \in Clients, NEW t \in Tasks, RecordTask(c, t)
    PROVE  \E q : Begins(c, q)
<1> DEFINE row == [task[t] EXCEPT !.progress = Me(c)]
           p == [Doing(c, "record", "recorded") EXCEPT !.id = t, !.row = row]
<1>1. c \in DOMAIN mix.of /\ Me(c) \in Users /\ Alone(t)
  BY Caller DEF RecordTask, Starts, Typed
<1>2. Doing(c, "record", "recorded") \in Requests
  BY <1>1, DoingType, Literals
<1>3. task[t] \in TaskRows /\ row \in TaskRows
  BY <1>1 DEF Typed, TaskRows, Someone
<1>4. p \in Requests
  BY <1>2, <1>3 DEF Requests
<1>5. p.at = "recorded" /\ p.op = "record" /\ p.user = Me(c) /\ p.id = t /\ p.row = row
  BY DEF Doing, Idle
<1>6. row.by = task[t].by /\ row.plan = task[t].plan /\ row.deleted = task[t].deleted
  BY <1>3 DEF TaskRows
<1>7. Holds(p)
  BY <1>5, <1>6 DEF Holds, TaskColumns
<1>8. BegunTask(p)
  BY <1>1, <1>5, <1>7 DEF BegunTask, RecordTask
<1> QED BY <1>1, <1>4, <1>5, <1>8 DEF RecordTask, Starts, Begins, Goes

LEMMA ReplaceBegins ==
    ASSUME Typed, NEW c \in Clients, NEW e \in Evidences, ReplaceImage(c, e)
    PROVE  \E q : Begins(c, q)
<1> DEFINE ent == [evidence[e] EXCEPT !.image = "SECOND"]
           p == Saving(Doing(c, "replace", "loaded"), e, ent)
<1>1. c \in DOMAIN mix.of /\ Me(c) \in Users /\ Alone(e) /\ evidence[e].active
  BY Caller DEF ReplaceImage, Starts, Typed, Readable
<1>2. Doing(c, "replace", "loaded") \in Requests
  BY <1>1, DoingType, Literals
<1>3. /\ ent \in EvidenceRows /\ ent.status = evidence[e].status
      /\ ent.student = evidence[e].student
  BY DEF EvidenceRows, Typed
<1>4. p \in Requests
  BY <1>2, <1>3, SavingType
<1>5. p.at = "loaded" /\ p.op = "replace" /\ p.user = Me(c) /\ p.id = e /\ p.ent = ent
  BY DEF Saving, Doing, Idle
<1>6. BegunEvidence(p)
  BY <1>1, <1>3, <1>5 DEF BegunEvidence
<1> QED BY <1>1, <1>4, <1>5, <1>6 DEF ReplaceImage, Starts, Begins, Goes

LEMMA WithdrawBegins ==
    ASSUME Typed, NEW c \in Clients, NEW e \in Evidences, Withdraw(c, e)
    PROVE  \E q : Begins(c, q)
<1> DEFINE ent == [evidence[e] EXCEPT !.active = FALSE]
           p == Saving(Doing(c, "withdraw", "loaded"), e, ent)
<1>1. c \in DOMAIN mix.of /\ Me(c) \in Users /\ Alone(e) /\ evidence[e].active
  BY Caller DEF Withdraw, Starts, Typed, Readable
<1>2. Doing(c, "withdraw", "loaded") \in Requests
  BY <1>1, DoingType, Literals
<1>3. /\ ent \in EvidenceRows /\ ent.status = evidence[e].status
      /\ ent.student = evidence[e].student
  <2>1. evidence[e] \in EvidenceRows
    BY DEF Typed
  <2> QED BY <2>1 DEF EvidenceRows
<1>4. p \in Requests
  BY <1>2, <1>3, SavingType
<1>5. p.at = "loaded" /\ p.op = "withdraw" /\ p.user = Me(c) /\ p.id = e /\ p.ent = ent
  BY DEF Saving, Doing, Idle
<1>6. BegunEvidence(p)
  BY <1>1, <1>3, <1>5 DEF BegunEvidence
<1> QED BY <1>1, <1>4, <1>5, <1>6 DEF Withdraw, Starts, Begins, Goes

LEMMA JudgeBegins ==
    ASSUME Typed, NEW c \in Clients, NEW e \in Evidences, NEW status \in Statuses,
           Judge(c, e, status)
    PROVE  \E q : Begins(c, q)
<1> DEFINE ent == [evidence[e] EXCEPT !.status = status]
           s == evidence[e].student
           d == Saving(Doing(c, "judge", "loaded"), e, ent)
           p == Checking(d, s, 2, "loaded")
<1>1. c \in DOMAIN mix.of /\ Me(c) \in Users /\ Alone(e) /\ evidence[e].active
  BY Caller DEF Judge, Starts, Typed, Readable
<1>2. role[Me(c)] = "MENTOR" /\ s \in Users
  BY <1>1 DEF Judge, Is, Typed, EvidenceRows, Someone
<1>3. Doing(c, "judge", "loaded") \in Requests
  BY <1>1, DoingType, Literals
<1>4. /\ ent \in EvidenceRows /\ ent.student = evidence[e].student
  BY DEF EvidenceRows, Typed
<1>5. d \in Requests
  BY <1>3, <1>4, SavingType
<1>6. p \in Requests
  BY <1>2, <1>5, CheckingType, Literals
<1>7. /\ p.at = "connected" /\ p.then = "loaded" /\ p.times = 2 /\ p.about = s
      /\ p.op = "judge" /\ p.user = Me(c) /\ p.role = role[Me(c)] /\ p.id = e /\ p.ent = ent
  BY DEF Checking, Saving, Doing, Idle
<1>8. BegunEvidence(p)
  BY <1>1, <1>2, <1>4, <1>7 DEF BegunEvidence
<1> QED BY <1>1, <1>6, <1>7, <1>8 DEF Judge, Starts, Begins, Goes

\* What a handler does first, and what starts it.
Starting(c) ==
    \/ \E s \in Users : CreateTask(c, s) \/ AssignTask(c, s) \/ Submit(c, s)
    \/ \E t \in Tasks, plans \in BOOLEAN, to \in Someone \cup {KEEP} : UpdateTask(c, t, plans, to)
    \/ \E t \in Tasks : RemoveTask(c, t) \/ RecordTask(c, t)
    \/ \E e \in Evidences : ReplaceImage(c, e) \/ Withdraw(c, e)
    \/ \E e \in Evidences, status \in Statuses : Judge(c, e, status)

LEMMA StartingBegins ==
    ASSUME Typed, NEW c \in Clients, Starting(c)
    PROVE  \E q : Begins(c, q)
BY CreateBegins, AssignBegins, SubmitBegins, UpdateBegins, RemoveBegins, RecordBegins,
   ReplaceBegins, WithdrawBegins, JudgeBegins DEF Starting

\* The next two steps of the checks, with what was checked.
Checks(c, q) ==
    /\ req[c].at \in {"connected", "granted"}
    /\ \/ /\ q = Passed(req[c])
          /\ \/ req[c].user = req[c].about
             \/ <<req[c].user, req[c].about>> \in students
             \/ /\ grant[<<req[c].user, req[c].about>>].active
                /\ req[c].op = "create" => grant[<<req[c].user, req[c].about>>].kind = "ASSIGN"
       \/ req[c].at = "connected" /\ q = [req[c] EXCEPT !.at = "granted"]
       \/ q = Idle
    /\ req' = [req EXCEPT ![c] = q]
    /\ UNCHANGED <<relations, rows, verdict, verdicts, mix>>

LEMMA ChecksStep ==
    ASSUME NEW c \in Clients, CheckConnected(c) \/ CheckGrant(c)
    PROVE  \E q : Checks(c, q)
BY DEF CheckConnected, CheckGrant, Checks, Goes, Lets

\* What the environment does: it only changes the relations of users.
Changing ==
    \/ \E p \in Pairs : \/ Connect(p) \/ Disconnect(p) \/ Expire(p) \/ Revoke(p)
                        \/ \E kind \in Kinds : Grant(p, kind)
    \/ \E u \in Users : SwitchRole(u)

LEMMA NextCases ==
    ASSUME Next
    PROVE  \/ \E c \in Clients :
                  \/ Starting(c) \/ CheckConnected(c) \/ CheckGrant(c)
                  \/ InsertTask(c) \/ StoreTask(c) \/ ArchiveTask(c) \/ InsertEvidence(c)
                  \/ RereadTask(c) \/ WriteTask(c)
                  \/ Reread(c) \/ Write(c) \/ Abort(c)
           \/ Changing
BY DEF Next, Starting, Changing

-----------------------------------------------------------------------------
(* Types.                                                                   *)

LEMMA BeginsStaged ==
    ASSUME Typed, NEW c \in Clients, NEW q, Begins(c, q)
    PROVE  Staged(q) /\ Fits(q)
<1>1. q \in Requests /\ q.user \in Users
  BY DEF Begins
<1>2. CASE BegunInsert(q)
  BY <1>1, <1>2 DEF BegunInsert, Staged, Fits, Stage, TaskStages
<1>3. CASE BegunTask(q)
  BY <1>1, <1>3 DEF BegunTask, Staged, Fits, Stage, TaskStages
<1>4. CASE BegunEvidence(q)
  <2>1. q.ent.student \in Users
    BY <1>4 DEF BegunEvidence, Typed, EvidenceRows, Someone
  <2> QED BY <1>1, <1>4, <2>1 DEF BegunEvidence, Staged, Fits, Stage, TaskStages
<1> QED BY <1>2, <1>3, <1>4 DEF Begins

LEMMA ChecksStaged ==
    ASSUME Typed, NEW c \in Clients, NEW q, Checks(c, q)
    PROVE  q \in Requests /\ Staged(q) /\ Fits(q)
<1>1. req[c] \in Requests /\ Staged(req[c]) /\ Fits(req[c]) /\ req[c].at \in {"connected", "granted"}
  BY DEF Typed, Checks
<1>2. CASE q = Passed(req[c])
  BY <1>1, <1>2, PassedFields DEF Fits
<1>3. CASE q = Idle
  BY <1>3, IdleType DEF Fits, Stage
<1>4. CASE req[c].at = "connected" /\ q = [req[c] EXCEPT !.at = "granted"]
  <2>1. "granted" \in Ats
    BY DEF Ats
  <2>2. /\ q \in Requests /\ q.at = "granted" /\ q.then = req[c].then
        /\ q.times = req[c].times /\ q.about = req[c].about /\ q.user = req[c].user
        /\ q.op = req[c].op /\ q.id = req[c].id /\ q.ent = req[c].ent
    BY <1>1, <1>4, <2>1 DEF Requests
  <2> QED BY <1>1, <1>4, <2>2 DEF Staged, Fits, Stage, TaskStages
<1> QED BY <1>2, <1>3, <1>4 DEF Checks

\* A step of one request leaves the other requests alone.
LEMMA TypedRequests ==
    ASSUME Typed, NEW c \in Clients, NEW q \in Requests, Staged(q),
           req' = [req EXCEPT ![c] = q]
    PROVE  req' \in [Clients -> Requests] /\ \A d \in Clients : Staged(req'[d])
<1>1. req \in [Clients -> Requests]
  BY DEF Typed
<1>2. \A d \in Clients : req'[d] = IF d = c THEN q ELSE req[d]
  BY <1>1
<1> QED BY <1>1, <1>2 DEF Typed

\* No row of evidence changes hands: what is loaded still fits.
LEMMA FitsStep ==
    ASSUME Typed, NEW c \in Clients, NEW q, req' = [req EXCEPT ![c] = q], Fits(q),
           \A e \in Evidences : evidence[e].student # NULL =>
                  evidence'[e].student = evidence[e].student,
           Stage(q) \in {"loaded", "reread"} => q.id \in Evidences /\ q.ent.student \in Users
    PROVE  \A d \in Clients : Fits(req[d])'
<1> SUFFICES ASSUME NEW d \in Clients PROVE Fits(req[d])'
  OBVIOUS
<1> DEFINE p == IF d = c THEN q ELSE req[d]
<1>1. req'[d] = p
  BY DEF Typed
<1>2. Fits(p) /\ (Stage(p) \in {"loaded", "reread"} => p.id \in Evidences /\ p.ent.student \in Users)
  BY DEF Typed, Staged
<1>3. Stage(p) \in {"loaded", "reread"} => evidence'[p.id].student = p.ent.student
  BY <1>2 DEF Fits
<1> QED BY <1>1, <1>3 DEF Fits, Stage

LEMMA NoRows == NoTask \in TaskRows /\ NoEvidence \in EvidenceRows
BY DEF NoTask, TaskRows, NoEvidence, EvidenceRows, Someone, Statuses

\* The row that StoreTask makes of one, column by column.
LEMMA StoredRow ==
    ASSUME NEW row \in TaskRows, NEW q \in Requests
    PROVE  LET new == [row EXCEPT !.progress = q.user,
                                  !.plan = IF q.plans THEN q.user ELSE @,
                                  !.by = IF q.to = KEEP THEN @ ELSE q.to,
                                  !.handed = @ \/ q.to # KEEP]
           IN  /\ new \in TaskRows
               /\ new.by = IF q.to = KEEP THEN row.by ELSE q.to
               /\ new.plan = IF q.plans THEN q.user ELSE row.plan
               /\ new.progress = q.user
               /\ new.handed <=> row.handed \/ q.to # KEEP
               /\ new.owner = row.owner /\ new.maker = row.maker /\ new.deleted = row.deleted
<1> DEFINE new == [row EXCEPT !.progress = q.user,
                              !.plan = IF q.plans THEN q.user ELSE @,
                              !.by = IF q.to = KEEP THEN @ ELSE q.to,
                              !.handed = @ \/ q.to # KEEP]
<1>1. q.user \in Someone /\ q.to \in Someone \cup {KEEP} /\ q.plans \in BOOLEAN
  BY DEF Requests
<1>2. new \in TaskRows
  BY <1>1 DEF TaskRows
<1> QED BY <1>1, <1>2 DEF TaskRows

\* The rows of tasks after StoreTask.
LEMMA StoreRows ==
    ASSUME Typed, NEW c \in Clients, StoreTask(c)
    PROVE  LET q == req[c]  id == q.id  row == task[id] IN
           /\ id \in Tasks /\ q \in Requests /\ row \in TaskRows
           /\ \A t \in Tasks \ {id} : task'[t] = task[t]
           /\ task'[id] \in TaskRows
           /\ task'[id].by = IF q.to = KEEP THEN row.by ELSE q.to
           /\ task'[id].plan = IF q.plans THEN q.user ELSE row.plan
           /\ task'[id].progress = q.user
           /\ task'[id].handed <=> row.handed \/ q.to # KEEP
           /\ task'[id].owner = row.owner /\ task'[id].maker = row.maker
           /\ task'[id].deleted = row.deleted
           /\ task' \in [Tasks -> TaskRows]
<1> DEFINE q == req[c]  id == q.id  row == task[id]
           new == [row EXCEPT !.progress = q.user,
                              !.plan = IF q.plans THEN q.user ELSE @,
                              !.by = IF q.to = KEEP THEN @ ELSE q.to,
                              !.handed = @ \/ q.to # KEEP]
<1>1. q \in Requests /\ id \in Tasks /\ row \in TaskRows
  <2>1. q \in Requests /\ Staged(q) /\ q.at = "store"
    BY DEF StoreTask, Typed
  <2>2. id \in Tasks
    BY <2>1 DEF Staged, Stage, TaskStages
  <2>3. task \in [Tasks -> TaskRows]
    BY DEF Typed
  <2> QED BY <2>1, <2>2, <2>3
<1>2. task' = [task EXCEPT ![id] = new]
  BY DEF StoreTask
<1>3. /\ new \in TaskRows
      /\ new.by = IF q.to = KEEP THEN row.by ELSE q.to
      /\ new.plan = IF q.plans THEN q.user ELSE row.plan
      /\ new.progress = q.user
      /\ new.handed <=> row.handed \/ q.to # KEEP
      /\ new.owner = row.owner /\ new.maker = row.maker /\ new.deleted = row.deleted
  BY <1>1, StoredRow
<1> HIDE DEF new
<1> QED BY <1>1, <1>2, <1>3 DEF Typed

\* What a request is when it has read the task again.
LEMMA RereadRequest ==
    ASSUME Typed, NEW c \in Clients, RereadTask(c)
    PROVE  \E p \in Requests :
              /\ req' = [req EXCEPT ![c] = p] /\ p.at = "rewrite" /\ Staged(p) /\ Fits(p)
              /\ p.id = req[c].id /\ p.row = req[c].row /\ p.op = req[c].op /\ p # Idle
<1> DEFINE q == req[c]
           p == [q EXCEPT !.at = "rewrite", !.cols = {f \in TaskColumns : q.row[f] # task[q.id][f]}]
<1>1. q \in Requests /\ Staged(q) /\ q.at = "recorded" /\ "rewrite" \in Ats
  BY DEF RereadTask, Typed, Ats
<1>2. /\ p \in Requests /\ p.at = "rewrite" /\ p.user = q.user /\ p.id = q.id /\ p.row = q.row
      /\ p.op = q.op
  BY <1>1 DEF Requests
<1>3. Staged(p) /\ Fits(p)
  BY <1>1, <1>2 DEF Staged, Fits, Stage, TaskStages
<1>4. p # Idle
  BY <1>2, IdleType
<1>5. req' = [req EXCEPT ![c] = p]
  BY DEF RereadTask, Goes
<1> QED BY <1>2, <1>3, <1>4, <1>5

\* The rows of tasks after WriteTask: of these columns some are those of the entity.
LEMMA RewriteRows ==
    ASSUME Typed, NEW c \in Clients, WriteTask(c)
    PROVE  LET q == req[c]  id == q.id  row == task[id] IN
           /\ id \in Tasks /\ q.op = "record" /\ q.at = "rewrite"
           /\ \A t \in Tasks \ {id} : task'[t] = task[t]
           /\ task' \in [Tasks -> TaskRows]
           /\ task'[id].owner = row.owner /\ task'[id].maker = row.maker
           /\ task'[id].handed = row.handed
           /\ task'[id].by \in {row.by, q.row.by}
           /\ task'[id].plan \in {row.plan, q.row.plan}
           /\ task'[id].deleted = row.deleted \/ task'[id].deleted = q.row.deleted
<1> DEFINE q == req[c]  id == q.id  row == task[id]
           new == [f \in DOMAIN NoTask |-> IF f \in q.cols THEN q.row[f] ELSE row[f]]
<1>1. q \in Requests /\ Staged(q) /\ q.at = "rewrite"
  BY DEF WriteTask, Typed
<1>2. id \in Tasks /\ q.op = "record"
  BY <1>1 DEF Staged, Stage, TaskStages
<1>3. row \in TaskRows /\ q.row \in TaskRows /\ q.cols \subseteq Columns \cup TaskColumns
  BY <1>1, <1>2 DEF Typed, Requests
<1>4. /\ new.owner = row.owner /\ new.maker = row.maker /\ new.handed = row.handed
      /\ new.by = IF "by" \in q.cols THEN q.row.by ELSE row.by
      /\ new.plan = IF "plan" \in q.cols THEN q.row.plan ELSE row.plan
      /\ new.deleted = IF "deleted" \in q.cols THEN q.row.deleted ELSE row.deleted
  BY <1>3 DEF NoTask, Columns, TaskColumns
<1>5. new \in TaskRows
  BY <1>3 DEF NoTask, TaskRows
<1>6. task' = [task EXCEPT ![id] = new]
  BY DEF WriteTask
<1> HIDE DEF new
<1>7. task'[id] = new /\ \A t \in Tasks \ {id} : task'[t] = task[t]
  BY <1>2, <1>6 DEF Typed
<1>8. task' \in [Tasks -> TaskRows]
  BY <1>2, <1>5, <1>6 DEF Typed
<1> QED BY <1>1, <1>2, <1>4, <1>7, <1>8

\* Every step keeps the types.
LEMMA TypedStep == Typed /\ [Next]_vars => Typed'
<1> SUFFICES ASSUME Typed, [Next]_vars PROVE Typed'
  OBVIOUS
<1>1. ASSUME NEW c \in Clients, NEW q, Begins(c, q) PROVE Typed'
  <2>1. q \in Requests /\ Staged(q) /\ Fits(q)
    BY <1>1, BeginsStaged DEF Begins
  <2>2. req' \in [Clients -> Requests] /\ \A d \in Clients : Staged(req'[d])
    BY <1>1, <2>1, TypedRequests DEF Begins
  <2>3. \A d \in Clients : Fits(req[d])'
    BY <1>1, <2>1, FitsStep DEF Begins, rows, Staged
  <2> QED BY <1>1, <2>2, <2>3 DEF Begins, Typed, relations, rows
<1>2. ASSUME NEW c \in Clients, NEW q, Checks(c, q) PROVE Typed'
  <2>1. q \in Requests /\ Staged(q) /\ Fits(q)
    BY <1>2, ChecksStaged
  <2>2. req' \in [Clients -> Requests] /\ \A d \in Clients : Staged(req'[d])
    BY <1>2, <2>1, TypedRequests DEF Checks
  <2>3. \A d \in Clients : Fits(req[d])'
    BY <1>2, <2>1, FitsStep DEF Checks, rows, Staged
  <2> QED BY <1>2, <2>2, <2>3 DEF Checks, Typed, relations, rows
<1>3. ASSUME NEW c \in Clients, InsertTask(c) PROVE Typed'
  <2>1. req' \in [Clients -> Requests] /\ \A d \in Clients : Staged(req'[d])
    BY <1>3, IdleType, TypedRequests DEF InsertTask, Goes
  <2>2. req[c].about \in Users /\ req[c].user \in Users
    BY <1>3 DEF InsertTask, Typed, Staged, Stage
  <2>3. PICK t \in Tasks, by \in Someone :
          task' = [task EXCEPT ![t] = [NoTask EXCEPT !.owner = req[c].about, !.by = by,
                                         !.plan = req[c].user, !.maker = req[c].user]]
    BY <1>3, <2>2 DEF InsertTask, Someone
  <2>4. [NoTask EXCEPT !.owner = req[c].about, !.by = by,
                       !.plan = req[c].user, !.maker = req[c].user] \in TaskRows
    BY <2>2, NoRows DEF TaskRows, Someone
  <2>5. task' \in [Tasks -> TaskRows]
    BY <2>3, <2>4 DEF Typed
  <2>6. \A d \in Clients : Fits(req[d])'
    BY <1>3, IdleFits, FitsStep DEF InsertTask, Goes
  <2> QED BY <1>3, <2>1, <2>5, <2>6 DEF InsertTask, Typed, relations
<1>4. ASSUME NEW c \in Clients, StoreTask(c) PROVE Typed'
  <2>1. req' \in [Clients -> Requests] /\ \A d \in Clients : Staged(req'[d])
    BY <1>4, IdleType, TypedRequests DEF StoreTask, Goes
  <2>2. task' \in [Tasks -> TaskRows]
    BY <1>4, StoreRows
  <2>3. \A d \in Clients : Fits(req[d])'
    BY <1>4, IdleFits, FitsStep DEF StoreTask, Goes
  <2> QED BY <1>4, <2>1, <2>2, <2>3 DEF StoreTask, Typed, relations
<1>5. ASSUME NEW c \in Clients, ArchiveTask(c) PROVE Typed'
  <2> DEFINE q == req[c]
  <2>1. req' \in [Clients -> Requests] /\ \A d \in Clients : Staged(req'[d])
    BY <1>5, IdleType, TypedRequests DEF ArchiveTask, Goes, EndsDeleting
  <2>2. q.id \in Tasks /\ task[q.id] \in TaskRows
    BY <1>5 DEF ArchiveTask, Typed, Staged, Stage, TaskStages
  <2>3. [task[q.id] EXCEPT !.deleted = TRUE] \in TaskRows
    BY <2>2 DEF TaskRows
  <2>4. task' \in [Tasks -> TaskRows]
    BY <1>5, <2>2, <2>3 DEF Typed, ArchiveTask
  <2>5. \A d \in Clients : Fits(req[d])'
    BY <1>5, IdleFits, FitsStep DEF ArchiveTask, Goes, EndsDeleting
  <2> QED BY <1>5, <2>1, <2>4, <2>5 DEF ArchiveTask, Typed, relations
<1>6. ASSUME NEW c \in Clients, InsertEvidence(c) PROVE Typed'
  <2>1. req' \in [Clients -> Requests] /\ \A d \in Clients : Staged(req'[d])
    BY <1>6, IdleType, TypedRequests DEF InsertEvidence, Goes
  <2>2. req[c].about \in Users
    BY <1>6 DEF InsertEvidence, Typed, Staged, Stage
  <2> DEFINE row == [NoEvidence EXCEPT !.student = req[c].about, !.active = TRUE]
  <2>3. PICK e \in FreeEvidences : evidence' = [evidence EXCEPT ![e] = row]
    BY <1>6 DEF InsertEvidence
  <2>4. row \in EvidenceRows /\ row.student # NULL
    BY <2>2, NoRows DEF EvidenceRows, Someone
  <2>5. evidence' \in [Evidences -> EvidenceRows]
    BY <2>3, <2>4 DEF Typed
  <2>6. \A f \in Evidences : evidence'[f].active => evidence'[f].student # NULL
    BY <2>3, <2>4 DEF Typed
  <2>7. \A f \in Evidences : evidence[f].student # NULL =>
            evidence'[f].student = evidence[f].student
    BY <2>3 DEF Typed, FreeEvidences
  <2>8. \A d \in Clients : Fits(req[d])'
    BY <1>6, <2>7, IdleFits, FitsStep DEF InsertEvidence, Goes
  <2> QED BY <1>6, <2>1, <2>5, <2>6, <2>8 DEF InsertEvidence, Typed, relations
<1>7. ASSUME NEW c \in Clients, Reread(c) PROVE Typed'
  <2> DEFINE q == req[c]
             p == [q EXCEPT !.at = "reread",
                            !.cols = {f \in Columns : q.ent[f] # evidence[q.id][f]}]
  <2>1. q \in Requests /\ Staged(q) /\ Fits(q) /\ q.at = "loaded" /\ "reread" \in Ats
    BY <1>7 DEF Reread, Typed, Ats
  <2>2. /\ p \in Requests /\ p.at = "reread" /\ p.user = q.user /\ p.id = q.id /\ p.ent = q.ent
        /\ p.op = q.op
    BY <2>1 DEF Requests
  <2>3. Staged(p) /\ Fits(p)
    BY <2>1, <2>2 DEF Staged, Fits, Stage, TaskStages
  <2>4. req' \in [Clients -> Requests] /\ \A d \in Clients : Staged(req'[d])
    BY <1>7, <2>2, <2>3, TypedRequests DEF Reread, Goes
  <2>5. \A d \in Clients : Fits(req[d])'
    BY <1>7, <2>3, FitsStep DEF Reread, Goes, rows, Staged
  <2> QED BY <1>7, <2>4, <2>5 DEF Reread, Typed, relations, rows
<1>8. ASSUME NEW c \in Clients, Write(c) PROVE Typed'
  <2> DEFINE q == req[c]
             row == [f \in DOMAIN NoEvidence |->
                       IF f \in q.cols THEN q.ent[f] ELSE evidence[q.id][f]]
  <2>1. req' \in [Clients -> Requests] /\ \A d \in Clients : Staged(req'[d])
    BY <1>8, IdleType, TypedRequests DEF Write, Goes, EndsDeleting
  <2>2. /\ q.id \in Evidences /\ q.ent \in EvidenceRows /\ evidence[q.id] \in EvidenceRows
        /\ q.cols \subseteq Columns \cup TaskColumns /\ q.ent.student \in Users
    BY <1>8 DEF Write, Typed, Staged, Stage, Requests
  <2>3. /\ row \in EvidenceRows
        /\ row.student = evidence[q.id].student
    BY <2>2 DEF EvidenceRows, NoEvidence, Columns, TaskColumns
  <2>4. evidence' = [evidence EXCEPT ![q.id] = row]
    BY <1>8 DEF Write
  <2>5. evidence' \in [Evidences -> EvidenceRows]
    BY <2>2, <2>3, <2>4 DEF Typed
  <2>6. evidence[q.id].student \in Users
    BY <1>8, <2>2 DEF Write, Typed, Fits, Stage
  <2>7. \A f \in Evidences : evidence'[f].student = evidence[f].student
    BY <2>2, <2>3, <2>4 DEF Typed
  <2>8. \A f \in Evidences : evidence'[f].active => evidence'[f].student # NULL
    BY <2>3, <2>4, <2>6 DEF Typed
  <2>9. \A d \in Clients : Fits(req[d])'
    BY <1>8, <2>7, IdleFits, FitsStep DEF Write, Goes, EndsDeleting
  <2>10. verdict' \in [Evidences -> Statuses] /\ verdicts' \subseteq Evidences \X Statuses
    BY <1>8, <2>2 DEF Write, Typed, EvidenceRows
  <2> QED BY <1>8, <2>1, <2>5, <2>8, <2>9, <2>10 DEF Write, Typed, relations
<1>9. ASSUME NEW c \in Clients, Abort(c) PROVE Typed'
  <2>1. req' \in [Clients -> Requests] /\ \A d \in Clients : Staged(req'[d])
    BY <1>9, IdleType, TypedRequests DEF Abort, Goes
  <2>2. \A d \in Clients : Fits(req[d])'
    BY <1>9, IdleFits, FitsStep DEF Abort, Goes, rows
  <2> QED BY <1>9, <2>1, <2>2 DEF Abort, Typed, relations, rows
<1>10. CASE Changing
  <2>1. \A kind \in Kinds, b \in BOOLEAN : [active |-> TRUE, kind |-> kind, expired |-> FALSE] \in Grants
    BY DEF Grants
  <2>2. NoGrant \in Grants
    BY DEF Grants, NoGrant, Kinds
  <2>3. ASSUME NEW p \in Pairs PROVE [grant[p] EXCEPT !.expired = TRUE] \in Grants
    <3>1. grant[p] \in Grants
      BY DEF Typed
    <3> QED BY <3>1 DEF Grants
  <2>4. grant' \in [Pairs -> Grants]
    BY <1>10, <2>1, <2>2, <2>3 DEF Changing, Typed, Connect, Disconnect, Grant, Expire, Revoke,
       SwitchRole
  <2>5. role' \in [Users -> {"STUDENT", "MENTOR"}] /\ switched' \subseteq Users
    BY <1>10 DEF Changing, Typed, Connect, Disconnect, Grant, Expire, Revoke, SwitchRole
  <2>6. students' \subseteq Pairs /\ ever' \subseteq Pairs /\ assigns' \subseteq Pairs
    BY <1>10 DEF Changing, Typed, Connect, Disconnect, Grant, Expire, Revoke, SwitchRole
  <2>7. UNCHANGED <<task, evidence, req, verdict, verdicts, mix>>
    BY <1>10 DEF Changing, rows, Connect, Disconnect, Grant, Expire, Revoke, SwitchRole
  <2> QED BY <2>4, <2>5, <2>6, <2>7 DEF Typed, Fits, Stage
<1>11. CASE UNCHANGED vars
  BY <1>11 DEF vars, Typed, Fits, Stage, relations, rows
<1>12. ASSUME NEW c \in Clients, RereadTask(c) PROVE Typed'
  <2>1. PICK p \in Requests : req' = [req EXCEPT ![c] = p] /\ Staged(p) /\ Fits(p)
    BY <1>12, RereadRequest
  <2>2. req' \in [Clients -> Requests] /\ \A d \in Clients : Staged(req'[d])
    BY <2>1, TypedRequests
  <2>3. \A d \in Clients : Fits(req[d])'
    BY <1>12, <2>1, FitsStep DEF RereadTask, rows, Staged
  <2> QED BY <1>12, <2>2, <2>3 DEF RereadTask, Typed, relations, rows
<1>13. ASSUME NEW c \in Clients, WriteTask(c) PROVE Typed'
  <2>1. req' \in [Clients -> Requests] /\ \A d \in Clients : Staged(req'[d])
    BY <1>13, IdleType, TypedRequests DEF WriteTask, Goes
  <2>2. task' \in [Tasks -> TaskRows]
    BY <1>13, RewriteRows
  <2>3. \A d \in Clients : Fits(req[d])'
    BY <1>13, IdleFits, FitsStep DEF WriteTask, Goes
  <2> QED BY <1>13, <2>1, <2>2, <2>3 DEF WriteTask, Typed, relations
<1> QED
  BY <1>1, <1>2, <1>3, <1>4, <1>5, <1>6, <1>7, <1>8, <1>9, <1>10, <1>11, <1>12, <1>13,
     NextCases, StartingBegins, ChecksStep

LEMMA TypedInit == Init => Typed
<1> SUFFICES ASSUME Init PROVE Typed
  OBVIOUS
<1>1. NoGrant \in Grants
  BY DEF Grants, NoGrant, Kinds
<1>2. Idle \in Requests /\ Staged(Idle) /\ Fits(Idle)
  BY IdleType, IdleFits
<1>3. NoEvidence.active = FALSE
  BY DEF NoEvidence
<1> QED BY <1>1, <1>2, <1>3, NoRows DEF Init, Typed, Pairs, Statuses, Fits, Stage

\* Every variable keeps its type, and every request what its next step needs.
THEOREM TypeCorrect == Spec => []TypeOK
<1>1. Spec => []Typed
  BY TypedInit, TypedStep, PTL DEF Spec
<1>2. Init => missed \subseteq Clients
  BY DEF Init
<1>3. missed \subseteq Clients /\ [Next]_vars => (missed \subseteq Clients)'
  <2> SUFFICES ASSUME missed \subseteq Clients, [Next]_vars PROVE (missed \subseteq Clients)'
    OBVIOUS
  <2>1. ASSUME NEW c \in Clients, Starting(c) PROVE missed' \subseteq Clients
    BY <2>1 DEF Starting, CreateTask, AssignTask, Submit, UpdateTask, RemoveTask, RecordTask,
       ReplaceImage, Withdraw, Judge, Goes
  <2>2. ASSUME NEW c \in Clients,
               \/ CheckConnected(c) \/ CheckGrant(c) \/ InsertTask(c) \/ StoreTask(c)
               \/ ArchiveTask(c) \/ RereadTask(c) \/ WriteTask(c) \/ InsertEvidence(c)
               \/ Reread(c) \/ Write(c) \/ Abort(c)
        PROVE  missed' \subseteq Clients
    BY <2>2 DEF CheckConnected, CheckGrant, InsertTask, StoreTask, ArchiveTask, RereadTask,
       WriteTask, InsertEvidence, Reread, Write, Abort, Goes, EndsDeleting
  <2>3. CASE Changing
    BY <2>3 DEF Changing, Connect, Disconnect, Grant, Expire, Revoke, SwitchRole
  <2>4. CASE UNCHANGED vars
    BY <2>4 DEF vars
  <2> QED BY <2>1, <2>2, <2>3, <2>4, NextCases
<1>4. Spec => [](missed \subseteq Clients)
  BY <1>2, <1>3, PTL DEF Spec
<1> QED BY <1>1, <1>4, TypedTypes, PTL

-----------------------------------------------------------------------------
(* Who assigns. Nothing here depends on how requests overlap: a request     *)
(* keeps what it was allowed when it was checked.                           *)

\* A mentor who creates a task for a student has passed the one check there is.
MayAssign(q) ==
    /\ q.at = "insert" /\ q.op = "create" /\ q.about # q.user => <<q.user, q.about>> \in assigns
    /\ q.at \in {"connected", "granted"} /\ q.then = "insert" => q.op = "create" /\ q.times = 1

\* A record that is about to save a task writes its assigner, if no other was set.
Recorder(q) ==
    q.at \in {"recorded", "rewrite"} =>
        /\ task[q.id].owner # NULL
        /\ ~task[q.id].handed => q.row.by = task[q.id].by

AllowedInv ==
    /\ students \subseteq assigns
    /\ \A p \in Pairs : grant[p].active /\ grant[p].kind = "ASSIGN" => p \in assigns
    /\ \A c \in Clients : MayAssign(req[c]) /\ Recorder(req[c])
    /\ AssignerAllowed

\* Another request may assign what it could before.
LEMMA MayAssignStep ==
    ASSUME Typed, \A d \in Clients : MayAssign(req[d]), assigns \subseteq assigns',
           NEW c \in Clients, NEW q, req' = [req EXCEPT ![c] = q], MayAssign(q)
    PROVE  \A d \in Clients : MayAssign(req[d])'
<1>1. req \in [Clients -> Requests]
  BY DEF Typed
<1>2. \A d \in Clients : req'[d] = IF d = c THEN q ELSE req[d]
  BY <1>1
<1> QED BY <1>2 DEF MayAssign

LEMMA IdleMayAssign == MayAssign(Idle) /\ Recorder(Idle)
BY DEF MayAssign, Recorder, Idle

\* A task keeps its owner, and its assigner unless it is handed over: what the others are
\* about to record stays so.
LEMMA RecorderStep ==
    ASSUME Typed, \A d \in Clients : Recorder(req[d]),
           NEW c \in Clients, NEW q, req' = [req EXCEPT ![c] = q], Recorder(q),
           q.at \in {"recorded", "rewrite"} => q.id \in Tasks,
           \A t \in Tasks : task[t].owner # NULL =>
               /\ task'[t].owner = task[t].owner
               /\ task'[t].handed \/ (~task[t].handed /\ task'[t].by = task[t].by)
    PROVE  \A d \in Clients : Recorder(req[d])'
<1> SUFFICES ASSUME NEW d \in Clients PROVE Recorder(req[d])'
  OBVIOUS
<1> DEFINE p == IF d = c THEN q ELSE req[d]
<1>1. req'[d] = p
  BY DEF Typed
<1>2. Recorder(p) /\ (p.at \in {"recorded", "rewrite"} => p.id \in Tasks)
  BY DEF Typed, Staged, Stage, TaskStages
<1> QED BY <1>1, <1>2 DEF Recorder

LEMMA BeginsMayAssign ==
    ASSUME NEW c \in Clients, NEW q, Begins(c, q)
    PROVE  MayAssign(q) /\ Recorder(q)
<1>1. CASE BegunInsert(q)
  BY <1>1 DEF BegunInsert, MayAssign, Recorder
<1>2. CASE BegunTask(q)
  BY <1>2 DEF BegunTask, MayAssign, Recorder, Holds, TaskColumns
<1>3. CASE BegunEvidence(q)
  BY <1>3 DEF BegunEvidence, MayAssign, Recorder
<1> QED BY <1>1, <1>2, <1>3 DEF Begins

LEMMA ChecksMayAssign ==
    ASSUME Typed, AllowedInv, NEW c \in Clients, NEW q, Checks(c, q)
    PROVE  MayAssign(q) /\ Recorder(q)
<1> DEFINE o == req[c]
<1>1. o \in Requests /\ Staged(o) /\ MayAssign(o) /\ o.at \in {"connected", "granted"}
  BY DEF Typed, AllowedInv, Checks
<1>2. CASE q = Passed(o) /\ o.then = "insert"
  <2>1. /\ q.at = "insert" /\ o.op = "create" /\ q.user = o.user /\ q.about = o.about
    BY <1>1, <1>2, PassedFields DEF MayAssign
  <2>2. <<o.user, o.about>> \in Pairs
    BY <1>1 DEF Staged, Pairs
  <2>3. q # Idle /\ q # [o EXCEPT !.at = "granted"]
    BY <1>1, <2>1 DEF Requests, Idle
  <2>4. o.user = o.about \/ <<o.user, o.about>> \in assigns
    BY <2>1, <2>2, <2>3 DEF Checks, AllowedInv
  <2> QED BY <2>1, <2>4 DEF MayAssign, Recorder
<1>3. CASE q = Passed(o) /\ o.then # "insert"
  <2>1. q.at \in {"connected", o.then} /\ (q.at = "connected" => q.then = o.then)
    BY <1>1, <1>3, PassedFields
  <2>2. o.then \in {"submit", "loaded"}
    BY <1>1, <1>3 DEF Staged
  <2> QED BY <1>3, <2>1, <2>2 DEF MayAssign, Recorder
<1>4. CASE q = [o EXCEPT !.at = "granted"]
  BY <1>1, <1>4 DEF Requests, MayAssign, Recorder
<1>5. CASE q = Idle
  BY <1>5, IdleMayAssign
<1> QED BY <1>2, <1>3, <1>4, <1>5 DEF Checks

LEMMA AllowedStep == Typed /\ AllowedInv /\ [Next]_vars => AllowedInv'
<1> SUFFICES ASSUME Typed, AllowedInv, [Next]_vars PROVE AllowedInv'
  OBVIOUS
<1>0. ASSUME NEW c \in Clients, NEW q, req' = [req EXCEPT ![c] = q], MayAssign(q), Recorder(q),
             q.at \in {"recorded", "rewrite"} => q.id \in Tasks,
             UNCHANGED relations,
             \A t \in Tasks : task[t].owner # NULL =>
                 /\ task'[t].owner = task[t].owner
                 /\ task'[t].handed \/ (~task[t].handed /\ task'[t].by = task[t].by)
      PROVE  \A d \in Clients : MayAssign(req[d])' /\ Recorder(req[d])'
  <2>1. \A d \in Clients : MayAssign(req[d])'
    BY <1>0, MayAssignStep DEF AllowedInv, relations
  <2>2. \A d \in Clients : Recorder(req[d])'
    BY <1>0, RecorderStep DEF AllowedInv
  <2> QED BY <2>1, <2>2
<1>1. ASSUME NEW c \in Clients, NEW q, MayAssign(q), Recorder(q), req' = [req EXCEPT ![c] = q],
             q.at \in {"recorded", "rewrite"} => q.id \in Tasks, UNCHANGED <<relations, task>>
      PROVE  AllowedInv'
  <2>1. \A d \in Clients : MayAssign(req[d])' /\ Recorder(req[d])'
    BY <1>0, <1>1
  <2> QED BY <1>1, <2>1 DEF AllowedInv, relations, AssignerAllowed
<1>i. Idle.at \notin {"recorded", "rewrite"}
  BY IdleType
<1>2. ASSUME NEW c \in Clients, InsertTask(c) PROVE AllowedInv'
  <2> DEFINE q == req[c]
             by == IF q.op = "create" /\ q.about # q.user THEN q.user ELSE NULL
  <2>2. PICK t \in FreeTasks :
          task' = [task EXCEPT ![t] = [NoTask EXCEPT !.owner = q.about, !.by = by,
                                         !.plan = q.user, !.maker = q.user]]
    BY <1>2 DEF InsertTask
  <2>3. by # NULL => by = q.user /\ <<q.user, q.about>> \in assigns
    BY <1>2 DEF InsertTask, AllowedInv, MayAssign
  <2>4. /\ task'[t].by = by /\ task'[t].maker = q.user /\ task'[t].owner = q.about
        /\ t \in Tasks /\ task[t].owner = NULL /\ \A u \in Tasks \ {t} : task'[u] = task[u]
    BY <2>2 DEF NoTask, Typed, FreeTasks
  <2>1. \A d \in Clients : MayAssign(req[d])' /\ Recorder(req[d])'
    BY <1>0, <1>2, <1>i, <2>4, IdleMayAssign DEF InsertTask, Goes
  <2>5. AssignerAllowed'
    BY <1>2, <2>3, <2>4 DEF AssignerAllowed, AllowedInv, InsertTask, relations
  <2> QED BY <1>2, <2>1, <2>5 DEF InsertTask, AllowedInv, relations
<1>3. ASSUME NEW c \in Clients, StoreTask(c) PROVE AllowedInv'
  <2>2. \A t \in Tasks : /\ task'[t].owner = task[t].owner /\ task'[t].maker = task[t].maker
                         /\ task'[t].by = task[t].by \/ task'[t].handed
                         /\ task[t].handed => task'[t].handed
    BY <1>3, StoreRows
  <2>1. \A d \in Clients : MayAssign(req[d])' /\ Recorder(req[d])'
    <3>1. \A t \in Tasks : task'[t].handed \/ (~task[t].handed /\ task'[t].by = task[t].by)
      BY <2>2
    <3> QED BY <1>0, <1>3, <1>i, <2>2, <3>1, IdleMayAssign DEF StoreTask, Goes
  <2>3. AssignerAllowed'
    BY <1>3, <2>2 DEF AssignerAllowed, AllowedInv, StoreTask, relations
  <2> QED BY <1>3, <2>1, <2>3 DEF StoreTask, AllowedInv, relations
<1>4. ASSUME NEW c \in Clients, ArchiveTask(c) PROVE AllowedInv'
  <2>2. \A t \in Tasks : /\ task'[t].owner = task[t].owner /\ task'[t].maker = task[t].maker
                         /\ task'[t].by = task[t].by /\ task'[t].handed = task[t].handed
    <3>1. task \in [Tasks -> TaskRows]
      BY DEF Typed
    <3> QED BY <1>4, <3>1 DEF ArchiveTask, TaskRows
  <2>1. \A d \in Clients : MayAssign(req[d])' /\ Recorder(req[d])'
    BY <1>0, <1>4, <1>i, <2>2, IdleMayAssign DEF ArchiveTask, EndsDeleting
  <2>3. AssignerAllowed'
    BY <1>4, <2>2 DEF AssignerAllowed, AllowedInv, ArchiveTask, relations
  <2> QED BY <1>4, <2>1, <2>3 DEF ArchiveTask, AllowedInv, relations
<1>5. ASSUME NEW c \in Clients, Reread(c) PROVE AllowedInv'
  <2> DEFINE q == req[c]
             p == [q EXCEPT !.at = "reread",
                            !.cols = {f \in Columns : q.ent[f] # evidence[q.id][f]}]
  <2>1. q \in Requests
    BY DEF Typed
  <2>2. p.at = "reread"
    BY <2>1 DEF Requests
  <2>3. MayAssign(p) /\ Recorder(p)
    BY <2>2 DEF MayAssign, Recorder
  <2> QED BY <1>1, <1>5, <2>2, <2>3 DEF Reread, Goes, rows
<1>6. CASE Changing
  <2>1. students' \subseteq assigns' /\ assigns \subseteq assigns'
    BY <1>6 DEF Changing, AllowedInv, Connect, Disconnect, Grant, Expire, Revoke, SwitchRole
  <2>2. \A p \in Pairs : grant'[p].active /\ grant'[p].kind = "ASSIGN" => p \in assigns'
    <3> SUFFICES ASSUME NEW p \in Pairs, Expire(p) \/ Revoke(p) \/ \E kind \in Kinds : Grant(p, kind)
                 PROVE  \A o \in Pairs : grant'[o].active /\ grant'[o].kind = "ASSIGN" => o \in assigns'
      BY <1>6, <2>1 DEF Changing, AllowedInv, Connect, Disconnect, SwitchRole
    <3>1. grant \in [Pairs -> Grants]
      BY DEF Typed
    <3>2. CASE Expire(p)
      BY <3>1, <3>2 DEF Expire, AllowedInv, Grants
    <3>3. CASE Revoke(p)
      BY <3>1, <3>3 DEF Revoke, AllowedInv, Grants, NoGrant
    <3>4. ASSUME NEW kind \in Kinds, Grant(p, kind)
          PROVE  \A o \in Pairs : grant'[o].active /\ grant'[o].kind = "ASSIGN" => o \in assigns'
      BY <3>1, <3>4, <2>1 DEF Grant, AllowedInv, Grants
    <3> QED BY <3>2, <3>3, <3>4
  <2>3. UNCHANGED <<task, req>>
    BY <1>6 DEF Changing, rows, Connect, Disconnect, Grant, Expire, Revoke, SwitchRole
  <2> QED BY <2>1, <2>2, <2>3 DEF AllowedInv, MayAssign, Recorder, AssignerAllowed
<1>7. CASE UNCHANGED vars
  BY <1>7 DEF vars, relations, rows, AllowedInv, MayAssign, Recorder, AssignerAllowed
<1>8. ASSUME NEW c \in Clients, Starting(c) PROVE AllowedInv'
  <2>1. PICK q : Begins(c, q)
    BY <1>8, StartingBegins
  <2>2. q.at \in {"recorded", "rewrite"} => q.id \in Tasks
    BY <2>1 DEF Begins, BegunInsert, BegunTask, BegunEvidence
  <2> QED BY <1>1, <2>1, <2>2, BeginsMayAssign DEF Begins, rows
<1>9. ASSUME NEW c \in Clients, CheckConnected(c) \/ CheckGrant(c) PROVE AllowedInv'
  <2>1. PICK q : Checks(c, q)
    BY <1>9, ChecksStep
  <2>2. q.at \in {"recorded", "rewrite"} => q.id \in Tasks
    BY <2>1, ChecksStaged DEF Staged, Stage, TaskStages
  <2> QED BY <1>1, <2>1, <2>2, ChecksMayAssign DEF Checks, rows
<1>10. ASSUME NEW c \in Clients, InsertEvidence(c) \/ Write(c) \/ Abort(c) PROVE AllowedInv'
  BY <1>1, <1>10, <1>i, IdleMayAssign DEF InsertEvidence, Write, Abort, Goes, EndsDeleting, rows
<1>11. ASSUME NEW c \in Clients, RereadTask(c) PROVE AllowedInv'
  <2>1. PICK p \in Requests : /\ req' = [req EXCEPT ![c] = p] /\ p.at = "rewrite" /\ Staged(p)
                              /\ p.id = req[c].id /\ p.row = req[c].row
    BY <1>11, RereadRequest
  <2>2. Recorder(p)
    BY <1>11, <2>1 DEF RereadTask, AllowedInv, Recorder
  <2>3. MayAssign(p) /\ p.id \in Tasks
    BY <2>1 DEF MayAssign, Staged, Stage, TaskStages
  <2> QED BY <1>1, <1>11, <2>1, <2>2, <2>3 DEF RereadTask, rows
<1>12. ASSUME NEW c \in Clients, WriteTask(c) PROVE AllowedInv'
  <2>1. Recorder(req[c]) /\ req[c].id \in Tasks /\ req[c].at = "rewrite"
    BY <1>12, RewriteRows DEF AllowedInv
  <2>2. \A t \in Tasks : /\ task'[t].owner = task[t].owner /\ task'[t].maker = task[t].maker
                         /\ task'[t].handed = task[t].handed
                         /\ ~task[t].handed => task'[t].by = task[t].by
    BY <1>12, <2>1, RewriteRows DEF Recorder
  <2>3. \A d \in Clients : MayAssign(req[d])' /\ Recorder(req[d])'
    BY <1>0, <1>12, <1>i, <2>2, IdleMayAssign DEF WriteTask, Goes
  <2>4. AssignerAllowed'
    BY <1>12, <2>2 DEF AssignerAllowed, AllowedInv, WriteTask, relations
  <2> QED BY <1>12, <2>3, <2>4 DEF WriteTask, AllowedInv, relations
<1> QED
  BY <1>11, <1>12, <1>2, <1>3, <1>4, <1>5, <1>6, <1>7, <1>8, <1>9, <1>10, NextCases

LEMMA AllowedInit == Init => AllowedInv
BY IdleMayAssign DEF Init, AllowedInv, AssignerAllowed, NoTask, NoGrant

\* The assigner of a task that was not handed over is who created it, with the right to.
THEOREM AssignersWereAllowed == Spec => []AssignerAllowed
<1>1. Spec => []Typed
  BY TypedInit, TypedStep, PTL DEF Spec
<1>2. Spec => []AllowedInv
  BY <1>1, AllowedInit, AllowedStep, PTL DEF Spec
<1>3. AllowedInv => AssignerAllowed
  BY DEF AllowedInv
<1> QED BY <1>2, <1>3, PTL

-----------------------------------------------------------------------------
(* Requests about one row that wait for each other.                         *)

\* No two requests in flight are about one row.
Apart ==
    mix.serial => \A c, d \in Clients : c # d /\ req[c].id = req[d].id => req[c].id = NULL

\* What a step makes of the requests.
Moves ==
    \/ \E c \in Clients : \E q : Begins(c, q)
    \/ \E c \in Clients : \E q : req' = [req EXCEPT ![c] = q] /\ q.id \in {req[c].id, NULL}
    \/ req' = req

LEMMA StepMoves == Typed /\ [Next]_vars => Moves /\ mix' = mix
<1> SUFFICES ASSUME Typed, [Next]_vars PROVE Moves /\ mix' = mix
  OBVIOUS
<1>1. ASSUME NEW c \in Clients, Starting(c) PROVE Moves /\ mix' = mix
  BY <1>1, StartingBegins DEF Moves, Begins
<1>2. ASSUME NEW c \in Clients, CheckConnected(c) \/ CheckGrant(c) PROVE Moves /\ mix' = mix
  <2>1. PICK q : Checks(c, q)
    BY <1>2, ChecksStep
  <2>2. req[c] \in Requests /\ Staged(req[c])
    BY DEF Typed
  <2>3. q.id \in {req[c].id, NULL}
    BY <2>1, <2>2, PassedFields, IdleType DEF Checks, Requests
  <2> QED BY <2>1, <2>3 DEF Checks, Moves
<1>3. ASSUME NEW c \in Clients,
             \/ InsertTask(c) \/ StoreTask(c) \/ ArchiveTask(c) \/ WriteTask(c)
             \/ InsertEvidence(c) \/ Write(c) \/ Abort(c)
      PROVE  Moves /\ mix' = mix
  BY <1>3, IdleType
  DEF InsertTask, StoreTask, ArchiveTask, WriteTask, InsertEvidence, Write, Abort, Goes,
      EndsDeleting, Moves
<1>4. ASSUME NEW c \in Clients, Reread(c) PROVE Moves /\ mix' = mix
  <2>1. req[c] \in Requests
    BY DEF Typed
  <2>2. [req[c] EXCEPT !.at = "reread",
             !.cols = {f \in Columns : req[c].ent[f] # evidence[req[c].id][f]}].id = req[c].id
    BY <2>1 DEF Requests
  <2> QED BY <1>4, <2>2 DEF Reread, Goes, Moves
<1>5. CASE Changing
  BY <1>5 DEF Changing, Moves, Connect, Disconnect, Grant, Expire, Revoke, SwitchRole
<1>6. CASE UNCHANGED vars
  BY <1>6 DEF vars, Moves
<1>7. ASSUME NEW c \in Clients, RereadTask(c) PROVE Moves /\ mix' = mix
  <2>1. PICK p \in Requests : req' = [req EXCEPT ![c] = p] /\ p.id = req[c].id
    BY <1>7, RereadRequest
  <2> QED BY <1>7, <2>1 DEF RereadTask, Moves
<1> QED BY <1>1, <1>2, <1>3, <1>4, <1>5, <1>6, <1>7, NextCases

LEMMA ApartStep == Typed /\ Apart /\ [Next]_vars => Apart'
<1> SUFFICES ASSUME Typed, Apart, [Next]_vars, mix.serial,
                    NEW c \in Clients, NEW d \in Clients, c # d, req'[c].id = req'[d].id
             PROVE  req'[c].id = NULL
  BY StepMoves DEF Apart
<1>1. req \in [Clients -> Requests]
  BY DEF Typed
<1>2. ASSUME NEW b \in Clients, NEW q, Begins(b, q) PROVE req'[c].id = NULL
  <2>1. \A a \in Clients : req'[a] = IF a = b THEN q ELSE req[a]
    BY <1>1, <1>2 DEF Begins
  <2>2. q.id = NULL \/ \A a \in Clients : req[a].id # q.id
    BY <1>2 DEF Begins, BegunInsert, BegunTask, BegunEvidence, Alone
  <2> QED BY <2>1, <2>2 DEF Apart
<1>3. ASSUME NEW b \in Clients, NEW q,
             req' = [req EXCEPT ![b] = q] /\ q.id \in {req[b].id, NULL}
      PROVE  req'[c].id = NULL
  <2>1. \A a \in Clients : req'[a] = IF a = b THEN q ELSE req[a]
    BY <1>1, <1>3
  <2> QED BY <1>3, <2>1 DEF Apart
<1>4. CASE req' = req
  BY <1>4 DEF Apart
<1> QED BY <1>2, <1>3, <1>4, StepMoves DEF Moves

LEMMA ApartInit == Init => Apart
BY IdleType DEF Init, Apart

-----------------------------------------------------------------------------
(* Verdicts. A row of evidence that a request has loaded is written by no   *)
(* other request, if requests about one row do not overlap: what was loaded *)
(* is still the row when it is written.                                     *)

\* A judge has been allowed to see the evidence of the student; anybody else writes back
\* a status that the row had.
Judges(q) ==
    Stage(q) \in {"loaded", "reread"} =>
        /\ q.op = "judge" =>
             /\ q.role = "MENTOR"
             /\ q.at \in {"loaded", "reread"} => <<q.user, q.ent.student>> \in ever
             /\ q.at \in {"connected", "granted"} => q.about = q.ent.student
        /\ q.op # "judge" => q.ent.status = "PENDING" \/ <<q.id, q.ent.status>> \in verdicts

\* What was loaded is still the row.
Fresh(q) ==
    Stage(q) \in {"loaded", "reread"} =>
        /\ evidence[q.id].active
        /\ q.op # "judge" => q.ent.status = evidence[q.id].status
        /\ q.at = "reread" => q.cols = {f \in Columns : q.ent[f] # evidence[q.id][f]}

JudgedInv ==
    /\ students \subseteq ever
    /\ \A p \in Pairs : grant[p].active => p \in ever
    /\ \A u \in Users : <<u, u>> \in ever
    /\ \A e \in Evidences : evidence[e].student = NULL =>
           evidence[e].status = "PENDING" /\ verdict[e] = "PENDING"
    /\ \A c \in Clients : Judges(req[c]) /\ (mix.serial => Fresh(req[c]))
    /\ VerdictOfMentor

LEMMA IdleJudges == Judges(Idle) /\ Fresh(Idle)
BY IdleFits DEF Judges, Fresh

LEMMA BeginsJudges ==
    ASSUME Typed, JudgedInv, NEW c \in Clients, NEW q, Begins(c, q)
    PROVE  Judges(q) /\ Fresh(q)
<1>1. CASE BegunInsert(q)
  BY <1>1 DEF BegunInsert, Judges, Fresh, Stage
<1>2. CASE BegunTask(q)
  BY <1>2 DEF BegunTask, Judges, Fresh, Stage
<1>3. CASE BegunEvidence(q) /\ q.op = "judge"
  BY <1>3 DEF BegunEvidence, Judges, Fresh
<1>4. CASE BegunEvidence(q) /\ q.op # "judge"
  <2>1. q.ent.status = "PENDING" \/ <<q.id, q.ent.status>> \in verdicts
    BY <1>4 DEF BegunEvidence, JudgedInv, VerdictOfMentor
  <2> QED BY <1>4, <2>1 DEF BegunEvidence, Judges, Fresh
<1> QED BY <1>1, <1>2, <1>3, <1>4 DEF Begins

LEMMA ChecksJudges ==
    ASSUME Typed, JudgedInv, NEW c \in Clients, NEW q, Checks(c, q)
    PROVE  Judges(q) /\ (mix.serial => Fresh(q))
<1> DEFINE o == req[c]
<1>1. /\ o \in Requests /\ Staged(o) /\ o.at \in {"connected", "granted"}
      /\ Judges(o) /\ (mix.serial => Fresh(o))
  BY DEF Typed, JudgedInv, Checks
<1>2. CASE q = Passed(o) /\ o.then = "loaded"
  <2>1. /\ Stage(q) = "loaded" /\ Stage(o) = "loaded" /\ q.at \in {"connected", "loaded"}
        /\ q.op = o.op /\ q.user = o.user /\ q.role = o.role /\ q.id = o.id /\ q.ent = o.ent
        /\ q.about = o.about
    BY <1>1, <1>2, PassedFields DEF Stage
  <2>2. o.about \in Users /\ o.user \in Users
    BY <1>1, <2>1 DEF Staged
  <2>3. q # Idle /\ q # [o EXCEPT !.at = "granted"]
    BY <1>1, <2>1, IdleType DEF Requests
  <2>4. <<o.user, o.about>> \in ever
    BY <2>2, <2>3 DEF Checks, JudgedInv, Pairs
  <2>5. q.op = "judge" => q.role = "MENTOR" /\ q.about = q.ent.student
    BY <1>1, <2>1 DEF Judges
  <2>6. q.op # "judge" => q.ent.status = "PENDING" \/ <<q.id, q.ent.status>> \in verdicts
    BY <1>1, <2>1 DEF Judges
  <2>7. Judges(q)
    BY <2>1, <2>4, <2>5, <2>6 DEF Judges
  <2> QED BY <1>1, <2>1, <2>7 DEF Fresh
<1>3. CASE q = Passed(o) /\ o.then # "loaded"
  <2>1. Stage(q) = o.then /\ o.then \in {"insert", "submit"}
    BY <1>1, <1>3, PassedFields DEF Stage, Staged
  <2> QED BY <2>1 DEF Judges, Fresh
<1>4. CASE q = [o EXCEPT !.at = "granted"]
  <2>1. /\ q.at = "granted" /\ Stage(q) = Stage(o)
        /\ q.op = o.op /\ q.role = o.role /\ q.id = o.id /\ q.ent = o.ent /\ q.about = o.about
    BY <1>1, <1>4 DEF Requests, Stage
  <2> QED BY <1>1, <2>1 DEF Judges, Fresh
<1>5. CASE q = Idle
  BY <1>5, IdleJudges
<1> QED BY <1>2, <1>3, <1>4, <1>5 DEF Checks

\* A step that leaves evidence, verdicts and relations alone.
LEMMA JudgedQuiet ==
    ASSUME Typed, JudgedInv, NEW c \in Clients, NEW q, req' = [req EXCEPT ![c] = q],
           UNCHANGED <<relations, evidence, verdict, verdicts, mix>>,
           Judges(q), mix.serial => Fresh(q)
    PROVE  JudgedInv'
<1>1. req \in [Clients -> Requests]
  BY DEF Typed
<1>2. \A d \in Clients : req'[d] = IF d = c THEN q ELSE req[d]
  BY <1>1
<1>3. \A d \in Clients : Judges(req[d])' /\ (mix.serial => Fresh(req[d]))'
  BY <1>2 DEF JudgedInv, Judges, Fresh, Stage, relations
<1> QED BY <1>3 DEF JudgedInv, VerdictOfMentor, relations

\* What the others have loaded, when a request ends with a write of one row.
LEMMA JudgedEnd ==
    ASSUME Typed, JudgedInv, Apart, NEW c \in Clients, req' = [req EXCEPT ![c] = Idle],
           UNCHANGED <<relations, mix>>, verdicts \subseteq verdicts',
           \A e \in Evidences \ {req[c].id} : evidence[e].student # NULL => evidence'[e] = evidence[e]
    PROVE  \A d \in Clients : Judges(req[d])' /\ (mix.serial => Fresh(req[d]))'
<1> SUFFICES ASSUME NEW d \in Clients PROVE Judges(req[d])' /\ (mix.serial => Fresh(req[d]))'
  OBVIOUS
<1>1. req'[d] = IF d = c THEN Idle ELSE req[d]
  BY DEF Typed
<1>2. CASE d = c
  <2>1. req'[d] = Idle
    BY <1>1, <1>2
  <2>2. Stage(req'[d]) = "idle"
    BY <2>1, IdleFits
  <2> QED BY <2>2 DEF Judges, Fresh, Stage
<1>3. CASE d # c
  <2>1. req'[d] = req[d] /\ Judges(req[d]) /\ (mix.serial => Fresh(req[d]))
    BY <1>1, <1>3 DEF JudgedInv
  <2>2. Judges(req[d])'
    BY <2>1 DEF Judges, Stage, relations
  <2>3. ASSUME mix.serial, Stage(req[d]) \in {"loaded", "reread"}
        PROVE  evidence'[req[d].id] = evidence[req[d].id]
    <3>1. /\ req[d].id \in Evidences /\ req[d].ent.student \in Users
          /\ evidence[req[d].id].student = req[d].ent.student
      BY <2>3 DEF Typed, Staged, Fits
    <3>2. req[d].id # req[c].id
      BY <1>3, <2>3, <3>1 DEF Apart
    <3> QED BY <3>1, <3>2
  <2>4. (mix.serial => Fresh(req[d]))'
    BY <2>1, <2>3 DEF Fresh, Stage
  <2> QED BY <2>2, <2>4
<1> QED BY <1>2, <1>3

\* The row of a free id is inserted: of nobody's verdict.
LEMMA JudgedInsert ==
    ASSUME Typed, JudgedInv, Apart, NEW c \in Clients, InsertEvidence(c)
    PROVE  JudgedInv'
<1> DEFINE row == [NoEvidence EXCEPT !.student = req[c].about, !.active = TRUE]
<1>1. PICK e \in FreeEvidences : evidence' = [evidence EXCEPT ![e] = row]
  BY DEF InsertEvidence
<1>2. /\ e \in Evidences /\ evidence[e].student = NULL
      /\ \A f \in Evidences : evidence'[f] = IF f = e THEN row ELSE evidence[f]
  BY <1>1 DEF FreeEvidences, Typed
<1>3. row.status = "PENDING" /\ verdict[e] = "PENDING"
  BY <1>2 DEF NoEvidence, JudgedInv
<1>4. UNCHANGED <<relations, mix, verdict, verdicts>> /\ req' = [req EXCEPT ![c] = Idle]
  BY DEF InsertEvidence, Goes
<1>5. \A d \in Clients : Judges(req[d])' /\ (mix.serial => Fresh(req[d]))'
  BY <1>2, <1>4, JudgedEnd
<1>6. \A f \in Evidences :
          evidence'[f].status = evidence[f].status \/ (f = e /\ evidence'[f].status = "PENDING")
  <2> HIDE DEF row
  <2> QED BY <1>2, <1>3
<1>7. VerdictOfMentor'
  BY <1>3, <1>4, <1>6 DEF JudgedInv, VerdictOfMentor
<1>8. \A f \in Evidences : evidence'[f].student = NULL =>
          evidence'[f].status = "PENDING" /\ verdict'[f] = "PENDING"
  BY <1>2, <1>3, <1>4 DEF JudgedInv
<1> QED BY <1>4, <1>5, <1>7, <1>8 DEF JudgedInv, relations

\* A verdict is written with the columns that differ from the row; anybody else writes
\* the status that was loaded, if the row has another now.
LEMMA JudgedWrite ==
    ASSUME Typed, JudgedInv, Apart, NEW c \in Clients, Write(c)
    PROVE  JudgedInv'
<1> DEFINE q == req[c]
           e == q.id
           row == [f \in DOMAIN NoEvidence |-> IF f \in q.cols THEN q.ent[f] ELSE evidence[e][f]]
           judges == q.op = "judge" /\ q.role = "MENTOR" /\ <<q.user, q.ent.student>> \in ever
<1>1. /\ q \in Requests /\ q.at = "reread" /\ Stage(q) = "reread" /\ Judges(q)
      /\ (mix.serial => Fresh(q)) /\ Staged(q) /\ Fits(q)
  BY DEF Write, Typed, JudgedInv, Stage
<1>2. /\ e \in Evidences /\ q.ent.student \in Users /\ evidence[e].student = q.ent.student
      /\ q.op \in {"replace", "judge", "withdraw"}
  BY <1>1 DEF Staged, Fits
<1>3. \A f \in Evidences : evidence'[f] = IF f = e THEN row ELSE evidence[f]
  BY <1>2 DEF Write, Typed
<1>4. /\ row.student = evidence[e].student
      /\ row.status = IF "status" \in q.cols THEN q.ent.status ELSE evidence[e].status
  BY <1>1 DEF NoEvidence, Requests, Columns, TaskColumns
<1>5. /\ UNCHANGED <<relations, mix>> /\ req' = [req EXCEPT ![c] = Idle]
      /\ verdicts \subseteq verdicts'
  BY DEF Write, Goes, EndsDeleting
<1>6. \A d \in Clients : Judges(req[d])' /\ (mix.serial => Fresh(req[d]))'
  BY <1>3, <1>5, JudgedEnd
<1>7. \A f \in Evidences : evidence'[f].student = evidence[f].student
  BY <1>3, <1>4
<1>8. CASE q.op = "judge"
  <2>1. judges
    BY <1>1, <1>8 DEF Judges
  <2>2. /\ \A f \in Evidences : verdict'[f] = IF f = e THEN q.ent.status ELSE verdict[f]
        /\ <<e, q.ent.status>> \in verdicts'
    BY <1>2, <2>1 DEF Write, Typed
  <2>3. mix.serial => row.status = q.ent.status
    BY <1>1, <1>4 DEF Fresh, Columns
  <2>4. row.status \in {q.ent.status, evidence[e].status}
    BY <1>4
  <2>5. VerdictOfMentor'
    <3> SUFFICES ASSUME NEW f \in Evidences
                 PROVE  /\ mix.serial => evidence'[f].status = verdict'[f]
                        /\ evidence'[f].status = "PENDING" \/ <<f, evidence'[f].status>> \in verdicts'
      BY <1>5 DEF VerdictOfMentor
    <3>1. /\ mix.serial => evidence[f].status = verdict[f]
          /\ evidence[f].status = "PENDING" \/ <<f, evidence[f].status>> \in verdicts
      BY DEF JudgedInv, VerdictOfMentor
    <3>2. CASE f = e
      <4>1. evidence'[f].status = row.status
        BY <1>3, <3>2
      <4> HIDE DEF row
      <4> QED BY <1>5, <2>2, <2>3, <2>4, <3>1, <3>2, <4>1
    <3>3. CASE f # e
      <4>1. evidence'[f] = evidence[f]
        BY <1>3, <3>3
      <4>2. verdict'[f] = verdict[f] /\ verdicts \subseteq verdicts'
        BY <1>5, <2>2, <3>3
      <4> QED BY <3>1, <4>1, <4>2
    <3> QED BY <3>2, <3>3
  <2>6. \A f \in Evidences : evidence[f].student = NULL =>
            evidence'[f] = evidence[f] /\ verdict'[f] = verdict[f]
    BY <1>2, <1>3, <2>2
  <2> QED BY <1>5, <1>6, <1>7, <2>5, <2>6 DEF JudgedInv, relations
<1>9. CASE q.op # "judge"
  <2>1. UNCHANGED <<verdict, verdicts>>
    BY <1>9 DEF Write
  <2>2. mix.serial => row.status = evidence[e].status
    BY <1>1, <1>4, <1>9 DEF Fresh
  <2>3. row.status = "PENDING" \/ <<e, row.status>> \in verdicts
    BY <1>1, <1>2, <1>4, <1>9 DEF Judges, JudgedInv, VerdictOfMentor
  <2>4. VerdictOfMentor'
    <3> SUFFICES ASSUME NEW f \in Evidences
                 PROVE  /\ mix.serial => evidence'[f].status = verdict'[f]
                        /\ evidence'[f].status = "PENDING" \/ <<f, evidence'[f].status>> \in verdicts'
      BY <1>5 DEF VerdictOfMentor
    <3>1. /\ mix.serial => evidence[f].status = verdict[f]
          /\ evidence[f].status = "PENDING" \/ <<f, evidence[f].status>> \in verdicts
      BY DEF JudgedInv, VerdictOfMentor
    <3>2. CASE f = e
      <4>1. evidence'[f].status = row.status
        BY <1>3, <3>2
      <4> HIDE DEF row
      <4> QED BY <2>1, <2>2, <2>3, <3>1, <3>2, <4>1
    <3>3. CASE f # e
      <4>1. evidence'[f] = evidence[f]
        BY <1>3, <3>3
      <4>2. verdict'[f] = verdict[f] /\ verdicts' = verdicts
        BY <2>1
      <4> QED BY <3>1, <4>1, <4>2
    <3> QED BY <3>2, <3>3
  <2>5. \A f \in Evidences : evidence[f].student = NULL =>
            evidence'[f] = evidence[f] /\ verdict'[f] = verdict[f]
    BY <1>2, <1>3, <2>1
  <2> QED BY <1>5, <1>6, <1>7, <2>4, <2>5 DEF JudgedInv, relations
<1> QED BY <1>8, <1>9

LEMMA JudgedStep == Typed /\ Apart /\ JudgedInv /\ [Next]_vars => JudgedInv'
<1> SUFFICES ASSUME Typed, Apart, JudgedInv, [Next]_vars PROVE JudgedInv'
  OBVIOUS
<1>1. ASSUME NEW c \in Clients, Starting(c) PROVE JudgedInv'
  BY <1>1, StartingBegins, BeginsJudges, JudgedQuiet DEF Begins, rows
<1>2. ASSUME NEW c \in Clients, CheckConnected(c) \/ CheckGrant(c) PROVE JudgedInv'
  BY <1>2, ChecksStep, ChecksJudges, JudgedQuiet DEF Checks, rows
<1>3. ASSUME NEW c \in Clients,
             InsertTask(c) \/ StoreTask(c) \/ ArchiveTask(c) \/ WriteTask(c) \/ Abort(c)
      PROVE  JudgedInv'
  BY <1>3, IdleJudges, JudgedQuiet
  DEF InsertTask, StoreTask, ArchiveTask, WriteTask, Abort, Goes, EndsDeleting, rows
<1>4. ASSUME NEW c \in Clients, InsertEvidence(c) PROVE JudgedInv'
  BY <1>4, JudgedInsert
<1>5. ASSUME NEW c \in Clients, Reread(c) PROVE JudgedInv'
  <2> DEFINE q == req[c]
             p == [q EXCEPT !.at = "reread",
                            !.cols = {f \in Columns : q.ent[f] # evidence[q.id][f]}]
  <2>1. q \in Requests /\ q.at = "loaded" /\ Judges(q) /\ (mix.serial => Fresh(q))
    BY <1>5 DEF Typed, JudgedInv, Reread
  <2>2. /\ Stage(p) = "reread" /\ Stage(q) = "loaded" /\ p.at = "reread"
        /\ p.op = q.op /\ p.user = q.user /\ p.role = q.role /\ p.id = q.id /\ p.ent = q.ent
        /\ p.cols = {f \in Columns : q.ent[f] # evidence[q.id][f]}
    BY <2>1 DEF Requests, Stage
  <2>3. Judges(p) /\ (mix.serial => Fresh(p))
    BY <2>1, <2>2 DEF Judges, Fresh
  <2> QED BY <1>5, <2>3, JudgedQuiet DEF Reread, Goes, rows
<1>6. ASSUME NEW c \in Clients, Write(c) PROVE JudgedInv'
  BY <1>6, JudgedWrite
<1>7. CASE Changing
  <2>1. students' \subseteq ever' /\ ever \subseteq ever'
    BY <1>7 DEF Changing, JudgedInv, Connect, Disconnect, Grant, Expire, Revoke, SwitchRole
  <2>2. UNCHANGED <<evidence, req, verdict, verdicts, mix>>
    BY <1>7 DEF Changing, rows, Connect, Disconnect, Grant, Expire, Revoke, SwitchRole
  <2>3. \A p \in Pairs : grant'[p].active => p \in ever'
    <3>1. grant \in [Pairs -> Grants]
      BY DEF Typed
    <3> QED BY <1>7, <2>1, <3>1 DEF Changing, JudgedInv, Grants, NoGrant, Connect, Disconnect,
               Grant, Expire, Revoke, SwitchRole
  <2>4. \A c \in Clients : Judges(req[c])' /\ (mix.serial => Fresh(req[c]))'
    BY <2>1, <2>2 DEF JudgedInv, Judges, Fresh, Stage
  <2> QED BY <2>1, <2>2, <2>3, <2>4 DEF JudgedInv, VerdictOfMentor
<1>8. CASE UNCHANGED vars
  BY <1>8 DEF vars, relations, rows, JudgedInv, Judges, Fresh, Stage, VerdictOfMentor
<1>9. ASSUME NEW c \in Clients, RereadTask(c) PROVE JudgedInv'
  <2>1. PICK p \in Requests : req' = [req EXCEPT ![c] = p] /\ p.at = "rewrite"
    BY <1>9, RereadRequest
  <2>2. Judges(p) /\ Fresh(p)
    BY <2>1 DEF Judges, Fresh, Stage
  <2> QED BY <1>9, <2>1, <2>2, JudgedQuiet DEF RereadTask, rows
<1> QED BY <1>1, <1>2, <1>3, <1>4, <1>5, <1>6, <1>7, <1>8, <1>9, NextCases

LEMMA JudgedInit == Init => JudgedInv
<1> SUFFICES ASSUME Init PROVE JudgedInv
  OBVIOUS
<1>1. \A c \in Clients : Judges(req[c]) /\ Fresh(req[c])
  BY IdleJudges DEF Init
<1>2. \A e \in Evidences : evidence[e].status = "PENDING" /\ verdict[e] = "PENDING"
  BY DEF Init, NoEvidence
<1> QED BY <1>1, <1>2 DEF Init, JudgedInv, VerdictOfMentor, NoGrant

\* The status of evidence is the verdict of a mentor who had been allowed to see it: the
\* last one, while requests about it do not overlap.
THEOREM VerdictsAreOfMentors == Spec => []VerdictOfMentor
<1>1. Spec => [](Typed /\ Apart)
  BY TypedInit, TypedStep, ApartInit, ApartStep, PTL DEF Spec
<1>2. Spec => []JudgedInv
  BY <1>1, JudgedInit, JudgedStep, PTL DEF Spec
<1>3. JudgedInv => VerdictOfMentor
  BY DEF JudgedInv
<1> QED BY <1>2, <1>3, PTL

-----------------------------------------------------------------------------
(* Tasks. What a request was allowed to do to a task it still may, when it  *)
(* does it, if requests about one task do not overlap.                      *)

\* The task of a request that is about to write it exists; a record has found it not deleted.
Exists(q) ==
    /\ q.at \in TaskStages => task[q.id].owner # NULL
    /\ q.at \in {"recorded", "rewrite"} => ~q.row.deleted

Keeps(q) ==
    /\ q.at \in TaskStages => task[q.id].owner # NULL /\ ~task[q.id].deleted
    /\ q.at \in {"recorded", "rewrite"} => Holds(q)
    /\ q.at = "store" /\ (q.plans \/ q.to # KEEP) /\ Assigned(task[q.id]) =>
           task[q.id].by = q.user

KeptInv ==
    /\ \A t \in Tasks : task[t].owner = NULL => task[t].by = NULL /\ ~task[t].deleted
    /\ \A c \in Clients : Exists(req[c])
    /\ mix.serial => \A c \in Clients : Keeps(req[c])

LEMMA IdleKeeps == Keeps(Idle) /\ Exists(Idle)
BY DEF Keeps, Exists, Idle, TaskStages

\* A step that leaves the tasks alone.
LEMMA KeptQuiet ==
    ASSUME Typed, KeptInv, NEW c \in Clients, NEW q, req' = [req EXCEPT ![c] = q],
           UNCHANGED <<task, mix>>, mix.serial => Keeps(q), Exists(q)
    PROVE  KeptInv'
<1>1. \A d \in Clients : req'[d] = IF d = c THEN q ELSE req[d]
  BY DEF Typed
<1> QED BY <1>1 DEF KeptInv, Keeps, Exists, Holds, Assigned

\* What the others are about to do, when a request ends that wrote one row.
LEMMA KeptEnd ==
    ASSUME Typed, KeptInv, Apart, NEW c \in Clients, req' = [req EXCEPT ![c] = Idle],
           mix' = mix, mix.serial,
           \A t \in Tasks \ {req[c].id} : task[t].owner # NULL => task'[t] = task[t]
    PROVE  \A d \in Clients : Keeps(req[d])'
<1> SUFFICES ASSUME NEW d \in Clients PROVE Keeps(req[d])'
  OBVIOUS
<1>1. req'[d] = IF d = c THEN Idle ELSE req[d]
  BY DEF Typed
<1>2. CASE d = c
  BY <1>1, <1>2, IdleType DEF Keeps, TaskStages
<1>3. CASE d # c
  <2>1. req'[d] = req[d] /\ Keeps(req[d])
    BY <1>1, <1>3 DEF KeptInv
  <2>2. ASSUME req[d].at \in TaskStages
        PROVE  task'[req[d].id] = task[req[d].id]
    <3>1. Stage(req[d]) \in TaskStages
      BY <2>2 DEF Stage, TaskStages
    <3>2. req[d].id \in Tasks /\ task[req[d].id].owner # NULL
      BY <2>1, <2>2, <3>1 DEF Typed, Staged, Keeps
    <3>3. req[d].id # req[c].id
      BY <1>3, <3>2 DEF Apart
    <3> QED BY <3>2, <3>3
  <2> QED BY <2>1, <2>2 DEF Keeps, Holds, Assigned, TaskStages
<1> QED BY <1>2, <1>3

\* No row of a task becomes free.
LEMMA ExistsEnd ==
    ASSUME Typed, KeptInv, NEW c \in Clients, req' = [req EXCEPT ![c] = Idle],
           \A t \in Tasks : task[t].owner # NULL => task'[t].owner # NULL
    PROVE  \A d \in Clients : Exists(req[d])'
<1> SUFFICES ASSUME NEW d \in Clients PROVE Exists(req[d])'
  OBVIOUS
<1>1. req'[d] = IF d = c THEN Idle ELSE req[d]
  BY DEF Typed
<1>2. CASE d = c
  BY <1>1, <1>2, IdleType DEF Exists, TaskStages
<1>3. CASE d # c
  <2>1. req'[d] = req[d] /\ Exists(req[d]) /\ Staged(req[d])
    BY <1>1, <1>3 DEF KeptInv, Typed
  <2>2. req[d].at \in TaskStages => req[d].id \in Tasks
    BY <2>1 DEF Staged, Stage, TaskStages
  <2> QED BY <2>1, <2>2 DEF Exists
<1> QED BY <1>2, <1>3

\* The rows of tasks after InsertTask and ArchiveTask.
LEMMA InsertRows ==
    ASSUME Typed, NEW c \in Clients, InsertTask(c)
    PROVE  \E t \in FreeTasks :
              /\ task'[t].owner # NULL /\ ~task'[t].deleted
              /\ \A u \in Tasks \ {t} : task'[u] = task[u]
<1>1. req[c].about # NULL
  BY DEF InsertTask, Typed, Staged, Stage
<1>2. PICK t \in FreeTasks : \E by : task' = [task EXCEPT ![t] =
          [NoTask EXCEPT !.owner = req[c].about, !.by = by, !.plan = req[c].user,
                         !.maker = req[c].user]]
  BY DEF InsertTask
<1>3. t \in Tasks
  BY <1>2 DEF FreeTasks
<1> QED BY <1>1, <1>2, <1>3 DEF Typed, NoTask

LEMMA ArchiveRows ==
    ASSUME Typed, NEW c \in Clients, ArchiveTask(c)
    PROVE  /\ req[c].id \in Tasks
           /\ \A u \in Tasks \ {req[c].id} : task'[u] = task[u]
           /\ task'[req[c].id] = [task[req[c].id] EXCEPT !.deleted = TRUE]
           /\ \A u \in Tasks : /\ task'[u].owner = task[u].owner /\ task'[u].by = task[u].by
                               /\ task'[u].plan = task[u].plan
                               /\ task[u].deleted => task'[u].deleted
<1>1. Stage(req[c]) = "archive" /\ Staged(req[c]) /\ task \in [Tasks -> TaskRows]
  BY DEF ArchiveTask, Stage, Typed
<1>2. req[c].id \in Tasks
  BY <1>1 DEF Staged, TaskStages
<1> QED BY <1>1, <1>2 DEF ArchiveTask, TaskRows

LEMMA KeptStep == Typed /\ Apart /\ KeptInv /\ [Next]_vars => KeptInv'
<1> SUFFICES ASSUME Typed, Apart, KeptInv, [Next]_vars PROVE KeptInv'
  OBVIOUS
<1>1. ASSUME NEW c \in Clients, Starting(c) PROVE KeptInv'
  <2>1. PICK q : Begins(c, q)
    BY <1>1, StartingBegins
  <2>2. Keeps(q) /\ Exists(q)
    BY <2>1 DEF Begins, BegunInsert, BegunTask, BegunEvidence, Keeps, Exists, Holds, TaskStages,
        TaskColumns
  <2> QED BY <2>1, <2>2, KeptQuiet DEF Begins, rows
<1>2. ASSUME NEW c \in Clients, CheckConnected(c) \/ CheckGrant(c) PROVE KeptInv'
  <2>1. PICK q : Checks(c, q)
    BY <1>2, ChecksStep
  <2>2. /\ req[c] \in Requests /\ Staged(req[c])
        /\ req[c].at \in {"connected", "granted"}
    BY <2>1 DEF Typed, Checks
  <2>3. q.at \notin TaskStages
    <3>1. q.at \in {"connected", "granted", "idle", req[c].then}
      BY <2>1, <2>2, PassedFields, IdleType DEF Checks, Requests
    <3> QED BY <2>2, <3>1 DEF Staged, TaskStages
  <2>4. Keeps(q) /\ Exists(q)
    BY <2>3 DEF Keeps, Exists, TaskStages
  <2> QED BY <2>1, <2>4, KeptQuiet DEF Checks, rows
<1>3. ASSUME NEW c \in Clients, InsertEvidence(c) \/ Write(c) \/ Abort(c) PROVE KeptInv'
  BY <1>3, IdleKeeps, KeptQuiet DEF InsertEvidence, Write, Abort, Goes, EndsDeleting, rows
<1>4. ASSUME NEW c \in Clients, Reread(c) PROVE KeptInv'
  <2> DEFINE q == req[c]
             p == [q EXCEPT !.at = "reread",
                            !.cols = {f \in Columns : q.ent[f] # evidence[q.id][f]}]
  <2>1. q \in Requests
    BY DEF Typed
  <2>2. p.at = "reread"
    BY <2>1 DEF Requests
  <2>3. Keeps(p) /\ Exists(p)
    BY <2>2 DEF Keeps, Exists, TaskStages
  <2> QED BY <1>4, <2>3, KeptQuiet DEF Reread, Goes, rows
<1>5. ASSUME NEW c \in Clients, InsertTask(c) PROVE KeptInv'
  <2>1. PICK t \in FreeTasks : /\ task'[t].owner # NULL /\ ~task'[t].deleted
                               /\ \A u \in Tasks \ {t} : task'[u] = task[u]
    BY <1>5, InsertRows
  <2>2. req' = [req EXCEPT ![c] = Idle] /\ mix' = mix
    BY <1>5 DEF InsertTask, Goes
  <2>3. mix.serial => \A d \in Clients : Keeps(req[d])'
    BY <2>1, <2>2, KeptEnd DEF FreeTasks
  <2>4. \A u \in Tasks : task'[u].owner = NULL => task'[u] = task[u]
    BY <2>1
  <2>5. \A d \in Clients : Exists(req[d])'
    BY <2>1, <2>2, ExistsEnd
  <2> QED BY <2>2, <2>3, <2>4, <2>5 DEF KeptInv
<1>6. ASSUME NEW c \in Clients, StoreTask(c) PROVE KeptInv'
  <2>1. req' = [req EXCEPT ![c] = Idle] /\ mix' = mix
    BY <1>6 DEF StoreTask, Goes
  <2>2. mix.serial => \A d \in Clients : Keeps(req[d])'
    BY <1>6, <2>1, KeptEnd, StoreRows
  <2>3. \A d \in Clients : Exists(req[d])'
    BY <1>6, <2>1, ExistsEnd, StoreRows
  <2>4. \A u \in Tasks : task'[u].owner = NULL => task'[u] = task[u]
    <3>1. task[req[c].id].owner # NULL
      BY <1>6 DEF KeptInv, Exists, StoreTask, TaskStages
    <3> QED BY <1>6, <3>1, StoreRows
  <2> QED BY <2>1, <2>2, <2>3, <2>4 DEF KeptInv
<1>7. ASSUME NEW c \in Clients, ArchiveTask(c) PROVE KeptInv'
  <2>1. req' = [req EXCEPT ![c] = Idle] /\ mix' = mix
    BY <1>7 DEF ArchiveTask, Goes, EndsDeleting
  <2>2. mix.serial => \A d \in Clients : Keeps(req[d])'
    BY <1>7, <2>1, KeptEnd, ArchiveRows
  <2>3. \A d \in Clients : Exists(req[d])'
    BY <1>7, <2>1, ExistsEnd, ArchiveRows
  <2>4. \A u \in Tasks : task'[u].owner = NULL => task'[u] = task[u]
    <3>1. task[req[c].id].owner # NULL
      BY <1>7 DEF KeptInv, Exists, ArchiveTask, TaskStages
    <3> QED BY <1>7, <3>1, ArchiveRows
  <2> QED BY <2>1, <2>2, <2>3, <2>4 DEF KeptInv
<1>8. CASE Changing
  <2>1. UNCHANGED <<task, req, mix>>
    BY <1>8 DEF Changing, rows, Connect, Disconnect, Grant, Expire, Revoke, SwitchRole
  <2> QED BY <2>1 DEF KeptInv, Keeps, Exists, Holds, Assigned
<1>9. CASE UNCHANGED vars
  BY <1>9 DEF vars, rows, KeptInv, Keeps, Exists, Holds, Assigned
<1>10. ASSUME NEW c \in Clients, RereadTask(c) PROVE KeptInv'
  <2>1. PICK p \in Requests : /\ req' = [req EXCEPT ![c] = p] /\ p.at = "rewrite"
                              /\ p.id = req[c].id /\ p.row = req[c].row
    BY <1>10, RereadRequest
  <2>2. req[c].at = "recorded" /\ Exists(req[c]) /\ (mix.serial => Keeps(req[c]))
    BY <1>10 DEF RereadTask, KeptInv
  <2>3. Exists(p) /\ (mix.serial => Keeps(p))
    BY <2>1, <2>2 DEF Exists, Keeps, Holds, TaskStages
  <2> QED BY <1>10, <2>1, <2>3, KeptQuiet DEF RereadTask, rows
<1>11. ASSUME NEW c \in Clients, WriteTask(c) PROVE KeptInv'
  <2>1. req' = [req EXCEPT ![c] = Idle] /\ mix' = mix
    BY <1>11 DEF WriteTask, Goes
  <2>2. mix.serial => \A d \in Clients : Keeps(req[d])'
    BY <1>11, <2>1, KeptEnd, RewriteRows
  <2>3. \A u \in Tasks : task'[u].owner = task[u].owner
    BY <1>11, RewriteRows
  <2>4. \A d \in Clients : Exists(req[d])'
    BY <2>1, <2>3, ExistsEnd
  <2>5. \A u \in Tasks : task'[u].owner = NULL => task'[u] = task[u]
    <3>1. task[req[c].id].owner # NULL
      BY <1>11 DEF KeptInv, Exists, WriteTask, TaskStages
    <3> QED BY <1>11, <2>3, <3>1, RewriteRows
  <2> QED BY <2>1, <2>2, <2>4, <2>5 DEF KeptInv
<1> QED
  BY <1>1, <1>2, <1>3, <1>4, <1>5, <1>6, <1>7, <1>8, <1>9, <1>10, <1>11, NextCases

LEMMA KeptInit == Init => KeptInv
BY IdleKeeps DEF Init, KeptInv, NoTask

\* A step leaves the rows of tasks alone, or is one of the four that write one.
LEMMA TaskWriters ==
    ASSUME [Next]_vars
    PROVE  \/ task' = task
           \/ \E c \in Clients :
                 InsertTask(c) \/ StoreTask(c) \/ ArchiveTask(c) \/ WriteTask(c)
<1>1. ASSUME NEW c \in Clients, Starting(c) PROVE task' = task
  BY <1>1
  DEF Starting, CreateTask, AssignTask, Submit, UpdateTask, RemoveTask, RecordTask,
      ReplaceImage, Withdraw, Judge, rows
<1>2. ASSUME NEW c \in Clients, CheckConnected(c) \/ CheckGrant(c) PROVE task' = task
  BY <1>2 DEF CheckConnected, CheckGrant, rows
<1>3. ASSUME NEW c \in Clients,
             RereadTask(c) \/ InsertEvidence(c) \/ Reread(c) \/ Write(c) \/ Abort(c)
      PROVE  task' = task
  BY <1>3 DEF RereadTask, InsertEvidence, Reread, Write, Abort, rows
<1>4. CASE Changing
  BY <1>4 DEF Changing, rows, Connect, Disconnect, Grant, Expire, Revoke, SwitchRole
<1>5. CASE UNCHANGED vars
  BY <1>5 DEF vars, rows
<1> QED BY <1>1, <1>2, <1>3, <1>4, <1>5, NextCases

\* Of the rows of evidence, those two.
LEMMA EvidenceWriters ==
    ASSUME [Next]_vars
    PROVE  evidence' = evidence \/ \E c \in Clients : InsertEvidence(c) \/ Write(c)
<1>1. ASSUME NEW c \in Clients, Starting(c) PROVE evidence' = evidence
  BY <1>1
  DEF Starting, CreateTask, AssignTask, Submit, UpdateTask, RemoveTask, RecordTask,
      ReplaceImage, Withdraw, Judge, rows
<1>2. ASSUME NEW c \in Clients, CheckConnected(c) \/ CheckGrant(c) PROVE evidence' = evidence
  BY <1>2 DEF CheckConnected, CheckGrant, rows
<1>3. ASSUME NEW c \in Clients,
             \/ InsertTask(c) \/ StoreTask(c) \/ ArchiveTask(c) \/ RereadTask(c) \/ WriteTask(c)
             \/ Reread(c) \/ Abort(c)
      PROVE  evidence' = evidence
  BY <1>3 DEF InsertTask, StoreTask, ArchiveTask, RereadTask, WriteTask, Reread, Abort, rows
<1>4. CASE Changing
  BY <1>4 DEF Changing, rows, Connect, Disconnect, Grant, Expire, Revoke, SwitchRole
<1>5. CASE UNCHANGED vars
  BY <1>5 DEF vars, rows
<1> QED BY <1>1, <1>2, <1>3, <1>4, <1>5, NextCases

LEMMA PlanStepHolds == Typed /\ KeptInv /\ [Next]_vars => (mix.serial => PlanStep)
<1> SUFFICES ASSUME Typed, KeptInv, [Next]_vars, mix.serial, NEW t \in Tasks,
                    Assigned(task[t]),
                    <<task'[t].plan, task'[t].by>> # <<task[t].plan, task[t].by>>
             PROVE  task'[t].progress = task[t].by
  BY DEF PlanStep
<1>1. ASSUME NEW c \in Clients, InsertTask(c) PROVE FALSE
  <2>1. PICK u \in FreeTasks : \A v \in Tasks \ {u} : task'[v] = task[v]
    BY <1>1, InsertRows
  <2>2. task[t].owner # NULL
    BY DEF KeptInv, Assigned
  <2> QED BY <2>1, <2>2 DEF FreeTasks
<1>2. ASSUME NEW c \in Clients, StoreTask(c) PROVE task'[t].progress = task[t].by
  <2>1. Keeps(req[c]) /\ req[c].at = "store"
    BY <1>2 DEF KeptInv, StoreTask
  <2>2. t = req[c].id /\ (req[c].plans \/ req[c].to # KEEP)
    BY <1>2, StoreRows
  <2> QED BY <1>2, <2>1, <2>2, StoreRows DEF Keeps
<1>3. ASSUME NEW c \in Clients, ArchiveTask(c) PROVE FALSE
  BY <1>3, ArchiveRows
<1>4. ASSUME NEW c \in Clients, WriteTask(c) PROVE FALSE
  <2>1. Holds(req[c])
    BY <1>4 DEF KeptInv, Keeps, WriteTask
  <2>2. req[c].row.by = task[req[c].id].by /\ req[c].row.plan = task[req[c].id].plan
    BY <2>1 DEF Holds, TaskColumns
  <2> QED BY <1>4, <2>2, RewriteRows
<1> QED BY <1>1, <1>2, <1>3, <1>4, TaskWriters

\* While requests about one task do not overlap, only the assigner changes the plan of an
\* assigned task and its assigner.
THEOREM PlansByAssigners == Spec => PlanByAssigner
<1>1. Spec => [](Typed /\ Apart)
  BY TypedInit, TypedStep, ApartInit, ApartStep, PTL DEF Spec
<1>2. Spec => []KeptInv
  BY <1>1, KeptInit, KeptStep, PTL DEF Spec
<1> QED BY <1>1, <1>2, PlanStepHolds, PTL DEF Spec, PlanByAssigner

-----------------------------------------------------------------------------
(* Deletion. A request that is about to write a deleted row is one of those *)
(* that were under way when it was deleted.                                 *)

Behind(q) ==
    \/ q.at \in TaskStages /\ task[q.id].deleted
    \/ Stage(q) \in {"loaded", "reread"} /\ ~evidence[q.id].active

BehindInv == \A c \in Clients : Behind(req[c]) => c \in missed

LEMMA IdleBehind == ~Behind(Idle)
BY IdleFits, IdleType DEF Behind, TaskStages

\* A step that deletes no row, but perhaps inserts one or brings one back.
LEMMA BehindQuiet ==
    ASSUME Typed, KeptInv, BehindInv, NEW c \in Clients, NEW q, Goes(c, q),
           Behind(q)' => c \in missed /\ q # Idle,
           \A t \in Tasks : task[t].owner # NULL /\ ~task[t].deleted => ~task'[t].deleted,
           \A e \in Evidences : evidence[e].active => evidence'[e].active
    PROVE  BehindInv'
<1> SUFFICES ASSUME NEW d \in Clients, Behind(req[d])' PROVE d \in missed'
  BY DEF BehindInv
<1>1. req'[d] = IF d = c THEN q ELSE req[d]
  BY DEF Typed, Goes
<1>2. CASE d = c
  <2>1. Behind(q)'
    BY <1>1, <1>2 DEF Behind, Stage
  <2> QED BY <1>2, <2>1 DEF Goes
<1>3. CASE d # c
  <2>1. req'[d] = req[d] /\ Staged(req[d]) /\ Exists(req[d])
    BY <1>1, <1>3 DEF Typed, KeptInv
  <2>2. CASE req[d].at \in TaskStages /\ task'[req[d].id].deleted
    <3>1. req[d].id \in Tasks /\ task[req[d].id].owner # NULL
      BY <2>1, <2>2 DEF Staged, Stage, Exists, TaskStages
    <3> QED BY <1>3, <2>2, <3>1 DEF BehindInv, Behind, Goes
  <2>3. CASE Stage(req[d]) \in {"loaded", "reread"} /\ ~evidence'[req[d].id].active
    <3>1. req[d].id \in Evidences
      BY <2>1, <2>3 DEF Staged
    <3> QED BY <1>3, <2>3, <3>1 DEF BehindInv, Behind, Goes
  <2>4. Behind(req[d])' => \/ req[d].at \in TaskStages /\ task'[req[d].id].deleted
                           \/ Stage(req[d]) \in {"loaded", "reread"} /\ ~evidence'[req[d].id].active
    BY <2>1 DEF Behind, Stage
  <2> QED BY <2>2, <2>3, <2>4
<1> QED BY <1>2, <1>3

\* A step that deletes the row it writes.
LEMMA BehindDelete ==
    ASSUME Typed, KeptInv, BehindInv, NEW c \in Clients, EndsDeleting(c),
           \A t \in Tasks \ {req[c].id} : task'[t] = task[t],
           \A e \in Evidences \ {req[c].id} : evidence'[e] = evidence[e]
    PROVE  BehindInv'
<1> SUFFICES ASSUME NEW d \in Clients, Behind(req[d])' PROVE d \in missed'
  BY DEF BehindInv
<1>1. req'[d] = IF d = c THEN Idle ELSE req[d]
  BY DEF Typed, EndsDeleting
<1>2. CASE d = c
  <2>1. req'[d] = Idle
    BY <1>1, <1>2
  <2>2. Stage(req'[d]) = "idle" /\ req'[d].at = "idle"
    BY <2>1, IdleFits, IdleType
  <2> QED BY <2>2 DEF Behind, Stage, TaskStages
<1>3. CASE d # c /\ req[d].id = req[c].id
  BY <1>3 DEF EndsDeleting
<1>4. CASE d # c /\ req[d].id # req[c].id
  <2>1. req'[d] = req[d] /\ Staged(req[d])
    BY <1>1, <1>4 DEF Typed
  <2>2. Behind(req[d])
    <3>1. req[d].at \in TaskStages => task'[req[d].id] = task[req[d].id]
      BY <1>4, <2>1 DEF Staged, Stage, TaskStages
    <3>2. Stage(req[d]) \in {"loaded", "reread"} => evidence'[req[d].id] = evidence[req[d].id]
      BY <1>4, <2>1 DEF Staged
    <3> QED BY <2>1, <3>1, <3>2 DEF Behind, Stage
  <2> QED BY <1>4, <2>2 DEF BehindInv, EndsDeleting
<1> QED BY <1>2, <1>3, <1>4

\* A request that begins is about a row that is not deleted.
LEMMA BeginsBehind ==
    ASSUME NEW c \in Clients, NEW q, Begins(c, q)
    PROVE  ~Behind(q)' /\ q # Idle
<1>1. CASE BegunInsert(q)
  BY <1>1, IdleType DEF BegunInsert, Behind, Stage, TaskStages
<1>2. CASE BegunTask(q)
  BY <1>2, IdleType DEF BegunTask, Begins, Behind, Stage, TaskStages, rows
<1>3. CASE BegunEvidence(q)
  BY <1>3, IdleType DEF BegunEvidence, Begins, Behind, Stage, TaskStages, rows
<1> QED BY <1>1, <1>2, <1>3 DEF Begins

LEMMA BehindStep == Typed /\ KeptInv /\ BehindInv /\ [Next]_vars => BehindInv'
<1> SUFFICES ASSUME Typed, KeptInv, BehindInv, [Next]_vars PROVE BehindInv'
  OBVIOUS
<1>i. ~Behind(Idle)'
  <2>1. Idle.at = "idle" /\ Stage(Idle) = "idle"
    BY IdleFits, IdleType
  <2> QED BY <2>1 DEF Behind, Stage, TaskStages
<1>1. ASSUME NEW c \in Clients, Starting(c) PROVE BehindInv'
  <2>1. PICK q : Begins(c, q)
    BY <1>1, StartingBegins
  <2>2. PICK p : Goes(c, p)
    BY <1>1 DEF Starting, CreateTask, AssignTask, Submit, UpdateTask, RemoveTask, RecordTask,
                ReplaceImage, Withdraw, Judge
  <2>3. p = q
    BY <2>1, <2>2 DEF Begins, Goes, Typed
  <2> QED BY <2>1, <2>2, <2>3, BeginsBehind, BehindQuiet DEF Begins, rows
<1>2. ASSUME NEW c \in Clients, CheckConnected(c) \/ CheckGrant(c) PROVE BehindInv'
  <2>1. PICK q : Checks(c, q)
    BY <1>2, ChecksStep
  <2>2. PICK p : Goes(c, p)
    BY <1>2 DEF CheckConnected, CheckGrant
  <2>3. p = q /\ UNCHANGED rows
    BY <2>1, <2>2 DEF Checks, Goes, Typed
  <2>4. Behind(q)' => c \in missed /\ q # Idle
    <3>1. q = Idle \/ (q.id = req[c].id /\ Stage(q) = Stage(req[c]))
      <4>1. req[c] \in Requests /\ Staged(req[c]) /\ req[c].at \in {"connected", "granted"}
        BY <2>1 DEF Typed, Checks
      <4> QED BY <2>1, <4>1, PassedFields DEF Checks, Requests, Stage
    <3>2. q.at \notin TaskStages
      <4>1. req[c] \in Requests /\ Staged(req[c]) /\ req[c].at \in {"connected", "granted"}
        BY <2>1 DEF Typed, Checks
      <4>2. q.at \in {"connected", "granted", "idle", req[c].then}
        BY <2>1, <4>1, PassedFields, IdleType DEF Checks, Requests
      <4> QED BY <4>1, <4>2 DEF Staged, TaskStages
    <3> QED BY <1>i, <2>3, <3>1, <3>2 DEF Behind, BehindInv, rows
  <2> QED BY <2>2, <2>3, <2>4, BehindQuiet DEF rows
<1>3. ASSUME NEW c \in Clients, InsertTask(c) PROVE BehindInv'
  <2>1. PICK t \in FreeTasks : \A u \in Tasks \ {t} : task'[u] = task[u]
    BY <1>3, InsertRows
  <2> QED BY <1>3, <1>i, <2>1, BehindQuiet DEF InsertTask, FreeTasks
<1>4. ASSUME NEW c \in Clients, StoreTask(c) PROVE BehindInv'
  <2>1. \A t \in Tasks : task'[t].deleted = task[t].deleted
    BY <1>4, StoreRows
  <2> QED BY <1>4, <1>i, <2>1, BehindQuiet DEF StoreTask
<1>5. ASSUME NEW c \in Clients, ArchiveTask(c) PROVE BehindInv'
  BY <1>5, ArchiveRows, BehindDelete DEF ArchiveTask
<1>6. ASSUME NEW c \in Clients, WriteTask(c) PROVE BehindInv'
  <2>1. \A t \in Tasks \ {req[c].id} : task'[t] = task[t]
    BY <1>6, RewriteRows
  <2>2. ~task[req[c].id].deleted => ~task'[req[c].id].deleted
    BY <1>6, RewriteRows DEF WriteTask, KeptInv, Exists, TaskStages
  <2>3. \A t \in Tasks : ~task[t].deleted => ~task'[t].deleted
    BY <2>1, <2>2
  <2> QED BY <1>6, <1>i, <2>3, BehindQuiet DEF WriteTask
<1>7. ASSUME NEW c \in Clients, InsertEvidence(c) PROVE BehindInv'
  <2>1. \A e \in Evidences : evidence[e].active => evidence'[e].active
    BY <1>7 DEF InsertEvidence, Typed
  <2> QED BY <1>7, <1>i, <2>1, BehindQuiet DEF InsertEvidence
<1>8. ASSUME NEW c \in Clients, RereadTask(c) PROVE BehindInv'
  <2>1. PICK p \in Requests : /\ req' = [req EXCEPT ![c] = p] /\ p.at = "rewrite"
                              /\ p.id = req[c].id /\ p # Idle
    BY <1>8, RereadRequest
  <2>2. PICK q : Goes(c, q)
    BY <1>8 DEF RereadTask
  <2>3. p = q /\ UNCHANGED rows
    BY <1>8, <2>1, <2>2 DEF RereadTask, Goes, Typed
  <2>4. Behind(p)' => c \in missed /\ p # Idle
    BY <1>8, <2>1, <2>3 DEF RereadTask, Behind, BehindInv, Stage, TaskStages, rows
  <2> QED BY <2>2, <2>3, <2>4, BehindQuiet DEF rows
<1>9. ASSUME NEW c \in Clients, Reread(c) PROVE BehindInv'
  <2> DEFINE q == req[c]
             p == [q EXCEPT !.at = "reread",
                            !.cols = {f \in Columns : q.ent[f] # evidence[q.id][f]}]
  <2>1. p.at = "reread" /\ p.id = q.id /\ Stage(q) = "loaded" /\ p # Idle
    BY <1>9, IdleType DEF Reread, Typed, Requests, Stage
  <2>2. PICK r : Goes(c, r) /\ r.at = "reread" /\ r.id = q.id /\ r # Idle
    BY <1>9, <2>1 DEF Reread
  <2>3. UNCHANGED rows
    BY <1>9 DEF Reread
  <2>4. Behind(r)' => c \in missed /\ r # Idle
    BY <2>1, <2>2, <2>3 DEF Behind, BehindInv, Stage, TaskStages, rows
  <2> QED BY <2>2, <2>3, <2>4, BehindQuiet DEF rows
<1>10. ASSUME NEW c \in Clients, Write(c) PROVE BehindInv'
  <2>1. req[c].id \in Evidences
    BY <1>10 DEF Write, Typed, Staged, Stage
  <2>2. task' = task /\ \A e \in Evidences \ {req[c].id} : evidence'[e] = evidence[e]
    BY <1>10, <2>1 DEF Write, Typed
  <2>3. CASE evidence'[req[c].id].active
    <3>1. Goes(c, Idle)
      BY <1>10, <2>3 DEF Write
    <3>2. \A e \in Evidences : evidence[e].active => evidence'[e].active
      BY <2>2, <2>3
    <3> QED BY <1>i, <2>2, <3>1, <3>2, BehindQuiet
  <2>4. CASE ~evidence'[req[c].id].active
    <3>1. EndsDeleting(c)
      BY <1>10, <2>4 DEF Write
    <3> QED BY <2>2, <3>1, BehindDelete
  <2> QED BY <2>3, <2>4
<1>11. ASSUME NEW c \in Clients, Abort(c) PROVE BehindInv'
  BY <1>11, <1>i, BehindQuiet DEF Abort, rows
<1>12. CASE Changing
  <2>1. UNCHANGED <<rows, req, missed>>
    BY <1>12 DEF Changing, Connect, Disconnect, Grant, Expire, Revoke, SwitchRole
  <2> QED BY <2>1 DEF BehindInv, Behind, Stage, rows
<1>13. CASE UNCHANGED vars
  BY <1>13 DEF vars, BehindInv, Behind, Stage, rows
<1> QED
  BY <1>1, <1>2, <1>3, <1>4, <1>5, <1>6, <1>7, <1>8, <1>9, <1>10, <1>11, <1>12, <1>13, NextCases

LEMMA BehindInit == Init => BehindInv
BY IdleBehind DEF Init, BehindInv

LEMMA DeletedStepHolds ==
    Typed /\ KeptInv /\ JudgedInv /\ BehindInv /\ [Next]_vars => DeletedStep
<1> DEFINE Late(id) == \E c \in missed : req[c].id = id /\ req'[c] = Idle
<1> SUFFICES ASSUME Typed, KeptInv, JudgedInv, BehindInv, [Next]_vars PROVE DeletedStep
  OBVIOUS
<1>1. ASSUME NEW t \in Tasks, task[t].deleted, task'[t] # task[t]
      PROVE  Late(t) /\ ~mix.serial
  <2>1. PICK c \in Clients : InsertTask(c) \/ StoreTask(c) \/ ArchiveTask(c) \/ WriteTask(c)
    BY <1>1, TaskWriters
  <2>2. ~InsertTask(c)
    <3>1. task[t].owner # NULL
      BY <1>1 DEF KeptInv
    <3> QED BY <1>1, <3>1, InsertRows DEF FreeTasks
  <2>3. req[c].id = t /\ req[c].at \in TaskStages /\ req'[c] = Idle
    <3>1. req[c].id = t
      BY <1>1, <2>1, <2>2, StoreRows, ArchiveRows, RewriteRows
    <3>2. req[c].at \in TaskStages
      BY <2>1, <2>2 DEF StoreTask, ArchiveTask, WriteTask, TaskStages
    <3>3. req'[c] = Idle
      BY <2>1, <2>2 DEF StoreTask, ArchiveTask, WriteTask, Goes, EndsDeleting, Typed
    <3> QED BY <3>1, <3>2, <3>3
  <2>4. c \in missed
    BY <1>1, <2>3 DEF BehindInv, Behind
  <2>5. ~mix.serial
    BY <1>1, <2>3 DEF KeptInv, Keeps
  <2> QED BY <2>3, <2>4, <2>5
<1>2. ASSUME NEW e \in Evidences, evidence[e].student # NULL, ~evidence[e].active,
             evidence'[e] # evidence[e]
      PROVE  Late(e) /\ ~mix.serial
  <2>1. PICK c \in Clients : InsertEvidence(c) \/ Write(c)
    BY <1>2, EvidenceWriters
  <2>2. ~InsertEvidence(c)
    BY <1>2 DEF InsertEvidence, FreeEvidences, Typed
  <2>3. req[c].id = e /\ Stage(req[c]) = "reread" /\ req'[c] = Idle
    BY <1>2, <2>1, <2>2 DEF Write, Stage, Goes, EndsDeleting, Typed
  <2>4. c \in missed
    BY <1>2, <2>3 DEF BehindInv, Behind
  <2>5. ~mix.serial
    BY <1>2, <2>3 DEF JudgedInv, Fresh
  <2> QED BY <2>3, <2>4, <2>5
<1> QED BY <1>1, <1>2 DEF DeletedStep

\* A deleted row is written by nobody but a request that was under way about it when it
\* was deleted; and not at all, while requests about one row do not overlap.
THEOREM UntouchedWhenDeleted == Spec => DeletedUntouched
<1>1. Spec => [](Typed /\ Apart)
  BY TypedInit, TypedStep, ApartInit, ApartStep, PTL DEF Spec
<1>2. Spec => [](KeptInv /\ JudgedInv)
  BY <1>1, KeptInit, KeptStep, JudgedInit, JudgedStep, PTL DEF Spec
<1>3. Spec => []BehindInv
  BY <1>1, <1>2, BehindInit, BehindStep, PTL DEF Spec
<1> QED BY <1>1, <1>2, <1>3, DeletedStepHolds, PTL DEF Spec, DeletedUntouched
=============================================================================
