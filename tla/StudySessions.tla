--------------------------- MODULE StudySessions ---------------------------
(***************************************************************************)
(* Study sessions: StudySessionsService (start, finish, cancel, record)    *)
(* and AccountabilityService.verifySession, the five operations that write *)
(* study_session rows, over the table they share.                          *)
(*                                                                         *)
(* A handler is asynchronous: each of its awaits lets the handlers of other*)
(* HTTP requests run. An operation is therefore a sequence of actions of   *)
(* the client that sent it, and req[c] is what the handler holds in memory *)
(* between two of them. A client has at most one request in flight; two    *)
(* clients of one user are two devices, or a retry sent while the first    *)
(* request is still being served.                                          *)
(*                                                                         *)
(* finish, cancel and verifySession load the row as an entity, change the  *)
(* entity and call repository.save. TypeORM's save reads the row again,    *)
(* computes the columns in which the entity differs from it, and updates   *)
(* those columns: every loaded column takes part, the ones the handler did *)
(* not change too. Load, Reread and SaveWrite are these three steps.       *)
(*                                                                         *)
(* Abstractions: `status' stands for status and end_time, which are always *)
(* set and saved together (two requests never store equal end times);      *)
(* `key' for idempotency_key and actual_duration; a StudyResult's content  *)
(* is the key of the request that submitted it; feedback texts, start      *)
(* times and target durations are left out.                                *)
(***************************************************************************)
EXTENDS Naturals, FiniteSets

CONSTANTS
    Users,      \* accounts
    Clients,    \* connections: each has at most one request in flight
    UserOf,     \* the account a client is authenticated as
    CanVerify,  \* <<verifier, student>>: pairs checkPermission accepts
    Keys,       \* idempotency keys chosen by clients
    Sessions,   \* bound: ids of study_session rows
    Results,    \* bound: ids of study_result rows
    Tasks,      \* bound: ids of task rows
    SeedAccess, \* <<task, user>>: tasks that exist at first, with the users
                \* that own or assigned them
    Ops,        \* per client, the endpoints it calls in this instance
    Given,      \* the verdicts the verifiers of this instance give
    NULL

AllOps == {"start", "finish", "cancel", "record", "verify"}
Verdicts == {"UNVERIFIED", "VERIFIED", "FLAGGED"}

ASSUME ConstantsAssumption ==
    /\ UserOf \in [Clients -> Users]
    /\ CanVerify \subseteq Users \X Users
    /\ SeedAccess \subseteq Tasks \X Users
    /\ Ops \in [Clients -> SUBSET AllOps]
    /\ Given \subseteq Verdicts
    /\ NULL \notin Users \cup Keys \cup Sessions \cup Results \cup Tasks
    /\ Keys \cap Results = {}
    /\ IsFiniteSet(Clients)

Statuses == {"ACTIVE", "FINISHED", "CANCELLED"}

\* record() makes up a key ("rec-<time>-<random>") when the client sends none:
\* a value no other row has, represented by the id of the row's result.
StoredKeys == Keys \cup Results

\* The columns of a study_session row that an update may write.
Columns == {"status", "key", "result", "verdict", "verifiedBy"}

Rows == [status : Statuses \cup {"NONE"}, user : Users \cup {NULL},
         task : Tasks \cup {NULL}, key : StoredKeys \cup {NULL},
         result : Results \cup {NULL}, verdict : Verdicts,
         verifiedBy : Users \cup {NULL}]

\* An id no row has yet; also the defaults of a new row's columns.
NoRow == [status |-> "NONE", user |-> NULL, task |-> NULL, key |-> NULL,
          result |-> NULL, verdict |-> "UNVERIFIED", verifiedBy |-> NULL]

VARIABLES
    session,    \* table study_session (with study_result.session_id as the
                \* column `result')
    resultKey,  \* table study_result: NULL for an id that is not used
    taskAccess, \* table task: <<t, u>> when t exists and u owns or assigned it
    taskDone,   \* the tasks with completed = true
    req,        \* per client, the request in flight
    overlapped, \* history: the users two requests about whose sessions have overlapped
    late        \* history: the clients whose request holds a session that got another
                \* outcome since it was loaded

vars == <<session, resultKey, taskAccess, taskDone, req, overlapped, late>>

(***************************************************************************)
(* A request in flight: about to insert `ent'; or holding the changed      *)
(* entity `ent' of row `sid', loaded but not saved; or about to write the  *)
(* columns `cols' of it, after save() has read the row again and seen the  *)
(* result `seen' attached to it.                                           *)
(***************************************************************************)
Requests ==
    LET Fields(ats, sids) ==
            [at : ats, sid : sids, ent : Rows, cols : SUBSET Columns,
             seen : Results \cup {NULL}]
    IN Fields({"idle", "insert"}, {NULL}) \cup Fields({"loaded", "reread"}, Sessions)

Idle == [at |-> "idle", sid |-> NULL, ent |-> NoRow, cols |-> {}, seen |-> NULL]

\* The entities the handlers hand to save().
StartedRow(u, t) == [NoRow EXCEPT !.status = "ACTIVE", !.user = u, !.task = t]
RecordedRow(u, t, k, r) == [NoRow EXCEPT !.status = "FINISHED", !.user = u,
                                         !.task = t, !.key = k, !.result = r]
FinishedRow(row, k, r) == [row EXCEPT !.status = "FINISHED", !.key = k, !.result = r]
CancelledRow(row) == [row EXCEPT !.status = "CANCELLED"]
VerifiedRow(row, v, u) == [row EXCEPT !.verdict = v, !.verifiedBy = u]

Inserting(ent) == [Idle EXCEPT !.at = "insert", !.ent = ent]
Loaded(s, ent) == [Idle EXCEPT !.at = "loaded", !.sid = s, !.ent = ent]

TypeOK ==
    /\ session \in [Sessions -> Rows]
    /\ resultKey \in [Results -> StoredKeys \cup {NULL}]
    /\ taskAccess \subseteq Tasks \X Users
    /\ taskDone \subseteq Tasks
    /\ req \in [Clients -> Requests]
    /\ overlapped \subseteq Users
    /\ late \subseteq Clients

Init ==
    /\ session = [s \in Sessions |-> NoRow]
    /\ resultKey = [r \in Results |-> NULL]
    /\ taskAccess = SeedAccess
    /\ taskDone = {}
    /\ req = [c \in Clients |-> Idle]
    /\ overlapped = {}
    /\ late = {}

-----------------------------------------------------------------------------
(* Reads and bounds.                                                        *)

\* Fault: start() without the check of getActiveSession.
NeverActiveSession(u) == FALSE

\* getActiveSession: the user has a session in progress.
HasActiveSession(u) ==
    \E s \in Sessions : session[s].user = u /\ session[s].status = "ACTIVE"

\* TasksService.findOne(id, userId) returns the task.
VisibleTasks(u) == {t \in Tasks : <<t, u>> \in taskAccess}

UnusedTasks == {t \in Tasks : \A u \in Users : <<t, u>> \notin taskAccess}

\* Ids a new StudyResult may get: in no row and held by no request.
FreeResults == {r \in Results : /\ resultKey[r] = NULL
                                /\ \A c \in Clients : req[c].ent.result # r}

FreeSessions == {s \in Sessions : session[s] = NoRow}

\* Bound: a request that will insert a row starts only when an id is left.
RoomForSession == Cardinality({c \in Clients : req[c].at = "insert"})
                    < Cardinality(FreeSessions)

-----------------------------------------------------------------------------
(* The handlers, up to the call of save().                                  *)

\* start(): no active session of this user, and the task, if any, is visible.
StartCheck(c) ==
    LET u == UserOf[c] IN
    /\ "start" \in Ops[c]
    /\ req[c] = Idle /\ RoomForSession
    /\ ~HasActiveSession(u)
    /\ \E t \in VisibleTasks(u) \cup {NULL} :
         req' = [req EXCEPT ![c] = Inserting(StartedRow(u, t))]
    /\ UNCHANGED <<session, resultKey, taskAccess, taskDone>>

\* The task of a recorded session: none; one the client names, completed when
\* asked (an id that is not visible counts as none); or a new one, made from
\* the course name or the title and already completed.
TaskOfRecord(u, t) ==
    \/ t = NULL /\ UNCHANGED <<taskAccess, taskDone>>
    \/ /\ t \in VisibleTasks(u)
       /\ taskDone' \in {taskDone, taskDone \cup {t}}
       /\ UNCHANGED taskAccess
    \/ /\ t \in UnusedTasks
       /\ taskAccess' = taskAccess \cup {<<t, u>>}
       /\ taskDone' = taskDone \cup {t}

\* record(), up to the insertion of the session: its task is already saved.
RecordTask(c) ==
    LET u == UserOf[c] IN
    /\ "record" \in Ops[c]
    /\ req[c] = Idle /\ RoomForSession
    /\ \E r \in FreeResults, t \in Tasks \cup {NULL} : \E k \in Keys \cup {r} :
         /\ TaskOfRecord(u, t)
         /\ req' = [req EXCEPT ![c] = Inserting(RecordedRow(u, t, k, r))]
    /\ UNCHANGED <<session, resultKey>>

\* Fault: finish() without the status check.
FinishLoadAnyStatus(c, s) ==
    /\ "finish" \in Ops[c]
    /\ req[c] = Idle
    /\ session[s].user = UserOf[c]
    /\ \E r \in FreeResults, k \in Keys :
         req' = [req EXCEPT ![c] = Loaded(s, FinishedRow(session[s], k, r))]
    /\ UNCHANGED <<session, resultKey, taskAccess, taskDone>>

\* finish(): the caller's own ACTIVE session gets its result and its key.
FinishLoad(c, s) ==
    /\ "finish" \in Ops[c]
    /\ req[c] = Idle
    /\ session[s].user = UserOf[c]
    /\ session[s].status = "ACTIVE"
    /\ \E r \in FreeResults, k \in Keys :
         req' = [req EXCEPT ![c] = Loaded(s, FinishedRow(session[s], k, r))]
    /\ UNCHANGED <<session, resultKey, taskAccess, taskDone>>

\* Fault: cancel() without the status check.
CancelLoadAnyStatus(c, s) ==
    /\ "cancel" \in Ops[c]
    /\ req[c] = Idle
    /\ session[s].user = UserOf[c]
    /\ req' = [req EXCEPT ![c] = Loaded(s, CancelledRow(session[s]))]
    /\ UNCHANGED <<session, resultKey, taskAccess, taskDone>>

\* Fault: cancel() clears the status instead of setting one of the enum.
CancelLoadNoStatus(c, s) ==
    /\ "cancel" \in Ops[c]
    /\ req[c] = Idle
    /\ session[s].user = UserOf[c]
    /\ session[s].status = "ACTIVE"
    /\ req' = [req EXCEPT ![c] = Loaded(s, [session[s] EXCEPT !.status = NULL])]
    /\ UNCHANGED <<session, resultKey, taskAccess, taskDone>>

\* cancel(): the caller's own ACTIVE session.
CancelLoad(c, s) ==
    /\ "cancel" \in Ops[c]
    /\ req[c] = Idle
    /\ session[s].user = UserOf[c]
    /\ session[s].status = "ACTIVE"
    /\ req' = [req EXCEPT ![c] = Loaded(s, CancelledRow(session[s]))]
    /\ UNCHANGED <<session, resultKey, taskAccess, taskDone>>

\* Fault: verifySession() without the permission check.
VerifyLoadAnyone(c, s) ==
    /\ "verify" \in Ops[c]
    /\ req[c] = Idle
    /\ session[s].status # "NONE"
    /\ req' = [req EXCEPT ![c] = Loaded(s, VerifiedRow(session[s], "VERIFIED", UserOf[c]))]
    /\ UNCHANGED <<session, resultKey, taskAccess, taskDone>>

\* verifySession(): any session of the caller, or of a student whose grant
\* lets the caller verify; whatever the session's status is.
MayVerify(u, s) == u = session[s].user \/ <<u, session[s].user>> \in CanVerify

VerifyLoad(c, s) ==
    LET u == UserOf[c] IN
    /\ "verify" \in Ops[c]
    /\ req[c] = Idle
    /\ session[s].status # "NONE"
    /\ MayVerify(u, s)
    /\ \E v \in Given :
         req' = [req EXCEPT ![c] = Loaded(s, VerifiedRow(session[s], v, u))]
    /\ UNCHANGED <<session, resultKey, taskAccess, taskDone>>

\* A request that ends without writing: refused, the replay of a finish whose
\* key the FINISHED row already has, or a read.
Answered(c) == req[c] = Idle /\ UNCHANGED <<session, resultKey, taskAccess, taskDone, req>>

-----------------------------------------------------------------------------
(* repository.save: TypeORM and the constraints of the tables.              *)

\* UNIQUE(idempotency_key): another row has the key.
KeyTaken(s, k) == k # NULL /\ \E o \in Sessions \ {s} : session[o].key = k

\* Fault: study_result without its UNIQUE(session_id).
ResultNeverTaken(s, r) == FALSE

\* UNIQUE(session_id): the row already has another result.
ResultTaken(s, r) == r # NULL /\ session[s].result \notin {NULL, r}

\* Fault: the column idempotency_key is declared { update: false }.
DiffWithoutKey(ent, row) ==
    {f \in Columns : \/ f = "status" /\ ent.status # row.status
                     \/ f = "result" /\ ent.result # row.result
                     \/ f = "verdict" /\ ent.verdict # row.verdict
                     \/ f = "verifiedBy" /\ ent.verifiedBy # row.verifiedBy}

\* Fault: the relation result is not declared with cascade: true.
DiffWithoutResult(ent, row) ==
    {f \in Columns : \/ f = "status" /\ ent.status # row.status
                     \/ f = "key" /\ ent.key # row.key
                     \/ f = "verdict" /\ ent.verdict # row.verdict
                     \/ f = "verifiedBy" /\ ent.verifiedBy # row.verifiedBy}

\* The columns that StudySession declares and in which an entity differs from the
\* row: status, key, result (cascade: true), verification.
Diff(ent, row) ==
    {f \in Columns : \/ f = "status" /\ ent.status # row.status
                     \/ f = "key" /\ ent.key # row.key
                     \/ f = "result" /\ ent.result # row.result
                     \/ f = "verdict" /\ ent.verdict # row.verdict
                     \/ f = "verifiedBy" /\ ent.verifiedBy # row.verifiedBy}

\* The row once the columns `cols' of the entity are written over it. Saving an
\* entity without a result detaches the result that was seen, and no other.
Written(row, ent, cols, seen) ==
    LET Result == IF ent.result # NULL \/ row.result = seen THEN ent.result ELSE row.result
    IN  [status |-> IF "status" \in cols THEN ent.status ELSE row.status,
         user |-> row.user,
         task |-> row.task,
         key |-> IF "key" \in cols THEN ent.key ELSE row.key,
         result |-> IF "result" \in cols THEN Result ELSE row.result,
         verdict |-> IF "verdict" \in cols THEN ent.verdict ELSE row.verdict,
         verifiedBy |-> IF "verifiedBy" \in cols THEN ent.verifiedBy ELSE row.verifiedBy]

\* A study_result row with id r exists from now on.
StoreResult(r, k) ==
    resultKey' = [resultKey EXCEPT ![r] = IF @ = NULL THEN k ELSE @]

\* save() of a new entity: the INSERT of the session and of its result.
InsertRow(c) ==
    LET ent == req[c].ent IN
    /\ req[c].at = "insert"
    /\ \E s \in FreeSessions :
         /\ ~KeyTaken(s, ent.key)
         /\ session' = [session EXCEPT ![s] = ent]
    /\ IF ent.result = NULL THEN UNCHANGED resultKey
                            ELSE StoreResult(ent.result, ent.key)
    /\ req' = [req EXCEPT ![c] = Idle]
    /\ UNCHANGED <<taskAccess, taskDone>>

\* The INSERT violates UNIQUE(idempotency_key): the request fails, and the task
\* that record() completed or created stays.
InsertFails(c) ==
    /\ req[c].at = "insert"
    /\ \E s \in FreeSessions : KeyTaken(s, req[c].ent.key)
    /\ req' = [req EXCEPT ![c] = Idle]
    /\ UNCHANGED <<session, resultKey, taskAccess, taskDone>>

\* save() of a loaded entity reads the row and computes what differs.
Reread(c) ==
    LET row == session[req[c].sid] IN
    /\ req[c].at = "loaded"
    /\ req' = [req EXCEPT ![c] = [@ EXCEPT !.at = "reread",
                                           !.cols = Diff(req[c].ent, row),
                                           !.seen = row.result]]
    /\ UNCHANGED <<session, resultKey, taskAccess, taskDone>>

\* The write breaks a UNIQUE constraint of one of the two tables.
Violates(c) ==
    \/ "key" \in req[c].cols /\ KeyTaken(req[c].sid, req[c].ent.key)
    \/ "result" \in req[c].cols /\ ResultTaken(req[c].sid, req[c].ent.result)

\* The transaction of save(): the UPDATE of the row, and the INSERT of the
\* result, or its re-attachment or detachment.
SaveWrite(c) ==
    LET q == req[c] IN
    /\ q.at = "reread"
    /\ ~Violates(c)
    /\ session' = [session EXCEPT ![q.sid] = Written(@, q.ent, q.cols, q.seen)]
    /\ IF "result" \in q.cols /\ q.ent.result # NULL
         THEN StoreResult(q.ent.result, q.ent.key)
         ELSE UNCHANGED resultKey
    /\ req' = [req EXCEPT ![c] = Idle]
    /\ UNCHANGED <<taskAccess, taskDone>>

\* The transaction is rolled back and the request fails.
SaveFails(c) ==
    /\ req[c].at = "reread"
    /\ Violates(c)
    /\ req' = [req EXCEPT ![c] = Idle]
    /\ UNCHANGED <<session, resultKey, taskAccess, taskDone>>

-----------------------------------------------------------------------------
Handlers ==
    \E c \in Clients :
        \/ StartCheck(c)
        \/ RecordTask(c)
        \/ \E s \in Sessions : FinishLoad(c, s) \/ CancelLoad(c, s) \/ VerifyLoad(c, s)
        \/ Answered(c)
        \/ InsertRow(c)
        \/ InsertFails(c)
        \/ Reread(c)
        \/ SaveWrite(c)
        \/ SaveFails(c)

\* The requests in flight about the sessions of a user: each holds an entity of theirs.
About(u) == {c \in Clients : req[c].ent.user = u}

\* What closes a session.
Outcome(row) == <<row.status, row.key, row.result>>

\* The request has loaded a session that it will save.
Holds(c) == req[c].at \in {"loaded", "reread"}

\* The history of a step, told from the states before and after it.
History ==
    /\ overlapped' = overlapped \cup {u \in Users : \E c, d \in About(u)' : c # d}
    /\ late' = {c \in Clients :
                  /\ Holds(c) /\ Holds(c)'
                  /\ \/ c \in late
                     \/ Outcome(session'[req[c].sid]) # Outcome(session[req[c].sid])}

Next == Handlers /\ History

Spec == Init /\ [][Next]_vars

-----------------------------------------------------------------------------
(* Properties.                                                              *)

\* Whoever a row names as its verifier was, when the check was made, the owner
\* or a grantee of the owner: no stale save attributes a verdict to a user that
\* could not have given it (verifySession 370-381).
VerifierAuthorised ==
    \A s \in Sessions : session[s].verifiedBy # NULL => MayVerify(session[s].verifiedBy, s)

\* Any number of clients start, finish, record and retry; none cancels or
\* verifies.
OnlyStartsAndFinishes == \A c \in Clients : Ops[c] \cap {"cancel", "verify"} = {}

\* The clients whose requests may be about sessions of a user.
Reaching(u) == {c \in Clients : UserOf[c] = u \/ <<UserOf[c], u>> \in CanVerify}

\* Whatever overlaps, a user never has more active sessions than clients reach them: each
\* start that passed the check with another one adds one session, and each verification
\* that loaded an active session may reopen that one, but a later start finds them all
\* (start 48-70, verifySession 360-390).
ActiveBounded ==
    \A u \in Users :
        Cardinality({s \in Sessions : session[s].user = u /\ session[s].status = "ACTIVE"})
            <= Cardinality(Reaching(u))

\* A row is FINISHED exactly when it has a key, and exactly when a result is attached: until
\* two requests about a user's sessions overlap, and for ever where only starts, finishes and
\* recordings do, no finished session of the user is without its result, and no other one has
\* somebody's. (A cancel or a verification that overlaps a finish breaks it.) (finish 95-108,
\* record 152-166, cancel 183-186, verifySession 386-390)
RowConsistent ==
    \A s \in Sessions : OnlyStartsAndFinishes \/ session[s].user \in Users \ overlapped =>
        /\ session[s].status = "FINISHED" <=> session[s].key # NULL
        /\ session[s].status = "FINISHED" <=> session[s].result # NULL

\* A stored result is never detached from its session, nor paired with the key
\* of another request: what a client was told is saved stays reachable.
ResultsKept ==
    \A r \in Results : resultKey[r] # NULL =>
        \E s \in Sessions : session[s].result = r /\ session[s].key = resultKey[r]

\* A FINISHED row keeps its status, its key and its result: the retry of a
\* finish always meets "same key + already finished" (finish 83-89).
FinishedStep ==
    \A s \in Sessions : session[s].status = "FINISHED" =>
        /\ session'[s].status = "FINISHED"
        /\ session'[s].key = session[s].key
        /\ session'[s].result = session[s].result

FinishedForever == [][FinishedStep]_vars

\* Whatever overlaps, a closed session gets another status, key or result by nothing but the
\* save of a request that held it before its outcome changed: who loads it once it is closed
\* ("Session is not active") leaves it so, a verifier included (finish 91-93, cancel 179-181,
\* verifySession 383-390).
OnlyLateStep ==
    \A s \in Sessions :
        /\ session[s].status \in {"FINISHED", "CANCELLED"}
        /\ Outcome(session'[s]) # Outcome(session[s])
        => \E c \in late : req[c].at = "reread" /\ req[c].sid = s /\ req'[c] # req[c]

OnlyLateReopen == [][OnlyLateStep]_vars

\* A finish that is answered with the saved session left a row that is
\* FINISHED under the request's own key and carries the request's own result.
AckedFinishStep ==
    \A c \in Clients :
        LET q == req[c] IN
        q.at = "reread" /\ q.ent.status = "FINISHED" /\ "result" \in q.cols /\ SaveWrite(c)
          => /\ session'[q.sid].status = "FINISHED"
             /\ session'[q.sid].key = q.ent.key
             /\ session'[q.sid].result = q.ent.result

AckedFinish == [][AckedFinishStep]_vars

\* Until two requests about a user's sessions overlap, these sessions live as
\* SessionLifecycle says.
Lifecycle == INSTANCE SessionLifecycle
    WITH life <- [s \in Sessions |->
                    IF session[s].user \in overlapped THEN [status |-> "LOST", user |-> NULL]
                    ELSE [status |-> session[s].status, user |-> session[s].user]]

ImplementsLifecycle == Lifecycle!Spec
=============================================================================
