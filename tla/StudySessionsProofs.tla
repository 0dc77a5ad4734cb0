------------------------ MODULE StudySessionsProofs ------------------------
(***************************************************************************)
(* Theorems about StudySessions, for every value of its constants.         *)
(***************************************************************************)
EXTENDS StudySessions, FiniteSetTheorems, TLAPS

USE ConstantsAssumption

\* The two ways in which a step of a request changes a row: an INSERT of a
\* whole row, or the UPDATE of some columns of it.
LEMMA RowTypes ==
    /\ NoRow \in Rows
    /\ \A s \in Sessions, ent \in Rows : Loaded(s, ent) \in Requests
    /\ \A ent \in Rows : Inserting(ent) \in Requests
    /\ Idle \in Requests
<1>1. NoRow \in Rows
  BY DEF NoRow, Rows, Statuses, Verdicts
<1>2. Idle \in Requests
  BY <1>1 DEF Idle, Requests
<1> QED
  BY <1>1, <1>2 DEF Loaded, Inserting, Idle, Requests

\* Types of the entities the handlers prepare.
LEMMA EntityTypes ==
    /\ \A u \in Users, t \in Tasks \cup {NULL} :
          StartedRow(u, t) \in Rows
    /\ \A u \in Users, t \in Tasks \cup {NULL}, k \in StoredKeys, r \in Results :
          RecordedRow(u, t, k, r) \in Rows
    /\ \A row \in Rows, k \in StoredKeys, r \in Results :
          FinishedRow(row, k, r) \in Rows
    /\ \A row \in Rows : CancelledRow(row) \in Rows
    /\ \A row \in Rows, u \in Users, v \in Verdicts :
          VerifiedRow(row, v, u) \in Rows
<1>1. NoRow \in Rows
  BY RowTypes
<1>2. ASSUME NEW u \in Users, NEW t \in Tasks \cup {NULL}
      PROVE  StartedRow(u, t) \in Rows
  BY <1>1 DEF Rows, Statuses, StartedRow
<1>3. ASSUME NEW u \in Users, NEW t \in Tasks \cup {NULL},
             NEW k \in StoredKeys, NEW r \in Results
      PROVE  RecordedRow(u, t, k, r) \in Rows
  BY <1>1 DEF Rows, Statuses, RecordedRow
<1>4. ASSUME NEW row \in Rows, NEW k \in StoredKeys, NEW r \in Results
      PROVE  FinishedRow(row, k, r) \in Rows
  BY DEF Rows, Statuses, FinishedRow
<1>5. ASSUME NEW row \in Rows
      PROVE  CancelledRow(row) \in Rows
  BY DEF Rows, Statuses, CancelledRow
<1>6. ASSUME NEW row \in Rows, NEW u \in Users, NEW v \in Verdicts
      PROVE  VerifiedRow(row, v, u) \in Rows
  BY DEF Rows, VerifiedRow
<1> QED
  BY <1>2, <1>3, <1>4, <1>5, <1>6

\* Type of the row a save leaves.
LEMMA WrittenType ==
    ASSUME NEW row \in Rows, NEW ent \in Rows, NEW cols, NEW seen
    PROVE  Written(row, ent, cols, seen) \in Rows
BY DEF Written, Rows

\* Every step of every handler keeps the types.
LEMMA TypeStep == TypeOK /\ [Next]_vars => TypeOK'
<1> SUFFICES ASSUME TypeOK, [Next]_vars PROVE TypeOK'
  OBVIOUS
<1> USE DEF TypeOK
<1>h. overlapped' \subseteq Users /\ late' \subseteq Clients
  BY DEF Next, History, vars
<1> USE <1>h
<1>1. ASSUME NEW c \in Clients, StartCheck(c) PROVE TypeOK'
  <2>1. PICK t \in Tasks \cup {NULL} :
          req' = [req EXCEPT ![c] = Inserting(StartedRow(UserOf[c], t))]
    BY <1>1 DEF StartCheck, VisibleTasks
  <2>2. Inserting(StartedRow(UserOf[c], t))
          \in Requests
    BY EntityTypes, RowTypes
  <2> QED BY <1>1, <2>1, <2>2 DEF StartCheck
<1>2. ASSUME NEW c \in Clients, RecordTask(c) PROVE TypeOK'
  <2>1. PICK r \in Results, k \in StoredKeys, t \in Tasks \cup {NULL} :
          req' = [req EXCEPT ![c] = Inserting(RecordedRow(UserOf[c], t, k, r))]
    BY <1>2 DEF RecordTask, FreeResults, StoredKeys
  <2>2. Inserting(RecordedRow(UserOf[c], t, k, r)) \in Requests
    BY EntityTypes, RowTypes
  <2>3. UNCHANGED <<session, resultKey>> /\ taskAccess' \subseteq Tasks \X Users
        /\ taskDone' \subseteq Tasks
    BY <1>2 DEF RecordTask, TaskOfRecord, VisibleTasks, UnusedTasks
  <2> QED BY <2>1, <2>2, <2>3
<1>3. ASSUME NEW c \in Clients, NEW s \in Sessions, FinishLoad(c, s) PROVE TypeOK'
  <2>1. PICK r \in Results, k \in StoredKeys :
          req' = [req EXCEPT ![c] = Loaded(s, FinishedRow(session[s], k, r))]
    BY <1>3 DEF FinishLoad, FreeResults, StoredKeys
  <2>2. Loaded(s, FinishedRow(session[s], k, r))
          \in Requests
    BY EntityTypes, RowTypes
  <2> QED BY <1>3, <2>1, <2>2 DEF FinishLoad
<1>4. ASSUME NEW c \in Clients, NEW s \in Sessions, CancelLoad(c, s) PROVE TypeOK'
  <2>1. Loaded(s, CancelledRow(session[s])) \in Requests
    BY EntityTypes, RowTypes
  <2> QED BY <1>4, <2>1 DEF CancelLoad
<1>5. ASSUME NEW c \in Clients, NEW s \in Sessions, VerifyLoad(c, s) PROVE TypeOK'
  <2>1. PICK v \in Verdicts :
          req' = [req EXCEPT ![c] = Loaded(s, VerifiedRow(session[s], v, UserOf[c]))]
    BY <1>5 DEF VerifyLoad
  <2>2. Loaded(s, VerifiedRow(session[s], v, UserOf[c]))
          \in Requests
    BY EntityTypes, RowTypes
  <2> QED BY <1>5, <2>1, <2>2 DEF VerifyLoad
<1>6. ASSUME NEW c \in Clients, InsertRow(c) PROVE TypeOK'
  <2>1. req[c].ent \in Rows
    BY DEF Requests
  <2>2. req[c].ent.result \in Results \cup {NULL} /\ req[c].ent.key \in StoredKeys \cup {NULL}
    BY <2>1 DEF Rows
  <2>3. resultKey' \in [Results -> StoredKeys \cup {NULL}]
    BY <1>6, <2>2 DEF InsertRow, StoreResult
  <2>4. session' \in [Sessions -> Rows]
    BY <1>6, <2>1 DEF InsertRow, FreeSessions
  <2> QED BY <1>6, <2>3, <2>4, RowTypes DEF InsertRow
<1>7. ASSUME NEW c \in Clients, InsertFails(c) PROVE TypeOK'
  BY <1>7, RowTypes DEF InsertFails
<1>8. ASSUME NEW c \in Clients, Reread(c) PROVE TypeOK'
  <2>1. req[c].sid \in Sessions /\ req[c] \in Requests
    BY <1>8 DEF Reread, Requests
  <2>2. Diff(req[c].ent, session[req[c].sid]) \subseteq Columns
    BY DEF Diff
  <2>3. [req[c] EXCEPT !.at = "reread", !.cols = Diff(req[c].ent, session[req[c].sid]),
                       !.seen = session[req[c].sid].result] \in Requests
    BY <2>1, <2>2 DEF Requests, Rows
  <2> QED BY <1>8, <2>3 DEF Reread
<1>9. ASSUME NEW c \in Clients, SaveWrite(c) PROVE TypeOK'
  <2>1. req[c].sid \in Sessions /\ req[c].ent \in Rows
    BY <1>9 DEF SaveWrite, Requests
  <2>2. Written(session[req[c].sid], req[c].ent, req[c].cols, req[c].seen) \in Rows
    BY <2>1, WrittenType
  <2>3. session' \in [Sessions -> Rows]
    BY <1>9, <2>1, <2>2 DEF SaveWrite
  <2>4. resultKey' \in [Results -> StoredKeys \cup {NULL}]
    BY <1>9, <2>1 DEF SaveWrite, StoreResult, Rows
  <2> QED BY <1>9, <2>3, <2>4, RowTypes DEF SaveWrite
<1>10. ASSUME NEW c \in Clients, SaveFails(c) PROVE TypeOK'
  BY <1>10, RowTypes DEF SaveFails
<1>11. CASE UNCHANGED <<session, resultKey, taskAccess, taskDone, req>>
  BY <1>11
<1> QED
  BY <1>1, <1>2, <1>3, <1>4, <1>5, <1>6, <1>7, <1>8, <1>9, <1>10, <1>11
  DEF Next, Handlers, Answered, vars

\* Every variable keeps its type, in every instance.
THEOREM TypeCorrect == Spec => []TypeOK
<1>1. Init => TypeOK
  BY RowTypes DEF Init, TypeOK
<1>2. TypeOK /\ [Next]_vars => TypeOK'
  BY TypeStep
<1> QED
  BY <1>1, <1>2, PTL DEF Spec

-----------------------------------------------------------------------------
(* The fields of the entities that the handlers hand to save().             *)

LEMMA EntityFields ==
    /\ \A u \in Users, t \in Tasks \cup {NULL} :
          LET e == StartedRow(u, t) IN
          /\ e.status = "ACTIVE" /\ e.user = u /\ e.key = NULL
          /\ e.result = NULL /\ e.verifiedBy = NULL
    /\ \A u \in Users, t \in Tasks \cup {NULL}, k \in StoredKeys, r \in Results :
          LET e == RecordedRow(u, t, k, r) IN
          /\ e.status = "FINISHED" /\ e.user = u /\ e.key = k
          /\ e.result = r /\ e.verifiedBy = NULL
    /\ \A row \in Rows, k \in StoredKeys, r \in Results :
          LET e == FinishedRow(row, k, r) IN
          /\ e.status = "FINISHED" /\ e.user = row.user /\ e.key = k
          /\ e.result = r /\ e.verifiedBy = row.verifiedBy
    /\ \A row \in Rows :
          LET e == CancelledRow(row) IN
          /\ e.status = "CANCELLED" /\ e.user = row.user /\ e.key = row.key
          /\ e.result = row.result /\ e.verifiedBy = row.verifiedBy
    /\ \A row \in Rows, u \in Users, v \in Verdicts :
          LET e == VerifiedRow(row, v, u) IN
          /\ e.status = row.status /\ e.user = row.user /\ e.key = row.key
          /\ e.result = row.result /\ e.verifiedBy = u
<1>1. ASSUME NEW u \in Users, NEW t \in Tasks \cup {NULL}
      PROVE  LET e == StartedRow(u, t) IN
             /\ e.status = "ACTIVE" /\ e.user = u /\ e.key = NULL
             /\ e.result = NULL /\ e.verifiedBy = NULL
  BY DEF StartedRow, NoRow
<1>2. ASSUME NEW u \in Users, NEW t \in Tasks \cup {NULL},
             NEW k \in StoredKeys, NEW r \in Results
      PROVE  LET e == RecordedRow(u, t, k, r) IN
             /\ e.status = "FINISHED" /\ e.user = u /\ e.key = k
             /\ e.result = r /\ e.verifiedBy = NULL
  BY DEF RecordedRow, NoRow
<1>3. ASSUME NEW row \in Rows, NEW k \in StoredKeys, NEW r \in Results
      PROVE  LET e == FinishedRow(row, k, r) IN
             /\ e.status = "FINISHED" /\ e.user = row.user /\ e.key = k
             /\ e.result = r /\ e.verifiedBy = row.verifiedBy
  BY DEF FinishedRow, Rows
<1>4. ASSUME NEW row \in Rows
      PROVE  LET e == CancelledRow(row) IN
             /\ e.status = "CANCELLED" /\ e.user = row.user /\ e.key = row.key
             /\ e.result = row.result /\ e.verifiedBy = row.verifiedBy
  BY DEF CancelledRow, Rows
<1>5. ASSUME NEW row \in Rows, NEW u \in Users, NEW v \in Verdicts
      PROVE  LET e == VerifiedRow(row, v, u) IN
             /\ e.status = row.status /\ e.user = row.user /\ e.key = row.key
             /\ e.result = row.result /\ e.verifiedBy = u
  BY DEF VerifiedRow, Rows
<1> QED
  BY <1>1, <1>2, <1>3, <1>4, <1>5

LEMMA RequestFields ==
    /\ Idle.at = "idle" /\ Idle.ent = NoRow
    /\ \A ent : Inserting(ent).at = "insert" /\ Inserting(ent).ent = ent
    /\ \A s, ent : /\ Loaded(s, ent).at = "loaded" /\ Loaded(s, ent).sid = s
                   /\ Loaded(s, ent).ent = ent
BY DEF Idle, Inserting, Loaded

-----------------------------------------------------------------------------
(* Who may be named as a verifier, whatever overlaps.                       *)

\* What the entity in flight carries about its verifier.
VerifierSound(c) ==
    LET q == req[c] IN
    /\ q.at = "insert" => q.ent.verifiedBy = NULL
    /\ q.at \in {"loaded", "reread"} =>
         /\ session[q.sid].status # "NONE" /\ q.ent.status # "NONE"
         /\ q.ent.verifiedBy # NULL => MayVerify(q.ent.verifiedBy, q.sid)

VerifierInv == TypeOK /\ VerifierAuthorised /\ \A c \in Clients : VerifierSound(c)

\* A step that writes no session row and leaves one request sound.
LEMMA VerifierQuiet ==
    ASSUME VerifierInv, TypeOK', UNCHANGED session, NEW c \in Clients, NEW new,
           req' = [req EXCEPT ![c] = new], VerifierSound(c)'
    PROVE  VerifierInv'
<1>1. VerifierAuthorised'
  BY DEF VerifierInv, VerifierAuthorised, MayVerify
<1>2. \A d \in Clients : VerifierSound(d)'
  <2>1. ASSUME NEW d \in Clients, d # c PROVE VerifierSound(d)'
    BY <2>1 DEF VerifierInv, VerifierSound, MayVerify, TypeOK
  <2> QED BY <2>1
<1> QED BY <1>1, <1>2 DEF VerifierInv

LEMMA VerifierInit == Init => VerifierInv
<1> SUFFICES ASSUME Init PROVE VerifierInv
  OBVIOUS
<1>1. TypeOK
  BY RowTypes DEF Init, TypeOK
<1> QED BY <1>1, RequestFields DEF Init, VerifierInv, VerifierAuthorised, VerifierSound, NoRow

\* Every step of every handler keeps the verifiers sound.
LEMMA VerifierStep == VerifierInv /\ [Next]_vars => VerifierInv'
<1> SUFFICES ASSUME VerifierInv, [Next]_vars PROVE VerifierInv'
  OBVIOUS
<1> USE DEF VerifierInv
<1>t. TypeOK /\ TypeOK'
  BY TypeStep
<1>1. ASSUME NEW c \in Clients, StartCheck(c) PROVE VerifierInv'
  <2>1. PICK t \in Tasks \cup {NULL} :
          req' = [req EXCEPT ![c] = Inserting(StartedRow(UserOf[c], t))]
    BY <1>1 DEF StartCheck, VisibleTasks
  <2>2. VerifierSound(c)'
    BY <1>t, <2>1, RequestFields, EntityFields DEF VerifierSound, TypeOK
  <2> QED BY <1>1, <1>t, <2>1, <2>2, VerifierQuiet DEF StartCheck
<1>2. ASSUME NEW c \in Clients, RecordTask(c) PROVE VerifierInv'
  <2>1. PICK r \in Results, k \in StoredKeys, t \in Tasks \cup {NULL} :
          req' = [req EXCEPT ![c] = Inserting(RecordedRow(UserOf[c], t, k, r))]
    BY <1>2 DEF RecordTask, FreeResults, StoredKeys
  <2>2. VerifierSound(c)'
    BY <1>t, <2>1, RequestFields, EntityFields DEF VerifierSound, TypeOK
  <2> QED BY <1>2, <1>t, <2>1, <2>2, VerifierQuiet DEF RecordTask
<1>3. ASSUME NEW c \in Clients, NEW s \in Sessions, FinishLoad(c, s) PROVE VerifierInv'
  <2>1. PICK r \in Results, k \in StoredKeys :
          req' = [req EXCEPT ![c] = Loaded(s, FinishedRow(session[s], k, r))]
    BY <1>3 DEF FinishLoad, FreeResults, StoredKeys
  <2>2. VerifierSound(c)'
    BY <1>3, <1>t, <2>1, RequestFields, EntityFields
    DEF VerifierSound, TypeOK, FinishLoad, VerifierAuthorised, MayVerify
  <2> QED BY <1>3, <1>t, <2>1, <2>2, VerifierQuiet DEF FinishLoad
<1>4. ASSUME NEW c \in Clients, NEW s \in Sessions, CancelLoad(c, s) PROVE VerifierInv'
  <2>1. VerifierSound(c)'
    BY <1>4, <1>t, RequestFields, EntityFields
    DEF VerifierSound, TypeOK, CancelLoad, VerifierAuthorised, MayVerify
  <2> QED BY <1>4, <1>t, <2>1, VerifierQuiet DEF CancelLoad
<1>5. ASSUME NEW c \in Clients, NEW s \in Sessions, VerifyLoad(c, s) PROVE VerifierInv'
  <2>1. PICK v \in Verdicts :
          req' = [req EXCEPT ![c] = Loaded(s, VerifiedRow(session[s], v, UserOf[c]))]
    BY <1>5 DEF VerifyLoad
  <2>2. /\ req'[c].at = "loaded" /\ req'[c].sid = s
        /\ req'[c].ent.verifiedBy = UserOf[c]
        /\ req'[c].ent.status = session[s].status
    BY <1>t, <2>1, RequestFields, EntityFields DEF TypeOK
  <2>3. VerifierSound(c)'
    BY <1>5, <2>2 DEF VerifierSound, VerifyLoad, MayVerify
  <2> QED BY <1>5, <1>t, <2>1, <2>3, VerifierQuiet DEF VerifyLoad
<1>6. ASSUME NEW c \in Clients, InsertRow(c) PROVE VerifierInv'
  <2>1. PICK s \in Sessions : /\ session[s] = NoRow
                             /\ session' = [session EXCEPT ![s] = req[c].ent]
    BY <1>6 DEF InsertRow, FreeSessions
  <2>2. VerifierAuthorised'
    BY <1>6, <1>t, <2>1 DEF InsertRow, VerifierAuthorised, VerifierSound, MayVerify, TypeOK
  <2>3. ASSUME NEW d \in Clients PROVE VerifierSound(d)'
    <3>1. req[d].at \in {"loaded", "reread"} => req[d].sid \in Sessions \ {s}
      BY <1>t, <2>1 DEF VerifierSound, TypeOK, Requests, NoRow
    <3> QED
      BY <1>6, <1>t, <2>1, <3>1, RequestFields
      DEF InsertRow, VerifierSound, MayVerify, TypeOK
  <2> QED BY <1>t, <2>2, <2>3
<1>7. ASSUME NEW c \in Clients, InsertFails(c) PROVE VerifierInv'
  <2>1. VerifierSound(c)'
    BY <1>7, <1>t, RequestFields DEF VerifierSound, InsertFails, TypeOK
  <2> QED BY <1>7, <1>t, <2>1, VerifierQuiet DEF InsertFails
<1>8. ASSUME NEW c \in Clients, Reread(c) PROVE VerifierInv'
  <2>1. /\ req'[c].at = "reread" /\ req'[c].sid = req[c].sid /\ req'[c].ent = req[c].ent
        /\ req[c].at = "loaded"
    BY <1>8, <1>t DEF Reread, TypeOK, Requests
  <2>2. VerifierSound(c)'
    BY <1>8, <1>t, <2>1 DEF VerifierSound, Reread, MayVerify
  <2> QED BY <1>8, <1>t, <2>2, VerifierQuiet DEF Reread
<1>9. ASSUME NEW c \in Clients, SaveWrite(c) PROVE VerifierInv'
  <2> DEFINE s == req[c].sid
             new == Written(session[s], req[c].ent, req[c].cols, req[c].seen)
  <2>1. /\ s \in Sessions /\ session' = [session EXCEPT ![s] = new]
        /\ req' = [req EXCEPT ![c] = Idle]
    BY <1>9, <1>t DEF SaveWrite, TypeOK, Requests
  <2>2. /\ new.user = session[s].user
        /\ new.status \in {session[s].status, req[c].ent.status}
        /\ new.verifiedBy \in {session[s].verifiedBy, req[c].ent.verifiedBy}
    BY DEF Written
  <2> HIDE DEF new
  <2>3. \A t \in Sessions : session'[t].user = session[t].user
    BY <1>t, <2>1, <2>2 DEF TypeOK
  <2>4. \A t \in Sessions : session[t].status # "NONE" => session'[t].status # "NONE"
    BY <1>9, <1>t, <2>1, <2>2 DEF TypeOK, VerifierSound, SaveWrite
  <2>5. VerifierAuthorised'
    BY <1>9, <1>t, <2>1, <2>2, <2>3
    DEF VerifierAuthorised, VerifierSound, MayVerify, TypeOK, SaveWrite
  <2>6. ASSUME NEW d \in Clients PROVE VerifierSound(d)'
    <3>1. req[d].at \in {"loaded", "reread"} => req[d].sid \in Sessions
      BY <1>t DEF TypeOK, Requests
    <3> QED
      BY <1>t, <2>1, <2>3, <2>4, <3>1, RequestFields DEF VerifierSound, MayVerify, TypeOK
  <2> QED BY <1>t, <2>5, <2>6
<1>10. ASSUME NEW c \in Clients, SaveFails(c) PROVE VerifierInv'
  <2>1. VerifierSound(c)'
    BY <1>10, <1>t, RequestFields DEF VerifierSound, SaveFails, TypeOK
  <2> QED BY <1>10, <1>t, <2>1, VerifierQuiet DEF SaveFails
<1>11. CASE UNCHANGED <<session, resultKey, taskAccess, taskDone, req>>
  BY <1>11, <1>t DEF VerifierAuthorised, VerifierSound, MayVerify
<1> QED
  BY <1>1, <1>2, <1>3, <1>4, <1>5, <1>6, <1>7, <1>8, <1>9, <1>10, <1>11
  DEF Next, Handlers, Answered, vars

\* The row names a verifier who was allowed to verify it, in every reachable
\* state of every instance, however the requests overlap.
THEOREM VerifierTheorem == Spec => []VerifierAuthorised
<1>1. VerifierInv /\ [Next]_vars => VerifierInv'
  BY VerifierStep
<1>2. VerifierInv => VerifierAuthorised
  BY DEF VerifierInv
<1> QED
  BY <1>1, <1>2, VerifierInit, PTL DEF Spec

-----------------------------------------------------------------------------
(* How many sessions of a user may be in progress, whatever overlaps.       *)

\* The clients that hold the entity of a session as ACTIVE: a verification that loaded it
\* so and may save it so.
Holding(s) == {c \in Clients : /\ req[c].at \in {"loaded", "reread"} /\ req[c].sid = s
                               /\ req[c].ent.status = "ACTIVE"}

\* A user's sessions that are in progress, or that a save may reopen.
Open(u) == {s \in Sessions : /\ session[s].user = u
                             /\ session[s].status = "ACTIVE" \/ Holding(s) # {}}

\* The clients that passed start()'s check and have not inserted their session.
Starting(u) == {c \in Clients : /\ req[c].at = "insert" /\ req[c].ent.status = "ACTIVE"
                                /\ UserOf[c] = u}

\* Each open session has a client of its own among those that reach the user and are not
\* about to start one.
Room(u) == \E f \in [Open(u) -> Reaching(u) \ Starting(u)] :
              \A s, t \in Open(u) : f[s] = f[t] => s = t

\* A session in flight belongs to its client's user, or to one whose sessions he verifies.
HolderSound(c) ==
    /\ req[c].at = "insert" => req[c].ent.user = UserOf[c]
    /\ req[c].at \in {"loaded", "reread"} =>
         \/ UserOf[c] = session[req[c].sid].user
         \/ <<UserOf[c], session[req[c].sid].user>> \in CanVerify

ActiveInv ==
    /\ VerifierInv
    /\ \A c \in Clients : HolderSound(c)
    /\ \A u \in Users : Room(u)

\* With no more open sessions and no more starts in flight, the room is left.
LEMMA RoomShrinks ==
    ASSUME NEW u, Room(u), Open(u)' \subseteq Open(u), Starting(u)' \subseteq Starting(u)
    PROVE  Room(u)'
<1>1. PICK f \in [Open(u) -> Reaching(u) \ Starting(u)] :
             \A s, t \in Open(u) : f[s] = f[t] => s = t
  BY DEF Room
<1> DEFINE g == [s \in Open(u)' |-> f[s]]
<1>2. g \in [Open(u)' -> Reaching(u)' \ Starting(u)']
  BY <1>1 DEF Reaching
<1>3. \A s, t \in Open(u)' : g[s] = g[t] => s = t
  BY <1>1
<1> QED BY <1>2, <1>3 DEF Room

\* A step that writes no session row, and whose request holds no more sessions and starts
\* none.
LEMMA ActiveQuiet ==
    ASSUME ActiveInv, VerifierInv', UNCHANGED session, NEW c \in Clients, NEW new,
           req' = [req EXCEPT ![c] = new], HolderSound(c)',
           new.at = "insert" => new.ent.status # "ACTIVE",
           new.at \in {"loaded", "reread"} /\ new.ent.status = "ACTIVE"
             => \A s \in Sessions : new.sid = s => s \in Open(session[s].user)
    PROVE  ActiveInv'
<1> USE DEF ActiveInv, VerifierInv
<1>1. \A d \in Clients : req'[d] = IF d = c THEN new ELSE req[d]
  BY DEF TypeOK
<1>2. ASSUME NEW d \in Clients PROVE HolderSound(d)'
  BY <1>1 DEF HolderSound
<1>3. ASSUME NEW u \in Users PROVE Room(u)'
  <2>1. ASSUME NEW s \in Open(u)' PROVE s \in Open(u)
    <3>1. s \in Sessions /\ session[s].user = u
      BY <2>1 DEF Open
    <3>2. CASE c \in Holding(s)'
      BY <1>1, <3>1, <3>2 DEF Holding
    <3>3. CASE c \notin Holding(s)'
      <4>1. Holding(s)' \subseteq Holding(s)
        BY <1>1, <3>3 DEF Holding
      <4> QED BY <2>1, <4>1 DEF Open
    <3> QED BY <3>2, <3>3
  <2>2. Starting(u)' \subseteq Starting(u)
    BY <1>1 DEF Starting
  <2> QED BY <2>1, <2>2, RoomShrinks
<1> QED BY <1>2, <1>3

\* A step of any handler, whatever the other requests are doing.
LEMMA ActiveStep == ActiveInv /\ [Next]_vars => ActiveInv'
<1> SUFFICES ASSUME ActiveInv, [Next]_vars PROVE ActiveInv'
  OBVIOUS
<1> USE DEF ActiveInv
<1>v. VerifierInv /\ VerifierInv'
  BY VerifierStep
<1>t. TypeOK
  BY DEF VerifierInv
<1>1. ASSUME NEW c \in Clients, StartCheck(c) PROVE ActiveInv'
  <2>1. PICK t \in Tasks \cup {NULL} :
          req' = [req EXCEPT ![c] = Inserting(StartedRow(UserOf[c], t))]
    BY <1>1 DEF StartCheck, VisibleTasks
  <2>2. /\ UNCHANGED session /\ ~HasActiveSession(UserOf[c])
        /\ req[c].at = "idle"
    BY <1>1, RequestFields DEF StartCheck
  <2>3. /\ req'[c].at = "insert" /\ req'[c].ent.user = UserOf[c]
        /\ \A d \in Clients \ {c} : req'[d] = req[d]
    BY <1>t, <2>1, RequestFields, EntityFields DEF TypeOK
  <2>4. ASSUME NEW d \in Clients PROVE HolderSound(d)'
    BY <2>2, <2>3 DEF HolderSound
  <2>5. ASSUME NEW s \in Sessions PROVE Holding(s)' = Holding(s)
    BY <2>2, <2>3 DEF Holding
  <2>6. ASSUME NEW u \in Users, u # UserOf[c] PROVE Room(u)'
    <3>1. Open(u)' = Open(u)
      BY <2>2, <2>5 DEF Open
    <3>2. Starting(u)' \subseteq Starting(u)
      BY <2>3, <2>6 DEF Starting
    <3> QED BY <3>1, <3>2, RoomShrinks
  <2>7. ASSUME NEW u, u = UserOf[c] PROVE Room(u)'
    <3>1. Open(u)' = Open(u)
      BY <2>2, <2>5 DEF Open
    <3>2. \A s \in Open(u) : Holding(s) # {}
      BY <2>2, <2>7 DEF Open, HasActiveSession
    <3> DEFINE f == [s \in Open(u) |-> CHOOSE d \in Clients : d \in Holding(s)]
    <3>3. \A s \in Open(u) : f[s] \in Holding(s)
      BY <3>2 DEF Holding
    <3>4. \A s1, s2 \in Open(u) : f[s1] = f[s2] => s1 = s2
      BY <3>3 DEF Holding
    <3>5. ASSUME NEW s \in Open(u) PROVE f[s] \in Reaching(u)' \ Starting(u)'
      <4>1. /\ f[s] \in Clients \ {c} /\ req[f[s]].at \in {"loaded", "reread"}
            /\ req[f[s]].sid = s /\ session[s].user = u
        BY <2>2, <3>3 DEF Holding, Open
      <4>2. f[s] \in Reaching(u)
        BY <4>1 DEF HolderSound, Reaching
      <4> QED BY <2>3, <4>1, <4>2 DEF Reaching, Starting
    <3>6. f \in [Open(u)' -> Reaching(u)' \ Starting(u)']
      BY <3>1, <3>5
    <3> QED BY <3>1, <3>4, <3>6 DEF Room
  <2> QED BY <1>v, <2>4, <2>6, <2>7
<1>2. ASSUME NEW c \in Clients, RecordTask(c) PROVE ActiveInv'
  <2>1. PICK r \in Results, k \in StoredKeys, t \in Tasks \cup {NULL} :
          req' = [req EXCEPT ![c] = Inserting(RecordedRow(UserOf[c], t, k, r))]
    BY <1>2 DEF RecordTask, FreeResults, StoredKeys
  <2>2. PICK new : new = Inserting(RecordedRow(UserOf[c], t, k, r))
    OBVIOUS
  <2>3. new.at = "insert" /\ new.ent.user = UserOf[c] /\ new.ent.status = "FINISHED"
    BY <2>2, RequestFields, EntityFields
  <2>4. UNCHANGED session /\ req' = [req EXCEPT ![c] = new]
    BY <1>2, <2>1, <2>2 DEF RecordTask
  <2>5. HolderSound(c)'
    BY <1>t, <2>3, <2>4 DEF HolderSound, TypeOK
  <2> QED BY <1>v, <2>3, <2>4, <2>5, ActiveQuiet
<1>3. ASSUME NEW c \in Clients, NEW s \in Sessions, FinishLoad(c, s) PROVE ActiveInv'
  <2>1. PICK r \in Results, k \in StoredKeys :
          req' = [req EXCEPT ![c] = Loaded(s, FinishedRow(session[s], k, r))]
    BY <1>3 DEF FinishLoad, FreeResults, StoredKeys
  <2>2. PICK new : new = Loaded(s, FinishedRow(session[s], k, r))
    OBVIOUS
  <2>3. new.at = "loaded" /\ new.sid = s /\ new.ent.status = "FINISHED"
    BY <1>t, <2>2, RequestFields, EntityFields DEF TypeOK
  <2>4. UNCHANGED session /\ req' = [req EXCEPT ![c] = new] /\ session[s].user = UserOf[c]
    BY <1>3, <2>1, <2>2 DEF FinishLoad
  <2>5. HolderSound(c)'
    BY <1>t, <2>3, <2>4 DEF HolderSound, TypeOK
  <2> QED BY <1>v, <2>3, <2>4, <2>5, ActiveQuiet
<1>4. ASSUME NEW c \in Clients, NEW s \in Sessions, CancelLoad(c, s) PROVE ActiveInv'
  <2>2. PICK new : new = Loaded(s, CancelledRow(session[s]))
    OBVIOUS
  <2>3. new.at = "loaded" /\ new.sid = s /\ new.ent.status = "CANCELLED"
    BY <1>t, <2>2, RequestFields, EntityFields DEF TypeOK
  <2>4. UNCHANGED session /\ req' = [req EXCEPT ![c] = new] /\ session[s].user = UserOf[c]
    BY <1>4, <2>2 DEF CancelLoad
  <2>5. HolderSound(c)'
    BY <1>t, <2>3, <2>4 DEF HolderSound, TypeOK
  <2> QED BY <1>v, <2>3, <2>4, <2>5, ActiveQuiet
<1>5. ASSUME NEW c \in Clients, NEW s \in Sessions, VerifyLoad(c, s) PROVE ActiveInv'
  <2>1. PICK v \in Verdicts :
          req' = [req EXCEPT ![c] = Loaded(s, VerifiedRow(session[s], v, UserOf[c]))]
    BY <1>5 DEF VerifyLoad
  <2>2. PICK new : new = Loaded(s, VerifiedRow(session[s], v, UserOf[c]))
    OBVIOUS
  <2>3. new.at = "loaded" /\ new.sid = s /\ new.ent.status = session[s].status
    BY <1>t, <2>2, RequestFields, EntityFields DEF TypeOK
  <2>4. UNCHANGED session /\ req' = [req EXCEPT ![c] = new] /\ MayVerify(UserOf[c], s)
    BY <1>5, <2>1, <2>2 DEF VerifyLoad
  <2>5. HolderSound(c)'
    BY <1>t, <2>3, <2>4 DEF HolderSound, TypeOK, MayVerify
  <2>6. new.ent.status = "ACTIVE" => s \in Open(session[s].user)
    BY <2>3 DEF Open
  <2> QED BY <1>v, <2>3, <2>4, <2>5, <2>6, ActiveQuiet
<1>6. ASSUME NEW c \in Clients, InsertRow(c) PROVE ActiveInv'
  <2>1. PICK s \in Sessions : /\ session[s] = NoRow
                             /\ session' = [session EXCEPT ![s] = req[c].ent]
    BY <1>6 DEF InsertRow, FreeSessions
  <2>2. /\ req[c].at = "insert" /\ req[c].ent.user = UserOf[c]
        /\ req'[c].at = "idle" /\ \A d \in Clients \ {c} : req'[d] = req[d]
    BY <1>6, <1>t, RequestFields DEF InsertRow, TypeOK, HolderSound
  <2>3. \A t \in Sessions : session'[t] = IF t = s THEN req[c].ent ELSE session[t]
    BY <1>t, <2>1 DEF TypeOK
  <2>4. ASSUME NEW d \in Clients, req[d].at \in {"loaded", "reread"}
        PROVE  req[d].sid \in Sessions \ {s}
    BY <1>t, <2>1, <2>4 DEF VerifierInv, VerifierSound, TypeOK, Requests, NoRow
  <2>5. ASSUME NEW d \in Clients PROVE HolderSound(d)'
    BY <2>2, <2>3, <2>4 DEF HolderSound
  <2>6. \A t \in Sessions : Holding(t)' = Holding(t)
    BY <2>2 DEF Holding
  <2>7. Holding(s) = {}
    BY <2>4 DEF Holding
  <2>8. s \notin Open(UserOf[c])
    BY <2>1 DEF Open, NoRow
  <2>9. ASSUME NEW u \in Users PROVE Room(u)'
    <3>1. Starting(u)' \subseteq Starting(u)
      BY <2>2 DEF Starting
    <3>2. Open(u)' \subseteq Open(u) \cup {s}
      BY <2>3, <2>6 DEF Open
    <3>3. CASE s \notin Open(u)'
      BY <3>1, <3>2, <3>3, RoomShrinks
    <3>4. CASE s \in Open(u)'
      <4>1. u = UserOf[c] /\ req[c].ent.status = "ACTIVE"
        BY <2>2, <2>3, <2>6, <2>7, <3>4 DEF Open
      <4>2. c \in Starting(u) /\ c \notin Starting(u)' /\ c \in Reaching(u)
        BY <2>2, <4>1 DEF Starting, Reaching
      <4>3. PICK f \in [Open(u) -> Reaching(u) \ Starting(u)] :
                   \A x, y \in Open(u) : f[x] = f[y] => x = y
        BY DEF Room
      <4> DEFINE g == [x \in Open(u)' |-> IF x = s THEN c ELSE f[x]]
      <4>4. \A x \in Open(u)' : x # s => x \in Open(u) /\ f[x] \in Reaching(u) \ Starting(u)
        BY <3>2, <4>3
      <4>5. g \in [Open(u)' -> Reaching(u)' \ Starting(u)']
        BY <3>1, <4>2, <4>4 DEF Reaching
      <4>6. ASSUME NEW x \in Open(u)', NEW y \in Open(u)', g[x] = g[y] PROVE x = y
        BY <4>2, <4>3, <4>4, <4>6
      <4> QED BY <4>5, <4>6 DEF Room
    <3> QED BY <3>3, <3>4
  <2> QED BY <1>v, <2>5, <2>9
<1>7. ASSUME NEW c \in Clients, InsertFails(c) \/ SaveFails(c) PROVE ActiveInv'
  <2>1. UNCHANGED session /\ req' = [req EXCEPT ![c] = Idle] /\ Idle.at = "idle"
    BY <1>7, RequestFields DEF InsertFails, SaveFails
  <2>2. HolderSound(c)'
    BY <1>t, <2>1 DEF HolderSound, TypeOK
  <2> QED BY <1>v, <2>1, <2>2, ActiveQuiet
<1>8. ASSUME NEW c \in Clients, Reread(c) PROVE ActiveInv'
  <2>1. PICK new : /\ req' = [req EXCEPT ![c] = new] /\ new.at = "reread"
                   /\ new.sid = req[c].sid /\ new.ent = req[c].ent
    <3>1. PICK new : new = [req[c] EXCEPT !.at = "reread",
                                          !.cols = Diff(req[c].ent, session[req[c].sid]),
                                          !.seen = session[req[c].sid].result]
      OBVIOUS
    <3>2. new.at = "reread" /\ new.sid = req[c].sid /\ new.ent = req[c].ent
      BY <1>t, <3>1 DEF TypeOK, Requests
    <3> QED BY <1>8, <1>t, <3>1, <3>2 DEF Reread, TypeOK
  <2>2. UNCHANGED session /\ req[c].at = "loaded"
    BY <1>8 DEF Reread
  <2>3. HolderSound(c)'
    BY <1>t, <2>1, <2>2 DEF HolderSound, TypeOK
  <2>4. ASSUME NEW s \in Sessions, new.sid = s, new.ent.status = "ACTIVE"
        PROVE  s \in Open(session[s].user)
    BY <2>1, <2>2, <2>4 DEF Open, Holding
  <2> QED BY <1>v, <2>1, <2>2, <2>3, <2>4, ActiveQuiet
<1>9. ASSUME NEW c \in Clients, SaveWrite(c) PROVE ActiveInv'
  <2>1. PICK s \in Sessions : s = req[c].sid
    BY <1>9, <1>t DEF SaveWrite, TypeOK, Requests
  <2>2. PICK row : row = Written(session[s], req[c].ent, req[c].cols, req[c].seen)
    OBVIOUS
  <2>3. /\ row.user = session[s].user /\ row.status \in {session[s].status, req[c].ent.status}
    BY <2>2 DEF Written
  <2>4. /\ \A t \in Sessions : session'[t] = IF t = s THEN row ELSE session[t]
        /\ req[c].at = "reread" /\ req'[c].at = "idle"
        /\ \A d \in Clients \ {c} : req'[d] = req[d]
    BY <1>9, <1>t, <2>1, <2>2, RequestFields DEF SaveWrite, TypeOK
  <2>5. ASSUME NEW d \in Clients PROVE HolderSound(d)'
    <3>1. req[d].at \in {"loaded", "reread"} => req[d].sid \in Sessions
      BY <1>t DEF TypeOK, Requests
    <3>2. \A t \in Sessions : session'[t].user = session[t].user
      BY <2>3, <2>4
    <3>3. CASE d = c
      BY <2>4, <3>3 DEF HolderSound
    <3>4. CASE d # c
      <4>1. req'[d] = req[d]
        BY <2>4, <3>4
      <4> QED BY <3>1, <3>2, <4>1 DEF HolderSound
    <3> QED BY <3>3, <3>4
  <2>6. \A t \in Sessions : Holding(t)' \subseteq Holding(t)
    BY <2>4 DEF Holding
  <2>7. req[c].ent.status = "ACTIVE" => c \in Holding(s)
    BY <2>1, <2>4 DEF Holding
  <2>8. ASSUME NEW u \in Users PROVE Room(u)'
    <3>1. Starting(u)' \subseteq Starting(u)
      BY <2>4 DEF Starting
    <3>2. ASSUME NEW t \in Open(u)' PROVE t \in Open(u)
      <4>1. CASE t = s
        BY <2>3, <2>4, <2>6, <2>7, <3>2, <4>1 DEF Open
      <4>2. CASE t # s
        BY <2>4, <2>6, <3>2, <4>2 DEF Open
      <4> QED BY <4>1, <4>2
    <3> QED BY <3>1, <3>2, RoomShrinks
  <2> QED BY <1>v, <2>5, <2>8
<1>10. ASSUME UNCHANGED <<session, resultKey, taskAccess, taskDone, req>>
       PROVE  ActiveInv'
  <2>1. \A c \in Clients : HolderSound(c)'
    BY <1>10 DEF HolderSound
  <2>2. ASSUME NEW u \in Users PROVE Room(u)'
    <3>1. Open(u)' \subseteq Open(u) /\ Starting(u)' \subseteq Starting(u)
      BY <1>10 DEF Open, Holding, Starting
    <3> QED BY <3>1, RoomShrinks
  <2> QED BY <1>v, <2>1, <2>2
<1> QED
  BY <1>1, <1>2, <1>3, <1>4, <1>5, <1>6, <1>7, <1>8, <1>9, <1>10 DEF Next, Handlers, Answered, vars

\* However starts, closings and verifications overlap, a user never has more sessions in
\* progress than there are clients that reach them (start 48-70, verifySession 360-390).
THEOREM ActiveTheorem == Spec => []ActiveBounded
<1>1. Init => ActiveInv
  <2> SUFFICES ASSUME Init PROVE ActiveInv
    OBVIOUS
  <2>1. \A c \in Clients : req[c].at = "idle"
    BY RequestFields DEF Init
  <2>2. \A c \in Clients : HolderSound(c)
    BY <2>1 DEF HolderSound
  <2>3. ASSUME NEW u \in Users PROVE Room(u)
    <3>1. Open(u) = {}
      BY <2>1 DEF Init, Open, Holding, NoRow
    <3>2. [s \in {} |-> s] \in [{} -> Reaching(u) \ Starting(u)]
      OBVIOUS
    <3> QED BY <3>1, <3>2 DEF Room
  <2> QED BY <2>2, <2>3, VerifierInit DEF ActiveInv
<1>2. ActiveInv /\ [Next]_vars => ActiveInv'
  BY ActiveStep
<1>3. ActiveInv => ActiveBounded
  <2> SUFFICES ASSUME ActiveInv, NEW u \in Users
               PROVE  Cardinality({s \in Sessions : session[s].user = u
                                                    /\ session[s].status = "ACTIVE"})
                        <= Cardinality(Reaching(u))
    BY DEF ActiveBounded
  <2> DEFINE A == {s \in Sessions : session[s].user = u /\ session[s].status = "ACTIVE"}
  <2>1. PICK f \in [Open(u) -> Reaching(u) \ Starting(u)] :
               \A s, t \in Open(u) : f[s] = f[t] => s = t
    BY DEF ActiveInv, Room
  <2>2. A \subseteq Open(u)
    BY DEF Open
  <2> DEFINE g == [s \in A |-> f[s]]
  <2>3. g \in Injection(A, Reaching(u))
    <3>1. g \in [A -> Reaching(u)]
      BY <2>1, <2>2
    <3>2. \A s, t \in A : g[s] = g[t] => s = t
      BY <2>1, <2>2
    <3> QED BY <3>1, <3>2 DEF Injection, IsInjective
  <2>4. IsFiniteSet(Reaching(u))
    <3>1. Reaching(u) \in SUBSET Clients
      BY DEF Reaching
    <3> QED BY <3>1, FS_Subset
  <2> HIDE DEF A, g
  <2>5. Cardinality(A) <= Cardinality(Reaching(u))
    BY <2>3, <2>4, FS_Injection
  <2> QED BY <2>5 DEF A
<1> QED
  BY <1>1, <1>2, <1>3, PTL DEF Spec

-----------------------------------------------------------------------------
(* Until two requests about a user's sessions overlap, the endpoints        *)
(* implement SessionLifecycle for them.                                     *)

\* The entity in flight belongs to its client's user, or is the one of the row it was
\* loaded from.
OwnerSound(c) ==
    LET q == req[c] IN
    /\ q.at = "insert" => q.ent.user = UserOf[c]
    /\ q.at \in {"loaded", "reread"} => /\ q.ent.user \in Users
                                        /\ session[q.sid].user = q.ent.user

\* A session of u about to be started is the only one in progress; an entity of u in
\* flight changes the status of no closed row.
DeviceSound(u, c) ==
    LET q == req[c] IN
    q.ent.user = u =>
        /\ q.at = "insert" =>
             /\ q.ent.status \in {"ACTIVE", "FINISHED"}
             /\ q.ent.status = "ACTIVE" => ~HasActiveSession(u)
        /\ q.at \in {"loaded", "reread"} =>
             /\ q.ent.status \in Statuses
             /\ session[q.sid].status \in {"ACTIVE", q.ent.status}

OneActive(u) ==
    \A s, t \in Sessions :
        /\ session[s].status = "ACTIVE" /\ session[t].status = "ACTIVE"
        /\ session[s].user = u /\ session[t].user = u
        => s = t

DeviceInv(u) ==
    /\ TypeOK
    /\ \A c \in Clients : OwnerSound(c)
    /\ u \notin overlapped => /\ \A c, d \in About(u) : c = d
                              /\ OneActive(u)
                              /\ \A c \in Clients : DeviceSound(u, c)

\* What the history keeps of a user.
LEMMA OverlapHistory ==
    ASSUME History, NEW u \in Users, u \notin overlapped'
    PROVE  u \notin overlapped /\ \A c, d \in About(u)' : c = d
BY DEF History

\* A step that writes no session row and leaves one request sound.
LEMMA DeviceQuiet ==
    ASSUME NEW u \in Users, DeviceInv(u), TypeOK', History, UNCHANGED session,
           NEW c \in Clients, NEW new, req' = [req EXCEPT ![c] = new],
           OwnerSound(c)', u \notin overlapped => DeviceSound(u, c)'
    PROVE  DeviceInv(u)'
<1>1. \A d \in Clients : d # c => req'[d] = req[d]
  BY DEF DeviceInv, TypeOK
<1>2. ASSUME NEW d \in Clients PROVE OwnerSound(d)'
  BY <1>1 DEF DeviceInv, OwnerSound
<1>3. ASSUME u \notin overlapped' PROVE OneActive(u)'
  BY <1>3, OverlapHistory DEF DeviceInv, OneActive
<1>4. ASSUME u \notin overlapped', NEW d \in Clients PROVE DeviceSound(u, d)'
  <2>1. u \notin overlapped
    BY <1>4, OverlapHistory
  <2>2. CASE d = c
    BY <2>1, <2>2
  <2>3. CASE d # c
    BY <1>1, <2>1, <2>3 DEF DeviceInv, DeviceSound, HasActiveSession
  <2> QED BY <2>2, <2>3
<1> QED BY <1>2, <1>3, <1>4, OverlapHistory DEF DeviceInv

\* A step that writes one row, of the user of the request: it stays the only one
\* in progress, and no other request is about that user.
LEMMA DeviceWrite ==
    ASSUME NEW u \in Users, DeviceInv(u), TypeOK', History,
           NEW c \in Clients, NEW s \in Sessions, NEW row \in Rows,
           req' = [req EXCEPT ![c] = Idle], session' = [session EXCEPT ![s] = row],
           row.user \in Users, row.user = req[c].ent.user,
           session[s] = NoRow \/ session[s].user = row.user,
           u \notin overlapped /\ row.user = u /\ row.status = "ACTIVE" =>
              session[s].status = "ACTIVE" \/ ~HasActiveSession(u)
    PROVE  DeviceInv(u)'
<1>t. /\ TypeOK /\ req'[c] = Idle /\ \A d \in Clients : d # c => req'[d] = req[d]
      /\ \A t \in Sessions : session'[t] = IF t = s THEN row ELSE session[t]
  BY DEF DeviceInv, TypeOK
<1>n. NoRow.user = NULL /\ NoRow.status = "NONE" /\ NULL \notin Users
  BY DEF NoRow
<1>s. ASSUME NEW d \in Clients, d # c, req[d].at \in {"loaded", "reread"}
      PROVE  /\ req[d].sid \in Sessions /\ session'[req[d].sid].user = req[d].ent.user
             /\ session[req[d].sid].user = req[d].ent.user /\ req[d].ent.user \in Users
  <2>1. req[d].sid \in Sessions
    BY <1>s, <1>t DEF TypeOK, Requests
  <2>2. session[req[d].sid].user = req[d].ent.user /\ req[d].ent.user \in Users
    BY <1>s DEF DeviceInv, OwnerSound
  <2> QED BY <1>t, <1>n, <2>1, <2>2
<1>2. ASSUME NEW d \in Clients PROVE OwnerSound(d)'
  <2>1. CASE d = c
    BY <1>t, <2>1, RequestFields DEF OwnerSound
  <2>2. CASE d # c
    BY <1>t, <1>s, <2>2 DEF OwnerSound, DeviceInv
  <2> QED BY <2>1, <2>2
<1>3. ASSUME u \notin overlapped' PROVE OneActive(u)'
  <2>1. u \notin overlapped /\ OneActive(u)
    BY <1>3, OverlapHistory DEF DeviceInv
  <2> QED BY <1>t, <1>n, <2>1 DEF OneActive, HasActiveSession
<1>4. ASSUME u \notin overlapped', NEW d \in Clients PROVE DeviceSound(u, d)'
  <2>1. /\ u \notin overlapped /\ DeviceSound(u, d)
        /\ \A b \in Clients : req[b].ent.user = u /\ req[d].ent.user = u => b = d
    BY <1>4, OverlapHistory DEF DeviceInv, About
  <2>2. CASE d = c
    BY <1>t, <2>2, RequestFields DEF DeviceSound
  <2>3. CASE d # c /\ row.user = u
    BY <1>t, <2>1, <2>3 DEF DeviceSound
  <2>4. CASE d # c /\ row.user # u
    <3>1. \A t \in Sessions : session'[t].user = u => session'[t] = session[t]
      BY <1>t, <2>4
    <3>2. HasActiveSession(u)' => HasActiveSession(u)
      BY <3>1 DEF HasActiveSession
    <3>3. req[d].ent.user = u /\ req[d].at \in {"loaded", "reread"}
            => session'[req[d].sid] = session[req[d].sid]
      BY <1>s, <2>4, <3>1
    <3>4. req'[d] = req[d]
      BY <1>t, <2>4
    <3> QED BY <2>1, <3>2, <3>3, <3>4 DEF DeviceSound
  <2> QED BY <2>2, <2>3, <2>4
<1> QED BY <1>2, <1>3, <1>4, OverlapHistory DEF DeviceInv

\* What one step does to a user's sessions and to the requests about them.
LEMMA DeviceStep ==
    ASSUME NEW u \in Users, DeviceInv(u), [Next]_vars
    PROVE  DeviceInv(u)'
<1>t. TypeOK /\ TypeOK'
  BY TypeStep DEF DeviceInv
<1>0. CASE UNCHANGED vars
  BY <1>0, <1>t
  DEF vars, DeviceInv, OwnerSound, About, OneActive, DeviceSound, HasActiveSession
<1> SUFFICES ASSUME Handlers, History PROVE DeviceInv(u)'
  BY <1>0 DEF Next
<1>1. ASSUME NEW c \in Clients, StartCheck(c) PROVE DeviceInv(u)'
  <2>1. PICK t \in Tasks \cup {NULL} :
          req' = [req EXCEPT ![c] = Inserting(StartedRow(UserOf[c], t))]
    BY <1>1 DEF StartCheck, VisibleTasks
  <2>2. UNCHANGED session /\ ~HasActiveSession(UserOf[c])
    BY <1>1 DEF StartCheck
  <2>3. OwnerSound(c)' /\ DeviceSound(u, c)'
    BY <1>t, <2>1, <2>2, RequestFields, EntityFields
    DEF OwnerSound, DeviceSound, TypeOK, HasActiveSession
  <2> QED BY <1>t, <2>1, <2>2, <2>3, DeviceQuiet
<1>2. ASSUME NEW c \in Clients, RecordTask(c) PROVE DeviceInv(u)'
  <2>1. PICK r \in Results, k \in StoredKeys, t \in Tasks \cup {NULL} :
          req' = [req EXCEPT ![c] = Inserting(RecordedRow(UserOf[c], t, k, r))]
    BY <1>2 DEF RecordTask, FreeResults, StoredKeys
  <2>2. UNCHANGED session
    BY <1>2 DEF RecordTask
  <2>3. OwnerSound(c)' /\ DeviceSound(u, c)'
    BY <1>t, <2>1, <2>2, RequestFields, EntityFields DEF OwnerSound, DeviceSound, TypeOK
  <2> QED BY <1>t, <2>1, <2>2, <2>3, DeviceQuiet
<1>3. ASSUME NEW c \in Clients, NEW s \in Sessions, FinishLoad(c, s) PROVE DeviceInv(u)'
  <2>1. PICK r \in Results, k \in StoredKeys :
          req' = [req EXCEPT ![c] = Loaded(s, FinishedRow(session[s], k, r))]
    BY <1>3 DEF FinishLoad, FreeResults, StoredKeys
  <2>2. UNCHANGED session /\ session[s].user = UserOf[c] /\ session[s].status = "ACTIVE"
    BY <1>3 DEF FinishLoad
  <2>3. OwnerSound(c)' /\ DeviceSound(u, c)'
    BY <1>t, <2>1, <2>2, RequestFields, EntityFields
    DEF OwnerSound, DeviceSound, TypeOK, Statuses
  <2> QED BY <1>t, <2>1, <2>2, <2>3, DeviceQuiet
<1>4. ASSUME NEW c \in Clients, NEW s \in Sessions, CancelLoad(c, s) PROVE DeviceInv(u)'
  <2>1. /\ req' = [req EXCEPT ![c] = Loaded(s, CancelledRow(session[s]))]
        /\ UNCHANGED session /\ session[s].user = UserOf[c] /\ session[s].status = "ACTIVE"
    BY <1>4 DEF CancelLoad
  <2>2. OwnerSound(c)' /\ DeviceSound(u, c)'
    BY <1>t, <2>1, RequestFields, EntityFields DEF OwnerSound, DeviceSound, TypeOK, Statuses
  <2> QED BY <1>t, <2>1, <2>2, DeviceQuiet
<1>5. ASSUME NEW c \in Clients, NEW s \in Sessions, VerifyLoad(c, s) PROVE DeviceInv(u)'
  <2>1. PICK v \in Verdicts :
          req' = [req EXCEPT ![c] = Loaded(s, VerifiedRow(session[s], v, UserOf[c]))]
    BY <1>5 DEF VerifyLoad
  <2>2. UNCHANGED session /\ session[s].user \in Users /\ session[s].status # "NONE"
    BY <1>5 DEF VerifyLoad, MayVerify
  <2>3. session[s] \in Rows /\ session[s].status \in Statuses
    BY <1>t, <2>2 DEF TypeOK, Rows
  <2>4. /\ req'[c].at = "loaded" /\ req'[c].sid = s
        /\ req'[c].ent.status = session[s].status /\ req'[c].ent.user = session[s].user
    BY <1>t, <2>1, <2>3, RequestFields, EntityFields DEF TypeOK
  <2>5. OwnerSound(c)' /\ DeviceSound(u, c)'
    BY <2>2, <2>3, <2>4 DEF OwnerSound, DeviceSound
  <2> QED BY <1>t, <2>1, <2>2, <2>5, DeviceQuiet
<1>6. ASSUME NEW c \in Clients, InsertRow(c) PROVE DeviceInv(u)'
  <2>1. PICK s \in Sessions : session[s] = NoRow /\ session' = [session EXCEPT ![s] = req[c].ent]
    BY <1>6 DEF InsertRow, FreeSessions
  <2>2. /\ req[c].ent \in Rows /\ req[c].ent.user \in Users /\ req' = [req EXCEPT ![c] = Idle]
    BY <1>6, <1>t DEF InsertRow, DeviceInv, OwnerSound, TypeOK, Requests
  <2>3. /\ u \notin overlapped /\ req[c].ent.user = u /\ req[c].ent.status = "ACTIVE"
           => ~HasActiveSession(u)
    BY <1>6 DEF InsertRow, DeviceInv, DeviceSound
  <2> QED BY <1>t, <2>1, <2>2, <2>3, DeviceWrite
<1>7. ASSUME NEW c \in Clients, InsertFails(c) \/ SaveFails(c) PROVE DeviceInv(u)'
  <2>1. UNCHANGED session /\ req' = [req EXCEPT ![c] = Idle]
    BY <1>7 DEF InsertFails, SaveFails
  <2>2. OwnerSound(c)' /\ DeviceSound(u, c)'
    BY <1>t, <2>1, RequestFields DEF OwnerSound, DeviceSound, TypeOK
  <2> QED BY <1>t, <2>1, <2>2, DeviceQuiet
<1>8. ASSUME NEW c \in Clients, Reread(c) PROVE DeviceInv(u)'
  <2>1. /\ req'[c].at = "reread" /\ req'[c].sid = req[c].sid /\ req'[c].ent = req[c].ent
        /\ req[c].at = "loaded" /\ UNCHANGED session
    BY <1>8, <1>t DEF Reread, TypeOK, Requests
  <2>2. OwnerSound(c)'
    BY <2>1 DEF OwnerSound, DeviceInv
  <2>3. u \notin overlapped => DeviceSound(u, c)'
    BY <2>1 DEF DeviceSound, DeviceInv
  <2> QED BY <1>8, <1>t, <2>1, <2>2, <2>3, DeviceQuiet DEF Reread
<1>9. ASSUME NEW c \in Clients, SaveWrite(c) PROVE DeviceInv(u)'
  <2>1. PICK s \in Sessions : s = req[c].sid
    BY <1>9, <1>t DEF SaveWrite, TypeOK, Requests
  <2>2. PICK row : row = Written(session[s], req[c].ent, req[c].cols, req[c].seen)
    OBVIOUS
  <2>3. /\ session' = [session EXCEPT ![s] = row] /\ req' = [req EXCEPT ![c] = Idle]
        /\ session[s] \in Rows /\ req[c].ent \in Rows
        /\ session[s].user = req[c].ent.user /\ req[c].ent.user \in Users
    BY <1>9, <1>t, <2>1, <2>2 DEF SaveWrite, TypeOK, Requests, DeviceInv, OwnerSound
  <2>4. row \in Rows
    BY <2>2, <2>3, WrittenType
  <2>5. row.user = session[s].user /\ row.status \in {session[s].status, req[c].ent.status}
    BY <2>2 DEF Written
  <2>6. u \notin overlapped /\ row.user = u /\ row.status = "ACTIVE"
          => session[s].status = "ACTIVE"
    BY <1>9, <2>1, <2>3, <2>5 DEF SaveWrite, DeviceInv, DeviceSound
  <2> QED BY <1>t, <2>3, <2>4, <2>5, <2>6, DeviceWrite
<1>10. ASSUME NEW c \in Clients, Answered(c) PROVE DeviceInv(u)'
  <2>1. UNCHANGED <<session, req>> /\ overlapped \subseteq overlapped'
    BY <1>10 DEF Answered, History
  <2> QED
    BY <1>t, <2>1 DEF DeviceInv, OwnerSound, About, OneActive, DeviceSound, HasActiveSession
<1> QED
  BY <1>1, <1>2, <1>3, <1>4, <1>5, <1>6, <1>7, <1>8, <1>9, <1>10 DEF Handlers

LEMMA DeviceInit == ASSUME NEW u \in Users PROVE Init => DeviceInv(u)
<1> SUFFICES ASSUME Init PROVE DeviceInv(u)
  OBVIOUS
<1>1. TypeOK
  BY RowTypes DEF Init, TypeOK
<1>2. \A c \in Clients : req[c].at = "idle" /\ req[c].ent.user = NULL
  BY RequestFields DEF Init, NoRow
<1>3. \A s \in Sessions : session[s].status = "NONE"
  BY DEF Init, NoRow
<1> QED BY <1>1, <1>2, <1>3 DEF DeviceInv, OneActive, DeviceSound, OwnerSound, About

\* The life cycle that the table shows.
LifeOf(row) == IF row.user \in overlapped THEN [status |-> "LOST", user |-> NULL]
                                          ELSE [status |-> row.status, user |-> row.user]

Life == [s \in Sessions |-> LifeOf(session[s])]

\* A request that ends makes nobody overlap.
LEMMA NoNewOverlap ==
    ASSUME \A u \in Users : DeviceInv(u), TypeOK, History, NEW c \in Clients,
           req' = [req EXCEPT ![c] = Idle]
    PROVE  overlapped' = overlapped
<1>1. ASSUME NEW u \in Users, u \notin overlapped PROVE u \notin overlapped'
  <2>1. About(u)' \subseteq About(u)
    BY RequestFields DEF About, TypeOK, NoRow
  <2>2. \A b, d \in About(u) : b = d
    BY <1>1 DEF DeviceInv
  <2> QED BY <1>1, <2>1, <2>2 DEF History
<1>2. overlapped \subseteq Users
  BY DEF TypeOK
<1> QED BY <1>1, <1>2 DEF History

\* A step that writes no session is at most a loss.
LEMMA LifeQuiet ==
    ASSUME UNCHANGED session, overlapped \subseteq overlapped'
    PROVE  [Lifecycle!Next]_Life
<1>2. PICK gone \in SUBSET Sessions : gone = {s \in Sessions : session[s].user \in overlapped'}
  OBVIOUS
<1>1. Life' = [s \in Sessions |-> IF s \in gone THEN [status |-> "LOST", user |-> NULL]
                                               ELSE Life[s]]
  BY <1>2 DEF Life, LifeOf
<1>3. Lifecycle!Lose(gone)
  BY <1>1 DEF Lifecycle!Lose, Lifecycle!Lost, Life, LifeOf
<1> QED BY <1>2, <1>3 DEF Lifecycle!Next

\* A step that writes one row of a user.
LEMMA LifeWrite ==
    ASSUME TypeOK, UNCHANGED overlapped, NEW s \in Sessions, NEW row,
           session' = [session EXCEPT ![s] = row]
    PROVE  Life' = [Life EXCEPT ![s] = LifeOf(row)]
BY DEF TypeOK, Life, LifeOf

\* Every step of the handlers is one of the life cycle, or changes nothing it shows.
LEMMA LifecycleStep ==
    ASSUME \A u \in Users : DeviceInv(u), TypeOK, [Next]_vars
    PROVE  [Lifecycle!Next]_Life
<1>0. CASE UNCHANGED vars
  BY <1>0, LifeQuiet DEF vars
<1> SUFFICES ASSUME Handlers, History PROVE [Lifecycle!Next]_Life
  BY <1>0 DEF Next
<1>o. overlapped \subseteq overlapped' /\ NULL \notin overlapped
  BY DEF History, TypeOK
<1>q. ASSUME UNCHANGED session PROVE [Lifecycle!Next]_Life
  BY <1>q, <1>o, LifeQuiet
<1>6. ASSUME NEW c \in Clients, InsertRow(c) PROVE [Lifecycle!Next]_Life
  <2>1. PICK s \in Sessions : session[s] = NoRow /\ session' = [session EXCEPT ![s] = req[c].ent]
    BY <1>6 DEF InsertRow, FreeSessions
  <2>2. PICK v \in Users : v = req[c].ent.user
    BY <1>6 DEF InsertRow, DeviceInv, OwnerSound
  <2>3. UNCHANGED overlapped
    BY <1>6, NoNewOverlap DEF InsertRow
  <2>4. Life' = [Life EXCEPT ![s] = LifeOf(req[c].ent)]
    BY <2>1, <2>3, LifeWrite
  <2>5. Life[s] = Lifecycle!Unborn
    BY <1>o, <2>1 DEF Life, LifeOf, Lifecycle!Unborn, NoRow
  <2>6. CASE v \in overlapped
    <3>1. Life' = [t \in Sessions |-> IF t \in {s} THEN [status |-> "LOST", user |-> NULL]
                                                  ELSE Life[t]]
      BY <2>2, <2>4, <2>6 DEF Life, LifeOf
    <3>2. Lifecycle!Lose({s})
      BY <3>1 DEF Lifecycle!Lose, Lifecycle!Lost, Life, LifeOf
    <3>3. {s} \in SUBSET Sessions
      OBVIOUS
    <3> QED BY <3>2, <3>3 DEF Lifecycle!Next
  <2>7. CASE v \notin overlapped
    <3>1. /\ req[c].ent.status \in {"ACTIVE", "FINISHED"}
          /\ req[c].ent.status = "ACTIVE" => ~HasActiveSession(v)
      BY <1>6, <2>2, <2>7 DEF InsertRow, DeviceInv, DeviceSound
    <3>2. LifeOf(req[c].ent) = [status |-> req[c].ent.status, user |-> v]
      BY <2>2, <2>7 DEF LifeOf
    <3>3. CASE req[c].ent.status = "ACTIVE"
      <4>1. \A t \in Sessions : ~(Life[t].user = v /\ Life[t].status = "ACTIVE")
        BY <3>1, <3>3 DEF Life, LifeOf, HasActiveSession
      <4>2. Lifecycle!Open(s, v)
        BY <2>4, <2>5, <3>2, <3>3, <4>1 DEF Lifecycle!Open, Life, LifeOf
      <4> QED BY <4>2 DEF Lifecycle!Next
    <3>4. CASE req[c].ent.status = "FINISHED"
      <4>1. Lifecycle!Record(s, v)
        BY <2>4, <2>5, <3>2, <3>4 DEF Lifecycle!Record, Life, LifeOf
      <4> QED BY <4>1 DEF Lifecycle!Next
    <3> QED BY <3>1, <3>3, <3>4
  <2> QED BY <2>6, <2>7
<1>9. ASSUME NEW c \in Clients, SaveWrite(c) PROVE [Lifecycle!Next]_Life
  <2>1. PICK s \in Sessions : s = req[c].sid
    BY <1>9 DEF SaveWrite, TypeOK, Requests
  <2>2. PICK row : row = Written(session[s], req[c].ent, req[c].cols, req[c].seen)
    OBVIOUS
  <2>3. PICK v \in Users : v = req[c].ent.user /\ v = session[s].user
    BY <1>9, <2>1 DEF SaveWrite, DeviceInv, OwnerSound
  <2>4. UNCHANGED overlapped
    BY <1>9, NoNewOverlap DEF SaveWrite
  <2>5. Life' = [Life EXCEPT ![s] = LifeOf(row)]
    BY <1>9, <2>1, <2>2, <2>4, LifeWrite DEF SaveWrite
  <2>6. row.user = v /\ row.status \in {session[s].status, req[c].ent.status}
    BY <2>2, <2>3 DEF Written
  <2>7. CASE v \in overlapped \/ row.status = session[s].status
    <3>1. LifeOf(row) = Life[s]
      BY <2>3, <2>6, <2>7 DEF Life, LifeOf
    <3> QED BY <2>5, <3>1 DEF Life
  <2>8. CASE v \notin overlapped /\ row.status # session[s].status
    <3>1. /\ session[s].status = "ACTIVE" /\ row.status \in {"FINISHED", "CANCELLED"}
      BY <1>9, <2>1, <2>3, <2>6, <2>8 DEF SaveWrite, DeviceInv, DeviceSound, Statuses
    <3>2. Life[s] = [status |-> "ACTIVE", user |-> v]
          /\ LifeOf(row) = [status |-> row.status, user |-> v]
      BY <2>3, <2>6, <2>8, <3>1 DEF Life, LifeOf
    <3>3. Life' = [Life EXCEPT ![s].status = row.status]
      <4>1. Life \in [Sessions -> [status : {Life[t].status : t \in Sessions},
                                   user : {Life[t].user : t \in Sessions}]]
        BY DEF Life, LifeOf
      <4>2. [Life EXCEPT ![s].status = row.status]
              = [Life EXCEPT ![s] = [Life[s] EXCEPT !.status = row.status]]
        BY <4>1
      <4>3. [Life[s] EXCEPT !.status = row.status] = LifeOf(row)
        BY <3>2
      <4> QED BY <2>5, <4>2, <4>3
    <3>4. Lifecycle!Close(s, row.status)
      BY <3>2, <3>3 DEF Lifecycle!Close, Life, LifeOf
    <3> QED BY <3>1, <3>4 DEF Lifecycle!Next
  <2> QED BY <2>7, <2>8
<1>10. ASSUME NEW c \in Clients, ~InsertRow(c), ~SaveWrite(c),
              \/ StartCheck(c) \/ RecordTask(c) \/ Answered(c) \/ InsertFails(c)
              \/ Reread(c) \/ SaveFails(c)
              \/ \E s \in Sessions : FinishLoad(c, s) \/ CancelLoad(c, s) \/ VerifyLoad(c, s)
       PROVE  UNCHANGED session
  BY <1>10 DEF StartCheck, RecordTask, Answered, InsertFails, Reread, SaveFails, FinishLoad,
               CancelLoad, VerifyLoad
<1> QED BY <1>q, <1>6, <1>9, <1>10 DEF Handlers

\* Until two requests about a user's sessions overlap, the table and the handlers implement
\* for these sessions the life cycle that the endpoints promise.
THEOREM LifecycleTheorem == Spec => ImplementsLifecycle
<1> DEFINE Inv == TypeOK /\ \A u \in Users : DeviceInv(u)
<1>1. Init => Inv
  BY DeviceInit, RowTypes DEF Init, TypeOK
<1>2. Inv /\ [Next]_vars => Inv'
  BY DeviceStep, TypeStep
<1>3. Init => Lifecycle!Init
  BY DEF Init, Lifecycle!Init, Lifecycle!Unborn, NoRow
<1>4. Inv /\ [Next]_vars =>
        [Lifecycle!Next]_[s \in Sessions |->
                            IF session[s].user \in overlapped
                            THEN [status |-> "LOST", user |-> NULL]
                            ELSE [status |-> session[s].status, user |-> session[s].user]]
  BY LifecycleStep DEF Life, LifeOf
<1> HIDE DEF Inv
<1> QED BY <1>1, <1>2, <1>3, <1>4, PTL DEF Spec, ImplementsLifecycle, Lifecycle!Spec

-----------------------------------------------------------------------------
(* Who may give a closed session another outcome, whatever overlaps.        *)

\* A request that holds a session whose outcome it knows: the session is in progress, or
\* the request leaves the outcome as it is.
LateSound(c) ==
    c \notin late /\ req[c].at \in {"loaded", "reread"} =>
        \/ session[req[c].sid].status = "ACTIVE"
        \/ /\ Outcome(req[c].ent) = Outcome(session[req[c].sid])
           /\ req[c].at = "reread" => req[c].cols \cap {"status", "key", "result"} = {}

LateInv == TypeOK /\ \A c \in Clients : LateSound(c)

\* What the history keeps of a client that does not take the step.
LEMMA LateHistory ==
    ASSUME History, NEW c \in Clients, req'[c] = req[c], c \notin late',
           req[c].at \in {"loaded", "reread"}
    PROVE  c \notin late /\ Outcome(session'[req[c].sid]) = Outcome(session[req[c].sid])
BY DEF History, Holds

\* The request that takes the step keeps what it knows of the others.
LEMMA LateOthers ==
    ASSUME LateInv, History, TypeOK', NEW c \in Clients,
           \A d \in Clients : d # c => req'[d] = req[d], LateSound(c)'
    PROVE  LateInv'
<1>1. ASSUME NEW d \in Clients, d # c PROVE LateSound(d)'
  <2>1. SUFFICES ASSUME d \notin late', req[d].at \in {"loaded", "reread"}
                 PROVE  LateSound(d)'
    BY <1>1 DEF LateSound
  <2>2. /\ req'[d] = req[d] /\ d \notin late /\ LateSound(d)
        /\ Outcome(session'[req[d].sid]) = Outcome(session[req[d].sid])
    BY <1>1, <2>1, LateHistory DEF LateInv
  <2>3. session'[req[d].sid].status = session[req[d].sid].status
    BY <2>2 DEF Outcome
  <2> QED BY <2>1, <2>2, <2>3 DEF LateSound
<1> QED BY <1>1 DEF LateInv

\* What one step does.
LEMMA LateStep ==
    ASSUME LateInv, [Next]_vars
    PROVE  LateInv' /\ OnlyLateStep
<1>t. TypeOK /\ TypeOK'
  BY TypeStep DEF LateInv
<1>q. ASSUME UNCHANGED session PROVE OnlyLateStep
  BY <1>q DEF OnlyLateStep, Outcome
<1>0. CASE UNCHANGED vars
  BY <1>0, <1>t, <1>q DEF vars, LateInv, LateSound, Outcome
<1> SUFFICES ASSUME Handlers, History PROVE LateInv' /\ OnlyLateStep
  BY <1>0 DEF Next
<1>1. \A c \in Clients : \A new :
         new.at \in {"idle", "insert"} /\ req' = [req EXCEPT ![c] = new] => LateInv'
  <2> TAKE c \in Clients
  <2> TAKE new
  <2> HAVE new.at \in {"idle", "insert"} /\ req' = [req EXCEPT ![c] = new]
  <2>1. req'[c] = new /\ \A d \in Clients : d # c => req'[d] = req[d]
    BY <1>t DEF TypeOK
  <2>2. LateSound(c)'
    BY <2>1 DEF LateSound
  <2> QED BY <1>t, <2>1, <2>2, LateOthers
<1>2. ASSUME NEW c \in Clients, StartCheck(c) \/ RecordTask(c) PROVE LateInv' /\ OnlyLateStep
  <2>1. PICK ent : req' = [req EXCEPT ![c] = Inserting(ent)]
    BY <1>2 DEF StartCheck, RecordTask
  <2>2. UNCHANGED session
    BY <1>2 DEF StartCheck, RecordTask
  <2>3. Inserting(ent).at \in {"idle", "insert"}
    BY RequestFields
  <2>4. LateInv'
    BY <1>1, <2>1, <2>3
  <2> QED BY <1>q, <2>2, <2>4
<1>3. \A c \in Clients, s \in Sessions : \A ent :
         /\ req' = [req EXCEPT ![c] = Loaded(s, ent)] /\ UNCHANGED session
         /\ session[s].status = "ACTIVE" \/ Outcome(ent) = Outcome(session[s])
         => LateInv' /\ OnlyLateStep
  <2> SUFFICES ASSUME NEW c \in Clients, NEW s \in Sessions, NEW ent,
                      req' = [req EXCEPT ![c] = Loaded(s, ent)], UNCHANGED session,
                      session[s].status = "ACTIVE" \/ Outcome(ent) = Outcome(session[s])
               PROVE  LateInv' /\ OnlyLateStep
    OBVIOUS
  <2>1. /\ req'[c].at = "loaded" /\ req'[c].sid = s /\ req'[c].ent = ent
        /\ \A d \in Clients : d # c => req'[d] = req[d]
    BY <1>t, RequestFields DEF TypeOK
  <2>2. LateSound(c)'
    BY <2>1 DEF LateSound
  <2> QED BY <1>t, <1>q, <2>1, <2>2, LateOthers
<1>4. ASSUME NEW c \in Clients, NEW s \in Sessions, FinishLoad(c, s) \/ CancelLoad(c, s)
      PROVE  LateInv' /\ OnlyLateStep
  <2>1. PICK ent : req' = [req EXCEPT ![c] = Loaded(s, ent)]
    BY <1>4 DEF FinishLoad, CancelLoad
  <2>2. UNCHANGED session /\ session[s].status = "ACTIVE"
    BY <1>4 DEF FinishLoad, CancelLoad
  <2> QED BY <1>3, <2>1, <2>2
<1>5. ASSUME NEW c \in Clients, NEW s \in Sessions, VerifyLoad(c, s)
      PROVE  LateInv' /\ OnlyLateStep
  <2>1. PICK v \in Verdicts :
          req' = [req EXCEPT ![c] = Loaded(s, VerifiedRow(session[s], v, UserOf[c]))]
    BY <1>5 DEF VerifyLoad
  <2>2. UNCHANGED session
    BY <1>5 DEF VerifyLoad
  <2>3. Outcome(VerifiedRow(session[s], v, UserOf[c])) = Outcome(session[s])
    BY <1>t, EntityFields DEF TypeOK, Outcome
  <2> QED BY <1>3, <2>1, <2>2, <2>3
<1>6. ASSUME NEW c \in Clients, InsertRow(c) PROVE LateInv' /\ OnlyLateStep
  <2>1. PICK s \in Sessions : session[s] = NoRow /\ session' = [session EXCEPT ![s] = req[c].ent]
    BY <1>6 DEF InsertRow, FreeSessions
  <2>2. OnlyLateStep
    BY <1>t, <2>1 DEF OnlyLateStep, TypeOK, NoRow, Outcome
  <2>3. LateInv'
    BY <1>6, <1>1, RequestFields DEF InsertRow
  <2> QED BY <2>2, <2>3
<1>7. ASSUME NEW c \in Clients, InsertFails(c) \/ SaveFails(c) PROVE LateInv' /\ OnlyLateStep
  <2>1. UNCHANGED session /\ req' = [req EXCEPT ![c] = Idle]
    BY <1>7 DEF InsertFails, SaveFails
  <2>2. LateInv'
    BY <1>1, <2>1, RequestFields
  <2> QED BY <1>q, <2>1, <2>2
<1>8. ASSUME NEW c \in Clients, Reread(c) PROVE LateInv' /\ OnlyLateStep
  <2>1. /\ req'[c].sid = req[c].sid /\ req'[c].ent = req[c].ent
        /\ req'[c].cols = Diff(req[c].ent, session[req[c].sid])
        /\ req[c].at = "loaded" /\ req'[c].at = "reread" /\ UNCHANGED session
        /\ \A d \in Clients : d # c => req'[d] = req[d]
    BY <1>8, <1>t DEF Reread, TypeOK, Requests
  <2>2. c \notin late' => c \notin late
    BY <2>1 DEF History, Holds
  <2>3. LateSound(c)
    BY DEF LateInv
  <2>4. Outcome(req[c].ent) = Outcome(session[req[c].sid])
          => req'[c].cols \cap {"status", "key", "result"} = {}
    BY <2>1 DEF Diff, Outcome
  <2>5. LateSound(c)'
    BY <2>1, <2>2, <2>3, <2>4 DEF LateSound
  <2> QED BY <1>t, <1>q, <2>1, <2>5, LateOthers
<1>9. ASSUME NEW c \in Clients, SaveWrite(c) PROVE LateInv' /\ OnlyLateStep
  <2>1. /\ req[c].at = "reread" /\ req' = [req EXCEPT ![c] = Idle] /\ req[c].sid \in Sessions
    BY <1>9, <1>t DEF SaveWrite, TypeOK, Requests
  <2>2. LateInv'
    BY <1>1, <2>1, RequestFields
  <2>3. PICK row : row = Written(session[req[c].sid], req[c].ent, req[c].cols, req[c].seen)
    OBVIOUS
  <2>4. \A s \in Sessions : session'[s] = IF s = req[c].sid THEN row ELSE session[s]
    BY <1>9, <1>t, <2>1, <2>3 DEF SaveWrite, TypeOK
  <2>5. ASSUME NEW s \in Sessions, session[s].status \in {"FINISHED", "CANCELLED"},
               Outcome(session'[s]) # Outcome(session[s])
        PROVE  c \in late /\ req[c].sid = s
    <3>1. req[c].sid = s
      BY <2>4, <2>5
    <3>2. CASE c \notin late
      <4>1. req[c].cols \cap {"status", "key", "result"} = {}
        BY <2>1, <2>5, <3>1, <3>2 DEF LateInv, LateSound
      <4>2. "status" \notin req[c].cols /\ "key" \notin req[c].cols /\ "result" \notin req[c].cols
        BY <4>1
      <4>3. /\ row.status = session[s].status /\ row.key = session[s].key
            /\ row.result = session[s].result
        BY <2>3, <3>1, <4>2 DEF Written
      <4> QED BY <2>4, <2>5, <3>1, <4>3 DEF Outcome
    <3> QED BY <3>1, <3>2
  <2>6. req'[c] # req[c]
    BY <1>t, <2>1, RequestFields DEF TypeOK
  <2>7. OnlyLateStep
    BY <2>1, <2>5, <2>6 DEF OnlyLateStep, TypeOK
  <2> QED BY <2>2, <2>7
<1>10. ASSUME NEW c \in Clients, Answered(c) PROVE LateInv' /\ OnlyLateStep
  <2>1. UNCHANGED <<session, req>>
    BY <1>10 DEF Answered
  <2>2. \A d \in Clients : d # c => req'[d] = req[d]
    BY <2>1
  <2>3. LateSound(c)'
    BY <1>10, <2>1, RequestFields DEF LateSound, Answered
  <2> QED BY <1>t, <1>q, <2>1, <2>2, <2>3, LateOthers
<1> QED
  BY <1>2, <1>4, <1>5, <1>6, <1>7, <1>8, <1>9, <1>10 DEF Handlers

\* Whatever overlaps, only the save of a request that held a session before it got its outcome
\* gives a closed session another one (finish 91-93, cancel 179-181, verifySession 383-390).
THEOREM OnlyLateTheorem == Spec => OnlyLateReopen
<1>1. Init => LateInv
  <2> SUFFICES ASSUME Init PROVE LateInv
    OBVIOUS
  <2>1. TypeOK
    BY RowTypes DEF Init, TypeOK
  <2> QED BY <2>1, RequestFields DEF Init, LateInv, LateSound
<1>2. LateInv /\ [Next]_vars => LateInv' /\ OnlyLateStep
  BY LateStep
<1> QED BY <1>1, <1>2, PTL DEF Spec, OnlyLateReopen

-----------------------------------------------------------------------------
(* Retries of finish and record, overlapping in any way and from any number *)
(* of clients: the UNIQUE constraints make the late one fail.               *)

RowSound(s) ==
    LET row == session[s] IN
    /\ row.status \in {"NONE", "ACTIVE", "FINISHED"}
    /\ row.status = "FINISHED" =>
         /\ row.key # NULL /\ row.result # NULL
         /\ resultKey[row.result] = row.key
    /\ row.status # "FINISHED" => row.key = NULL /\ row.result = NULL

\* The result in a request is in no row and in no other request.
ResultFresh(c) ==
    req[c].ent.result # NULL =>
        /\ resultKey[req[c].ent.result] = NULL
        /\ \A d \in Clients \ {c} : req[d].ent.result # req[c].ent.result

RetrySound(c) ==
    LET q == req[c] IN
    /\ q.at = "insert" =>
         \/ q.ent.status = "ACTIVE" /\ q.ent.key = NULL /\ q.ent.result = NULL
         \/ q.ent.status = "FINISHED" /\ q.ent.key # NULL /\ q.ent.result # NULL
    /\ q.at \in {"loaded", "reread"} =>
         /\ q.ent.status = "FINISHED" /\ q.ent.key # NULL /\ q.ent.result # NULL
         /\ session[q.sid].status \in {"ACTIVE", "FINISHED"}
    /\ q.at = "reread" =>
         /\ "result" \in q.cols
         /\ session[q.sid].status = "ACTIVE" => {"status", "key"} \subseteq q.cols

RetryInv ==
    /\ TypeOK
    /\ \A s \in Sessions : RowSound(s)
    /\ ResultsKept
    /\ \A c \in Clients : ResultFresh(c) /\ RetrySound(c)

\* A step that writes no table and leaves one request sound.
LEMMA RetryQuiet ==
    ASSUME RetryInv, TypeOK', UNCHANGED <<session, resultKey>>,
           NEW c \in Clients, NEW new, req' = [req EXCEPT ![c] = new],
           new.ent.result \in FreeResults \cup {NULL, req[c].ent.result},
           RetrySound(c)'
    PROVE  RetryInv'
<1> USE DEF RetryInv
<1>1. \A s \in Sessions : RowSound(s)'
  BY DEF RowSound
<1>2. ResultsKept'
  BY DEF ResultsKept
<1>3. req'[c] = new /\ \A d \in Clients \ {c} : req'[d] = req[d]
  BY DEF TypeOK
<1>4. ASSUME NEW d \in Clients PROVE ResultFresh(d)'
  <2>1. CASE d = c
    BY <2>1, <1>3 DEF ResultFresh, FreeResults
  <2>2. CASE d # c
    BY <2>2, <1>3 DEF ResultFresh, FreeResults
  <2> QED BY <2>1, <2>2
<1>5. ASSUME NEW d \in Clients \ {c} PROVE RetrySound(d)'
  BY <1>3 DEF RetrySound
<1> QED BY <1>1, <1>2, <1>4, <1>5

\* A step that writes one row: a new one without a result, or one that becomes
\* FINISHED with the key and the result of the request.
LEMMA RetryWrite ==
    ASSUME RetryInv, TypeOK', NEW c \in Clients, NEW s \in Sessions, NEW row \in Rows,
           req' = [req EXCEPT ![c] = Idle], session' = [session EXCEPT ![s] = row],
           session[s].status # "FINISHED",
           \/ /\ session[s].status = "NONE" /\ UNCHANGED resultKey
              /\ row.status = "ACTIVE" /\ row.key = NULL /\ row.result = NULL
           \/ /\ row.status = "FINISHED" /\ row.key # NULL /\ row.result # NULL
              /\ row.result = req[c].ent.result
              /\ resultKey' = [resultKey EXCEPT ![row.result] = row.key]
    PROVE  RetryInv' /\ FinishedStep
<1> USE DEF RetryInv
<1>t. /\ row.result \in Results \cup {NULL} /\ row.key \in StoredKeys \cup {NULL}
      /\ session'[s] = row /\ \A t \in Sessions \ {s} : session'[t] = session[t]
      /\ req'[c] = Idle /\ \A d \in Clients \ {c} : req'[d] = req[d]
      /\ \A t \in Sessions : session[t].result \in Results \cup {NULL}
      /\ \A d \in Clients : req[d].ent.result \in Results \cup {NULL}
  BY DEF TypeOK, Rows, Requests
<1>1. session[s].result = NULL
  BY DEF RowSound
<1>2. row.result # NULL => /\ resultKey[row.result] = NULL
                           /\ resultKey'[row.result] = row.key
                           /\ \A d \in Clients \ {c} : req[d].ent.result # row.result
  BY <1>t DEF ResultFresh, TypeOK
<1>3. \A r \in Results : r # row.result => resultKey'[r] = resultKey[r]
  BY <1>t DEF TypeOK
<1>4. ASSUME NEW t \in Sessions PROVE RowSound(t)'
  <2>1. CASE t = s
    BY <2>1, <1>t, <1>2 DEF RowSound
  <2>2. CASE t # s
    <3>1. session[t].status = "FINISHED" => session[t].result # row.result
      BY <1>2 DEF RowSound
    <3> QED BY <2>2, <3>1, <1>t, <1>3 DEF RowSound
  <2> QED BY <2>1, <2>2
<1>5. ResultsKept'
  <2> SUFFICES ASSUME NEW r \in Results, resultKey'[r] # NULL
               PROVE \E t \in Sessions : session'[t].result = r /\ session'[t].key = resultKey'[r]
    BY DEF ResultsKept
  <2>1. CASE r = row.result
    BY <2>1, <1>t, <1>2
  <2>2. CASE r # row.result
    <3>1. resultKey[r] = resultKey'[r]
      BY <2>2, <1>3
    <3>2. PICK t \in Sessions : session[t].result = r /\ session[t].key = resultKey[r]
      BY <3>1 DEF ResultsKept
    <3>3. t # s
      BY <3>2, <1>1
    <3> QED BY <3>1, <3>2, <3>3, <1>t
  <2> QED BY <2>1, <2>2
<1>6. ASSUME NEW d \in Clients PROVE ResultFresh(d)'
  <2>1. CASE d = c
    BY <2>1, <1>t, RequestFields DEF ResultFresh, NoRow
  <2>2. CASE d # c
    BY <2>2, <1>t, <1>2, <1>3, RequestFields DEF ResultFresh, NoRow
  <2> QED BY <2>1, <2>2
<1>7. ASSUME NEW d \in Clients PROVE RetrySound(d)'
  <2>1. CASE d = c
    BY <2>1, <1>t, RequestFields DEF RetrySound
  <2>2. CASE d # c
    <3>1. req[d].at \in {"loaded", "reread"} => req[d].sid \in Sessions
      BY DEF TypeOK, Requests
    <3>2. req[d].at \in {"loaded", "reread"} /\ req[d].sid = s => row.status = "FINISHED"
      BY DEF RetrySound
    <3> QED BY <2>2, <3>1, <3>2, <1>t DEF RetrySound
  <2> QED BY <2>1, <2>2
<1>8. FinishedStep
  BY <1>t DEF FinishedStep
<1> QED BY <1>4, <1>5, <1>6, <1>7, <1>8

\* What one step does, when nobody cancels or verifies: it keeps RetryInv and
\* every finished row, and a finish that is saved is saved as a whole.
LEMMA RetryStep ==
    ASSUME OnlyStartsAndFinishes, RetryInv, [Next]_vars
    PROVE  RetryInv' /\ FinishedStep /\ AckedFinishStep
<1> USE DEF RetryInv
<1>t. TypeOK /\ TypeOK'
  BY TypeStep
<1> DEFINE Goal == RetryInv' /\ FinishedStep
<1>q. ASSUME UNCHANGED session PROVE FinishedStep
  BY <1>q DEF FinishedStep
<1>1. ASSUME NEW c \in Clients, StartCheck(c) PROVE Goal
  <2>1. PICK t \in Tasks \cup {NULL} :
          req' = [req EXCEPT ![c] = Inserting(StartedRow(UserOf[c], t))]
    BY <1>1 DEF StartCheck, VisibleTasks
  <2> DEFINE new == Inserting(StartedRow(UserOf[c], t))
  <2>2. /\ new.at = "insert" /\ new.ent.status = "ACTIVE"
        /\ new.ent.key = NULL /\ new.ent.result = NULL
    BY RequestFields, EntityFields
  <2> HIDE DEF new
  <2>3. UNCHANGED <<session, resultKey>> /\ req' = [req EXCEPT ![c] = new]
    BY <1>1, <2>1 DEF StartCheck, new
  <2>4. RetrySound(c)'
    BY <1>t, <2>2, <2>3 DEF RetrySound, TypeOK
  <2> QED BY <1>t, <1>q, <2>2, <2>3, <2>4, RetryQuiet
<1>2. ASSUME NEW c \in Clients, RecordTask(c) PROVE Goal
  <2>1. PICK r \in FreeResults, k \in StoredKeys, t \in Tasks \cup {NULL} :
          req' = [req EXCEPT ![c] = Inserting(RecordedRow(UserOf[c], t, k, r))]
    BY <1>2 DEF RecordTask, FreeResults, StoredKeys
  <2> DEFINE new == Inserting(RecordedRow(UserOf[c], t, k, r))
  <2>2. /\ new.at = "insert" /\ new.ent.status = "FINISHED"
        /\ new.ent.key # NULL /\ new.ent.result = r /\ r # NULL
    BY RequestFields, EntityFields DEF FreeResults, StoredKeys
  <2> HIDE DEF new
  <2>3. UNCHANGED <<session, resultKey>> /\ req' = [req EXCEPT ![c] = new]
    BY <1>2, <2>1 DEF RecordTask, new
  <2>4. RetrySound(c)'
    BY <1>t, <2>2, <2>3 DEF RetrySound, TypeOK
  <2> QED BY <1>t, <1>q, <2>2, <2>3, <2>4, RetryQuiet
<1>3. ASSUME NEW c \in Clients, NEW s \in Sessions, FinishLoad(c, s) PROVE Goal
  <2>1. PICK r \in FreeResults, k \in StoredKeys :
          req' = [req EXCEPT ![c] = Loaded(s, FinishedRow(session[s], k, r))]
    BY <1>3 DEF FinishLoad, FreeResults, StoredKeys
  <2> DEFINE new == Loaded(s, FinishedRow(session[s], k, r))
  <2>2. /\ new.at = "loaded" /\ new.sid = s /\ new.ent.status = "FINISHED"
        /\ new.ent.key # NULL /\ new.ent.result = r /\ r # NULL
    BY <1>t, RequestFields, EntityFields DEF FreeResults, StoredKeys, TypeOK
  <2> HIDE DEF new
  <2>3. /\ UNCHANGED <<session, resultKey>> /\ req' = [req EXCEPT ![c] = new]
        /\ session[s].status = "ACTIVE"
    BY <1>3, <2>1 DEF FinishLoad, new
  <2>4. RetrySound(c)'
    BY <1>t, <2>2, <2>3 DEF RetrySound, TypeOK
  <2> QED BY <1>t, <1>q, <2>2, <2>3, <2>4, RetryQuiet
<1>4. ASSUME NEW c \in Clients, NEW s \in Sessions, CancelLoad(c, s) \/ VerifyLoad(c, s)
      PROVE FALSE
  BY <1>4 DEF CancelLoad, VerifyLoad, OnlyStartsAndFinishes
<1>6. ASSUME NEW c \in Clients, InsertRow(c) PROVE Goal
  <2> DEFINE row == req[c].ent
  <2>1. PICK s \in Sessions : session[s] = NoRow /\ session' = [session EXCEPT ![s] = row]
    BY <1>6 DEF InsertRow, FreeSessions
  <2>2. /\ row \in Rows /\ req' = [req EXCEPT ![c] = Idle]
        /\ session[s].status = "NONE"
    BY <1>6, <1>t, <2>1 DEF InsertRow, TypeOK, Requests, NoRow
  <2>3. CASE row.status = "ACTIVE"
    <3>1. row.key = NULL /\ row.result = NULL /\ UNCHANGED resultKey
      BY <1>6, <2>3 DEF InsertRow, RetrySound
    <3> HIDE DEF row
    <3> QED BY <1>t, <2>1, <2>2, <2>3, <3>1, RetryWrite
  <2>4. CASE row.status = "FINISHED"
    <3>1. row.key # NULL /\ row.result # NULL /\ resultKey[row.result] = NULL
      BY <1>6, <2>4 DEF InsertRow, RetrySound, ResultFresh
    <3>2. resultKey' = [resultKey EXCEPT ![row.result] = row.key]
      BY <1>6, <3>1 DEF InsertRow, StoreResult
    <3>3. row.result = req[c].ent.result
      OBVIOUS
    <3> HIDE DEF row
    <3> QED BY <1>t, <2>1, <2>2, <2>4, <3>1, <3>2, <3>3, RetryWrite
  <2> QED BY <1>6, <2>3, <2>4 DEF InsertRow, RetrySound
<1>7. ASSUME NEW c \in Clients, InsertFails(c) \/ SaveFails(c) PROVE Goal
  <2>1. UNCHANGED <<session, resultKey>> /\ req' = [req EXCEPT ![c] = Idle]
    BY <1>7 DEF InsertFails, SaveFails
  <2>2. RetrySound(c)' /\ Idle.ent.result = NULL
    BY <1>t, <2>1, RequestFields DEF RetrySound, TypeOK, NoRow
  <2> QED BY <1>t, <1>q, <2>1, <2>2, RetryQuiet
<1>8. ASSUME NEW c \in Clients, Reread(c) PROVE Goal
  <2> DEFINE s == req[c].sid
             new == [req[c] EXCEPT !.at = "reread", !.cols = Diff(req[c].ent, session[s]),
                                   !.seen = session[s].result]
  <2>1. /\ new.at = "reread" /\ new.sid = s /\ new.ent = req[c].ent
        /\ new.cols = Diff(req[c].ent, session[s])
        /\ req[c].at = "loaded" /\ s \in Sessions
    BY <1>8, <1>t DEF Reread, TypeOK, Requests
  <2>2. UNCHANGED <<session, resultKey>> /\ req' = [req EXCEPT ![c] = new]
    BY <1>8 DEF Reread
  <2>3. session[s].result # req[c].ent.result
    BY <2>1 DEF RowSound, RetrySound, ResultFresh
  <2>4. "result" \in new.cols
    BY <2>1, <2>3 DEF Diff, Columns
  <2>5. session[s].status = "ACTIVE" => {"status", "key"} \subseteq new.cols
    BY <2>1 DEF Diff, Columns, RowSound, RetrySound
  <2> HIDE DEF new
  <2>6. req'[c] = new
    BY <1>t, <2>2 DEF TypeOK
  <2>7. RetrySound(c)'
    BY <2>1, <2>2, <2>4, <2>5, <2>6 DEF RetrySound
  <2> QED BY <1>t, <1>q, <2>1, <2>2, <2>7, RetryQuiet
<1>9. ASSUME NEW c \in Clients, SaveWrite(c)
      PROVE  /\ Goal
             /\ session'[req[c].sid].status = "FINISHED"
             /\ session'[req[c].sid].key = req[c].ent.key
             /\ session'[req[c].sid].result = req[c].ent.result
  <2> DEFINE s == req[c].sid
             row == Written(session[s], req[c].ent, req[c].cols, req[c].seen)
  <2>1. /\ s \in Sessions /\ session' = [session EXCEPT ![s] = row]
        /\ req' = [req EXCEPT ![c] = Idle]
        /\ session[s] \in Rows /\ req[c].ent \in Rows
    BY <1>9, <1>t DEF SaveWrite, TypeOK, Requests
  <2>2. /\ req[c].ent.status = "FINISHED" /\ req[c].ent.key # NULL
        /\ req[c].ent.result # NULL /\ "result" \in req[c].cols
        /\ session[s].status \in {"ACTIVE", "FINISHED"}
        /\ session[s].status = "ACTIVE" => {"status", "key"} \subseteq req[c].cols
    BY <1>9 DEF SaveWrite, RetrySound
  <2>3. session[s].status = "ACTIVE"
    <3>1. SUFFICES ASSUME session[s].status = "FINISHED" PROVE FALSE
      BY <2>2
    <3>2. session[s].result # NULL /\ session[s].result # req[c].ent.result
      BY <2>1, <2>2, <3>1 DEF RowSound, ResultFresh
    <3> QED BY <1>9, <2>2, <3>2 DEF SaveWrite, Violates, ResultTaken
  <2>4. /\ row.status = "FINISHED" /\ row.key = req[c].ent.key
        /\ row.result = req[c].ent.result
    BY <2>2, <2>3 DEF Written
  <2>5. row \in Rows
    BY <2>1, WrittenType
  <2>6. resultKey[req[c].ent.result] = NULL
    BY <2>2 DEF ResultFresh
  <2>7. resultKey' = [resultKey EXCEPT ![req[c].ent.result] = req[c].ent.key]
    BY <1>9, <2>2, <2>6 DEF SaveWrite, StoreResult
  <2>8. session'[s] = row
    BY <1>t, <2>1 DEF TypeOK
  <2> HIDE DEF row, s
  <2>9. Goal
    BY <1>t, <2>1, <2>2, <2>3, <2>4, <2>5, <2>7, RetryWrite
  <2> QED BY <2>4, <2>8, <2>9 DEF s
<1>10. ASSUME UNCHANGED <<session, resultKey, taskAccess, taskDone, req>>
       PROVE  Goal
  BY <1>10, <1>t, <1>q DEF RowSound, ResultsKept, ResultFresh, RetrySound
<1>11. AckedFinishStep
  BY <1>9 DEF AckedFinishStep
<1> QED
  BY <1>1, <1>2, <1>3, <1>4, <1>6, <1>7, <1>8, <1>9, <1>10, <1>11
  DEF Next, Handlers, Answered, vars

LEMMA RetryInit == Init => RetryInv
<1> SUFFICES ASSUME Init PROVE RetryInv
  OBVIOUS
<1>1. TypeOK
  BY RowTypes DEF Init, TypeOK
<1> QED
  BY <1>1, RequestFields
  DEF Init, RetryInv, RowSound, ResultsKept, ResultFresh, RetrySound, NoRow

\* Whatever the overlap of starts, finishes, records and retries, a finished
\* row keeps its status, key and result (finish 83-89).
THEOREM FinishedTheorem ==
    ASSUME OnlyStartsAndFinishes PROVE Spec => FinishedForever
<1>1. RetryInv /\ [Next]_vars => RetryInv' /\ FinishedStep
  BY RetryStep
<1> QED BY <1>1, RetryInit, PTL DEF Spec, FinishedForever

\* Whatever their overlap, a finish that is answered as saved was saved with its
\* own key and its own result (finish 95-108).
THEOREM AckedTheorem ==
    ASSUME OnlyStartsAndFinishes PROVE Spec => AckedFinish
<1>1. RetryInv /\ [Next]_vars => RetryInv' /\ AckedFinishStep
  BY RetryStep
<1> QED BY <1>1, RetryInit, PTL DEF Spec, AckedFinish

\* Whatever their overlap, no stored result is lost (finish 95-108, record 152-166).
THEOREM ResultsTheorem ==
    ASSUME OnlyStartsAndFinishes PROVE Spec => []ResultsKept
<1>1. RetryInv /\ [Next]_vars => RetryInv'
  BY RetryStep
<1>2. RetryInv => ResultsKept
  BY DEF RetryInv
<1> QED BY <1>1, <1>2, RetryInit, PTL DEF Spec

-----------------------------------------------------------------------------
(* Until two requests about a user's sessions overlap, every endpoint: rows *)
(* stay consistent.                                                         *)

\* FINISHED, with a key and with a result: all three, or none.
Consistent(row) == /\ row.status = "FINISHED" <=> row.key # NULL
                   /\ row.status = "FINISHED" <=> row.result # NULL

\* The entity of u that a request holds is consistent, and a request that has read the row
\* again writes the columns in which the row of now differs.
WholeSound(u, c) ==
    LET q == req[c] IN
    q.ent.user = u =>
        /\ q.at \in {"insert", "loaded", "reread"} => Consistent(q.ent)
        /\ q.at = "reread" => /\ q.cols = Diff(q.ent, session[q.sid])
                              /\ q.seen = session[q.sid].result

ConsistentInv(u) ==
    /\ DeviceInv(u)
    /\ u \notin overlapped =>
         /\ \A s \in Sessions : session[s].user = u => Consistent(session[s])
         /\ \A c \in Clients : WholeSound(u, c)

\* An update of all the columns that differ leaves the entity's status, key and result.
LEMMA WrittenWhole ==
    ASSUME NEW row \in Rows, NEW ent \in Rows
    PROVE  LET new == Written(row, ent, Diff(ent, row), row.result)
           IN  new.status = ent.status /\ new.key = ent.key /\ new.result = ent.result
BY DEF Written, Diff, Columns

\* A step that writes no session row and leaves one request sound.
LEMMA ConsistentQuiet ==
    ASSUME NEW u \in Users, ConsistentInv(u), DeviceInv(u)', History, UNCHANGED session,
           NEW c \in Clients, NEW new, req' = [req EXCEPT ![c] = new],
           u \notin overlapped => WholeSound(u, c)'
    PROVE  ConsistentInv(u)'
<1> SUFFICES ASSUME u \notin overlapped'
             PROVE  /\ \A s \in Sessions : session'[s].user = u => Consistent(session'[s])
                    /\ \A d \in Clients : WholeSound(u, d)'
  BY DEF ConsistentInv, Consistent
<1>0. u \notin overlapped
  BY OverlapHistory
<1>1. ASSUME NEW d \in Clients, d # c PROVE WholeSound(u, d)'
  <2>1. req'[d] = req[d]
    BY <1>1 DEF ConsistentInv, DeviceInv, TypeOK
  <2> QED BY <1>0, <2>1 DEF ConsistentInv, WholeSound, Consistent
<1> QED BY <1>0, <1>1 DEF ConsistentInv

\* A step that writes one consistent row of the user of the request: no other request is
\* about that user.
LEMMA ConsistentWrite ==
    ASSUME NEW u \in Users, ConsistentInv(u), DeviceInv(u)', History,
           NEW c \in Clients, NEW s \in Sessions, NEW row \in Rows,
           req' = [req EXCEPT ![c] = Idle], session' = [session EXCEPT ![s] = row],
           row.user \in Users, row.user = req[c].ent.user,
           session[s] = NoRow \/ session[s].user = row.user,
           u \notin overlapped /\ row.user = u => Consistent(row)
    PROVE  ConsistentInv(u)'
<1> SUFFICES ASSUME u \notin overlapped'
             PROVE  /\ \A t \in Sessions : session'[t].user = u => Consistent(session'[t])
                    /\ \A d \in Clients : WholeSound(u, d)'
  BY DEF ConsistentInv, Consistent
<1>0. u \notin overlapped
  BY OverlapHistory
<1>t. /\ TypeOK /\ req'[c] = Idle /\ \A d \in Clients : d # c => req'[d] = req[d]
      /\ \A t \in Sessions : session'[t] = IF t = s THEN row ELSE session[t]
  BY DEF ConsistentInv, DeviceInv, TypeOK
<1>1. ASSUME NEW t \in Sessions, session'[t].user = u PROVE Consistent(session'[t])
  BY <1>0, <1>1, <1>t DEF ConsistentInv
<1>2. WholeSound(u, c)'
  BY <1>t, RequestFields DEF WholeSound
<1>3. ASSUME NEW d \in Clients, d # c PROVE WholeSound(u, d)'
  <2>1. /\ WholeSound(u, d) /\ req'[d] = req[d]
        /\ req[c].ent.user = u /\ req[d].ent.user = u => c = d
    BY <1>0, <1>3, <1>t DEF ConsistentInv, DeviceInv, About
  <2>2. SUFFICES ASSUME req[d].ent.user = u, req[d].at = "reread"
                 PROVE  session'[req[d].sid] = session[req[d].sid]
    BY <2>1 DEF WholeSound
  <2>3. req[d].sid \in Sessions /\ session[req[d].sid].user = u
    BY <2>2, <1>t DEF TypeOK, Requests, ConsistentInv, DeviceInv, OwnerSound
  <2>4. row.user # u
    BY <1>3, <2>1, <2>2
  <2>5. req[d].sid # s
    BY <2>3, <2>4 DEF NoRow
  <2> QED BY <1>t, <2>3, <2>5
<1> QED BY <1>1, <1>2, <1>3

\* What one step does, while requests about the user's sessions do not overlap: no row is
\* left half finished.
LEMMA ConsistentStep ==
    ASSUME NEW u \in Users, ConsistentInv(u), [Next]_vars
    PROVE  ConsistentInv(u)'
<1>t. TypeOK /\ TypeOK' /\ DeviceInv(u) /\ DeviceInv(u)'
  BY TypeStep, DeviceStep DEF ConsistentInv, DeviceInv
<1>0. CASE UNCHANGED vars
  BY <1>0, <1>t DEF vars, ConsistentInv, WholeSound, Consistent
<1> SUFFICES ASSUME Handlers, History PROVE ConsistentInv(u)'
  BY <1>0 DEF Next
<1>1. ASSUME NEW c \in Clients, StartCheck(c) PROVE ConsistentInv(u)'
  <2>1. PICK t \in Tasks \cup {NULL} :
          req' = [req EXCEPT ![c] = Inserting(StartedRow(UserOf[c], t))]
    BY <1>1 DEF StartCheck, VisibleTasks
  <2>2. WholeSound(u, c)'
    BY <1>t, <2>1, RequestFields, EntityFields DEF WholeSound, Consistent, TypeOK
  <2> QED BY <1>1, <1>t, <2>1, <2>2, ConsistentQuiet DEF StartCheck
<1>2. ASSUME NEW c \in Clients, RecordTask(c) PROVE ConsistentInv(u)'
  <2>1. PICK r \in Results, k \in StoredKeys, t \in Tasks \cup {NULL} :
          req' = [req EXCEPT ![c] = Inserting(RecordedRow(UserOf[c], t, k, r))]
    BY <1>2 DEF RecordTask, FreeResults, StoredKeys
  <2>2. r # NULL /\ k # NULL
    BY DEF StoredKeys
  <2>3. WholeSound(u, c)'
    BY <1>t, <2>1, <2>2, RequestFields, EntityFields DEF WholeSound, Consistent, TypeOK
  <2> QED BY <1>2, <1>t, <2>1, <2>3, ConsistentQuiet DEF RecordTask
<1>3. ASSUME NEW c \in Clients, NEW s \in Sessions, FinishLoad(c, s) PROVE ConsistentInv(u)'
  <2>1. PICK r \in Results, k \in StoredKeys :
          req' = [req EXCEPT ![c] = Loaded(s, FinishedRow(session[s], k, r))]
    BY <1>3 DEF FinishLoad, FreeResults, StoredKeys
  <2>2. r # NULL /\ k # NULL
    BY DEF StoredKeys
  <2>3. WholeSound(u, c)'
    BY <1>t, <2>1, <2>2, RequestFields, EntityFields DEF WholeSound, Consistent, TypeOK
  <2> QED BY <1>3, <1>t, <2>1, <2>3, ConsistentQuiet DEF FinishLoad
<1>4. ASSUME NEW c \in Clients, NEW s \in Sessions, CancelLoad(c, s) PROVE ConsistentInv(u)'
  <2>1. /\ req' = [req EXCEPT ![c] = Loaded(s, CancelledRow(session[s]))]
        /\ session[s].status = "ACTIVE"
        /\ u \notin overlapped /\ session[s].user = u => Consistent(session[s])
    BY <1>4 DEF CancelLoad, ConsistentInv
  <2>2. u \notin overlapped => WholeSound(u, c)'
    BY <1>t, <2>1, RequestFields, EntityFields DEF WholeSound, Consistent, TypeOK
  <2> QED BY <1>4, <1>t, <2>1, <2>2, ConsistentQuiet DEF CancelLoad
<1>5. ASSUME NEW c \in Clients, NEW s \in Sessions, VerifyLoad(c, s) PROVE ConsistentInv(u)'
  <2>1. PICK v \in Verdicts :
          req' = [req EXCEPT ![c] = Loaded(s, VerifiedRow(session[s], v, UserOf[c]))]
    BY <1>5 DEF VerifyLoad
  <2>2. u \notin overlapped /\ session[s].user = u => Consistent(session[s])
    BY DEF ConsistentInv
  <2>3. u \notin overlapped => WholeSound(u, c)'
    BY <1>t, <2>1, <2>2, RequestFields, EntityFields DEF WholeSound, Consistent, TypeOK
  <2> QED BY <1>5, <1>t, <2>1, <2>3, ConsistentQuiet DEF VerifyLoad
<1>6. ASSUME NEW c \in Clients, InsertRow(c) PROVE ConsistentInv(u)'
  <2>1. PICK s \in Sessions : session[s] = NoRow /\ session' = [session EXCEPT ![s] = req[c].ent]
    BY <1>6 DEF InsertRow, FreeSessions
  <2>2. /\ req[c].ent \in Rows /\ req[c].ent.user \in Users
        /\ u \notin overlapped /\ req[c].ent.user = u => Consistent(req[c].ent)
        /\ req' = [req EXCEPT ![c] = Idle]
    BY <1>6, <1>t DEF InsertRow, TypeOK, Requests, ConsistentInv, WholeSound, DeviceInv, OwnerSound
  <2> QED BY <1>t, <2>1, <2>2, ConsistentWrite
<1>7. ASSUME NEW c \in Clients, InsertFails(c) \/ SaveFails(c) PROVE ConsistentInv(u)'
  <2>1. UNCHANGED session /\ req' = [req EXCEPT ![c] = Idle]
    BY <1>7 DEF InsertFails, SaveFails
  <2>2. WholeSound(u, c)'
    BY <1>t, <2>1, RequestFields DEF WholeSound, TypeOK
  <2> QED BY <1>t, <2>1, <2>2, ConsistentQuiet
<1>8. ASSUME NEW c \in Clients, Reread(c) PROVE ConsistentInv(u)'
  <2>1. /\ req'[c].sid = req[c].sid /\ req'[c].ent = req[c].ent
        /\ req'[c].cols = Diff(req[c].ent, session[req[c].sid])
        /\ req'[c].seen = session[req[c].sid].result
        /\ req[c].at = "loaded" /\ UNCHANGED session
    BY <1>8, <1>t DEF Reread, TypeOK, Requests
  <2>2. u \notin overlapped /\ req[c].ent.user = u => Consistent(req[c].ent)
    BY <2>1 DEF ConsistentInv, WholeSound
  <2>3. u \notin overlapped => WholeSound(u, c)'
    BY <2>1, <2>2 DEF WholeSound
  <2> QED BY <1>8, <1>t, <2>1, <2>3, ConsistentQuiet DEF Reread
<1>9. ASSUME NEW c \in Clients, SaveWrite(c) PROVE ConsistentInv(u)'
  <2>1. /\ req[c].sid \in Sessions /\ session[req[c].sid] \in Rows /\ req[c].ent \in Rows
        /\ session[req[c].sid].user = req[c].ent.user /\ req[c].ent.user \in Users
    BY <1>9, <1>t DEF SaveWrite, TypeOK, Requests, DeviceInv, OwnerSound
  <2>2. u \notin overlapped /\ req[c].ent.user = u =>
          /\ Consistent(req[c].ent)
          /\ req[c].cols = Diff(req[c].ent, session[req[c].sid])
          /\ req[c].seen = session[req[c].sid].result
    BY <1>9 DEF SaveWrite, ConsistentInv, WholeSound
  <2>3. PICK row : row = Written(session[req[c].sid], req[c].ent, req[c].cols, req[c].seen)
    OBVIOUS
  <2>4. row \in Rows /\ row.user = session[req[c].sid].user
    <3>1. row \in Rows
      BY <2>1, <2>3, WrittenType
    <3> QED BY <2>3, <3>1 DEF Written
  <2>5. ASSUME u \notin overlapped, row.user = u PROVE Consistent(row)
    <3>1. /\ row.status = req[c].ent.status /\ row.key = req[c].ent.key
          /\ row.result = req[c].ent.result
      BY <2>1, <2>2, <2>3, <2>4, <2>5, WrittenWhole
    <3> QED BY <2>1, <2>2, <2>4, <2>5, <3>1 DEF Consistent
  <2>6. session' = [session EXCEPT ![req[c].sid] = row] /\ req' = [req EXCEPT ![c] = Idle]
    BY <1>9, <1>t, <2>1, <2>3 DEF SaveWrite
  <2> QED BY <1>t, <2>1, <2>4, <2>5, <2>6, ConsistentWrite
<1>10. ASSUME NEW c \in Clients, Answered(c) PROVE ConsistentInv(u)'
  <2>1. UNCHANGED <<session, req>> /\ overlapped \subseteq overlapped'
    BY <1>10 DEF Answered, History
  <2> QED BY <1>t, <2>1 DEF ConsistentInv, WholeSound, Consistent
<1> QED
  BY <1>1, <1>2, <1>3, <1>4, <1>5, <1>6, <1>7, <1>8, <1>9, <1>10 DEF Handlers

\* Until two requests about a user's sessions overlap, and for ever where only starts,
\* finishes and recordings do, a row is FINISHED exactly when it has its key and its result
\* (finish 95-108, record 152-166, cancel 183-186, verifySession 386-390).
THEOREM ConsistentTheorem == Spec => []RowConsistent
<1>1. CASE ~OnlyStartsAndFinishes
  <2> DEFINE Inv == TypeOK /\ \A u \in Users : ConsistentInv(u)
  <2>1. Init => Inv
    <3> SUFFICES ASSUME Init PROVE Inv
      OBVIOUS
    <3>1. TypeOK
      BY RowTypes DEF Init, TypeOK
    <3>2. ASSUME NEW u \in Users PROVE ConsistentInv(u)
      <4>1. DeviceInv(u)
        BY DeviceInit
      <4> QED BY <4>1, RequestFields DEF Init, ConsistentInv, WholeSound, Consistent, NoRow
    <3> QED BY <3>1, <3>2
  <2>2. Inv /\ [Next]_vars => Inv'
    BY ConsistentStep, TypeStep
  <2>3. Inv => RowConsistent
    BY <1>1 DEF RowConsistent, ConsistentInv, Consistent
  <2> HIDE DEF Inv
  <2> QED BY <2>1, <2>2, <2>3, PTL DEF Spec
<1>2. CASE OnlyStartsAndFinishes
  <2>1. RetryInv /\ [Next]_vars => RetryInv'
    BY <1>2, RetryStep
  <2>2. RetryInv => RowConsistent
    BY DEF RetryInv, RowSound, RowConsistent
  <2> QED BY <2>1, <2>2, RetryInit, PTL DEF Spec
<1> QED BY <1>1, <1>2
=============================================================================
