------------------------------ MODULE Accounts ------------------------------
(***************************************************************************)
(* Users and their sessions: AuthService (login, refresh, logout) and      *)
(* UsersService (roles, connections of mentors and students, deletion),    *)
(* over tables user, user_students and connection_request.                 *)
(*                                                                         *)
(* Every await is a point where other requests interleave. save(user) reads*)
(* the row and the loaded relations again, and then writes what differs    *)
(* from the entity in one transaction.                                     *)
(*                                                                         *)
(* Abstractions: a user is identified with the user's e-mail address; of a *)
(* mentor code only whether there is one is told apart; tokens do not      *)
(* expire by time. bcrypt hashes the first 72 bytes of a token, which do   *)
(* not depend on when it was issued, so the stored hash matches every      *)
(* refresh token of its user: of the hash only whether there is one counts.*)
(* There are no administrators. A mentor without a code, whom              *)
(* ensureMentorCode repairs, takes four overlapping requests of one user.  *)
(***************************************************************************)
EXTENDS Naturals

CONSTANTS
    Users,
    Newcomers,  \* users who are not registered at first
    Mentors,    \* the registered users who are mentors at first
    Owners,     \* users with tasks, sessions or evidence: the database keeps the user
    Clients,    \* connections: each has at most one request in flight
    Requests,   \* bound: ids of connection_request rows
    MaxVersion, \* bound: token versions are 0..MaxVersion
    Mixes,      \* what the clients of a behaviour do: see `mix'
    NULL

Ops == {"register", "login", "refresh", "logout", "password", "rename", "switch",
        "code", "request", "respond", "unlink", "delete"}

ASSUME ConstantsAssumption ==
    /\ Newcomers \subseteq Users /\ Mentors \subseteq Users \ Newcomers
    /\ Owners \subseteq Users
    /\ MaxVersion \in Nat
    /\ Mixes \subseteq [ops : SUBSET Ops, of : UNION {[C -> Users] : C \in SUBSET Clients},
                        serial : BOOLEAN, tears : BOOLEAN]
    /\ NULL \notin Users \cup Requests

VARIABLES
    user,     \* table user
    students, \* table user_students: <<mentor, student>>
    request,  \* table connection_request
    issued,   \* <<u, v>>: u was given a pair of tokens of version v
    req,      \* per client, the request in flight
    entered,  \* history: users who gave their password since their sessions were revoked
    approved, \* history: <<mentor, student>> of the requests ever approved
    mix       \* the endpoints called, by whom, whether requests about one user wait for
              \* each other, and whether a request may end between two of its writes

vars == <<user, students, request, issued, req, entered, approved, mix>>

Versions == 0..MaxVersion
Roles == {"NEW", "STUDENT", "MENTOR", "DELETED"}
UserRows == [role : Roles, switched : BOOLEAN, code : BOOLEAN, version : Versions,
             hash : BOOLEAN]
Columns == {"role", "switched", "code", "version", "hash"}
Statuses == {"NONE", "PENDING", "APPROVED", "REJECTED"}
RequestRows == [status : Statuses, student : Users \cup {NULL}, mentor : Users \cup {NULL}]

NewUser == [role |-> "NEW", switched |-> FALSE, code |-> FALSE, version |-> 0, hash |-> FALSE]
NoRequest == [status |-> "NONE", student |-> NULL, mentor |-> NULL]

(***************************************************************************)
(* A request in flight. `about': the users whose rows or connections it    *)
(* reads and writes; `op': its endpoint; `user', `ent', `rel': the entity  *)
(* it is about to save, and its connections as far as they are loaded      *)
(* (`side'); `cols', `add', `del', `insert': what its save() has to write; *)
(* `peer': the student of the pair; `row', `rows': connection requests.    *)
(***************************************************************************)
Ats == {"idle", "enter", "issue", "loaded", "reread", "insert", "answer", "assign",
        "unlinked", "reject", "purge", "erase"}
Pairs == Users \X Users
InFlight ==
    [at : Ats, op : Ops, about : SUBSET Users, user : Users \cup {NULL}, ent : UserRows,
     side : {"none", "students", "both"}, rel : SUBSET Pairs, cols : SUBSET Columns,
     add : SUBSET Pairs, del : SUBSET Pairs, insert : BOOLEAN, peer : Users \cup {NULL},
     row : Requests \cup {NULL}, rows : SUBSET Requests, status : Statuses]

Idle == [at |-> "idle", op |-> "login", about |-> {}, user |-> NULL, ent |-> NewUser,
         side |-> "none", rel |-> {}, cols |-> {}, add |-> {}, del |-> {}, insert |-> FALSE,
         peer |-> NULL, row |-> NULL, rows |-> {}, status |-> "NONE"]

TypeOK ==
    /\ user \in [Users -> UserRows]
    /\ students \subseteq Pairs
    /\ request \in [Requests -> RequestRows]
    /\ issued \subseteq Users \X Versions
    /\ \A c \in Clients : \E q \in {req[c]} :
         /\ DOMAIN q = DOMAIN Idle
         /\ q.at \in Ats /\ q.op \in Ops /\ q.user \in Users \cup {NULL}
         /\ q.ent \in UserRows /\ q.rel \cup q.add \cup q.del \subseteq Pairs
         /\ q.row \in Requests \cup {NULL} /\ q.rows \subseteq Requests
    /\ entered \subseteq Users
    /\ approved \subseteq Pairs
    /\ mix \in Mixes

Registered(u) ==
    [NewUser EXCEPT !.role = IF u \in Mentors THEN "MENTOR" ELSE "STUDENT",
                    !.code = u \in Mentors, !.hash = TRUE]

\* Whoever is registered has logged in once.
Init ==
    /\ user = [u \in Users |-> IF u \in Newcomers THEN NewUser ELSE Registered(u)]
    /\ students = {}
    /\ request = [r \in Requests |-> NoRequest]
    /\ issued = {<<u, 0>> : u \in Users \ Newcomers}
    /\ req = [c \in Clients |-> Idle]
    /\ entered = Users \ Newcomers
    /\ approved = {}
    /\ mix \in Mixes

-----------------------------------------------------------------------------

Exists(u) == user[u].role \in {"STUDENT", "MENTOR"}
Me(c) == mix.of[c]

\* The client starts a request about these users.
Starts(c, op, us) ==
    /\ op \in mix.ops /\ c \in DOMAIN mix.of
    /\ req[c] = Idle
    /\ Exists(Me(c))
    /\ mix.serial => \A d \in Clients : req[d].about \cap us = {}

Goes(c, q) == req' = [req EXCEPT ![c] = q]

About(op, us) == [Idle EXCEPT !.op = op, !.about = us]

-----------------------------------------------------------------------------
(* AuthService.                                                             *)

\* create() inserts a user whose address is new (UNIQUE), register goes on to login().
Register(c, role) ==
    LET u == Me(c) IN
    /\ "register" \in mix.ops /\ c \in DOMAIN mix.of /\ req[c] = Idle
    /\ user[u].role = "NEW"
    /\ user' = [user EXCEPT ![u] = [NewUser EXCEPT !.role = role, !.code = role = "MENTOR"]]
    /\ entered' = entered \cup {u}
    /\ Goes(c, [About("register", {u}) EXCEPT !.at = "enter", !.user = u, !.ent = NewUser])
    /\ UNCHANGED <<students, request, issued, approved, mix>>

\* The password is right.
Login(c) ==
    LET u == Me(c) IN
    /\ Starts(c, "login", {u})
    /\ entered' = entered \cup {u}
    /\ Goes(c, [About("login", {u}) EXCEPT !.at = "enter", !.user = u, !.ent = user[u]])
    /\ UNCHANGED <<user, students, request, issued, approved, mix>>

\* The client has a refresh token of the stored version, and a hash is stored.
Refresh(c) ==
    LET u == Me(c) IN
    /\ Starts(c, "refresh", {u})
    /\ user[u].hash
    /\ <<u, user[u].version>> \in issued
    /\ Goes(c, [About("refresh", {u}) EXCEPT !.at = "enter", !.user = u, !.ent = user[u]])
    /\ UNCHANGED <<user, students, request, issued, entered, approved, mix>>

\* login() reads the user again: the tokens get the version that is stored now.
Sign(c) ==
    LET q == req[c] IN
    /\ q.at = "enter"
    /\ Goes(c, [q EXCEPT !.at = "issue", !.ent = IF Exists(q.user) THEN user[q.user] ELSE @])
    /\ UNCHANGED <<user, students, request, issued, entered, approved, mix>>

\* ... the hash of the refresh token is stored, if there is a row, and the pair sent.
StoreHash(c) ==
    LET q == req[c] IN
    /\ q.at = "issue"
    /\ user' = [user EXCEPT ![q.user].hash = @ \/ Exists(q.user)]
    /\ issued' = issued \cup {<<q.user, q.ent.version>>}
    /\ Goes(c, Idle)
    /\ UNCHANGED <<students, request, entered, approved, mix>>

-----------------------------------------------------------------------------
(* The endpoints that load a user, change the entity and save it.           *)

\* The connections of u that are loaded with the entity.
Connections(u, side) ==
    {p \in students : \/ side # "none" /\ p[1] = u
                      \/ side = "both" /\ p[2] = u}

Holding(op, us, u, ent, side, rel) ==
    [About(op, us) EXCEPT !.at = "loaded", !.user = u, !.ent = ent, !.side = side, !.rel = rel]

\* Fault: the version stays.
RevokedKeepingVersion(row) == [row EXCEPT !.hash = FALSE]

\* Sessions are revoked by the next token version.
Revoked(row) == [row EXCEPT !.version = @ + 1, !.hash = FALSE]

\* logout: revokeAllUserSessions loads no relations.
Logout(c) ==
    LET u == Me(c) IN
    /\ Starts(c, "logout", {u})
    /\ user[u].version < MaxVersion
    /\ Goes(c, Holding("logout", {u}, u, Revoked(user[u]), "none", {}))
    /\ UNCHANGED <<user, students, request, issued, entered, approved, mix>>

\* update with a new password.
ChangePassword(c) ==
    LET u == Me(c) IN
    /\ Starts(c, "password", {u})
    /\ user[u].version < MaxVersion
    /\ Goes(c, Holding("password", {u}, u, Revoked(user[u]), "both", Connections(u, "both")))
    /\ UNCHANGED <<user, students, request, issued, entered, approved, mix>>

\* update of the name: no column of the model changes.
Rename(c) ==
    LET u == Me(c) IN
    /\ Starts(c, "rename", {u})
    /\ Goes(c, Holding("rename", {u}, u, user[u], "both", Connections(u, "both")))
    /\ UNCHANGED <<user, students, request, issued, entered, approved, mix>>

\* refreshMentorCode: a mentor gets another code; the 12 hours have passed.
RefreshCode(c) ==
    LET u == Me(c) IN
    /\ Starts(c, "code", {u})
    /\ user[u].role = "MENTOR"
    /\ Goes(c, Holding("code", {u}, u, [user[u] EXCEPT !.code = TRUE], "none", {}))
    /\ UNCHANGED <<user, students, request, issued, entered, approved, mix>>

OtherRole(row) ==
    IF row.role = "MENTOR" THEN [row EXCEPT !.role = "STUDENT", !.switched = TRUE]
    ELSE [row EXCEPT !.role = "MENTOR", !.switched = TRUE, !.code = TRUE]

\* Fault: the privilege is not looked at.
SwitchRoleAgain(c) ==
    LET u == Me(c) IN
    /\ Starts(c, "switch", {u})
    /\ Goes(c, Holding("switch", {u}, u, OtherRole(user[u]), "both", Connections(u, "both")))
    /\ UNCHANGED <<user, students, request, issued, entered, approved, mix>>

\* switchRole, once. A mentor who becomes a student keeps the code.
SwitchRole(c) ==
    LET u == Me(c) IN
    /\ Starts(c, "switch", {u})
    /\ ~user[u].switched
    /\ Goes(c, Holding("switch", {u}, u, OtherRole(user[u]), "both", Connections(u, "both")))
    /\ UNCHANGED <<user, students, request, issued, entered, approved, mix>>

\* remove begins with a save of the user without any connection.
Delete(c) ==
    LET u == Me(c) IN
    /\ Starts(c, "delete", Users)
    /\ Goes(c, Holding("delete", Users, u, user[u], "both", {}))
    /\ UNCHANGED <<user, students, request, issued, entered, approved, mix>>

\* Either side ends the connection of mentor m and student s, which there need not be.
Unlink(c, m, s) ==
    /\ Starts(c, "unlink", {m, s})
    /\ Me(c) \in {m, s}
    /\ Exists(m)
    /\ Goes(c, [Holding("unlink", {m, s}, m, user[m], "students",
                        Connections(m, "students") \ {<<m, s>>}) EXCEPT !.peer = s])
    /\ UNCHANGED <<user, students, request, issued, entered, approved, mix>>

-----------------------------------------------------------------------------
(* Connection requests.                                                     *)

\* A student with the code of a mentor; there is no pending request of the two.
RequestCheck(c, m) ==
    LET u == Me(c) IN
    /\ Starts(c, "request", {u, m})
    /\ user[u].role = "STUDENT"
    /\ Exists(m) /\ user[m].code
    /\ ~ \E r \in Requests : request[r] = [status |-> "PENDING", student |-> u, mentor |-> m]
    /\ Goes(c, [About("request", {u, m}) EXCEPT !.at = "insert", !.user = m, !.peer = u])
    /\ UNCHANGED <<user, students, request, issued, entered, approved, mix>>

\* The foreign keys refuse a request of users who are gone.
InsertRequest(c) ==
    LET q == req[c] IN
    /\ q.at = "insert"
    /\ Exists(q.user) /\ Exists(q.peer)
    /\ \E r \in Requests :
         /\ request[r].status = "NONE"
         /\ request' = [request EXCEPT ![r] = [status |-> "PENDING", student |-> q.peer,
                                               mentor |-> q.user]]
    /\ Goes(c, Idle)
    /\ UNCHANGED <<user, students, issued, entered, approved, mix>>

\* The request is for this mentor and has no answer yet.
Open(r, m) == request[r].mentor = m /\ request[r].status = "PENDING"

\* Fault: the answer is stored as it was sent.
RespondAsSent(c, r, status) ==
    /\ Starts(c, "respond", {Me(c), request[r].student})
    /\ Open(r, Me(c))
    /\ Goes(c, [About("respond", {Me(c), request[r].student}) EXCEPT
                  !.at = "answer", !.user = Me(c), !.peer = request[r].student,
                  !.row = r, !.status = "MAYBE"])
    /\ UNCHANGED <<user, students, request, issued, entered, approved, mix>>

\* Any other word than "approved" refuses.
Respond(c, r, status) ==
    /\ Starts(c, "respond", {Me(c), request[r].student})
    /\ Open(r, Me(c))
    /\ Goes(c, [About("respond", {Me(c), request[r].student}) EXCEPT
                  !.at = "answer", !.user = Me(c), !.peer = request[r].student,
                  !.row = r, !.status = status])
    /\ UNCHANGED <<user, students, request, issued, entered, approved, mix>>

AfterAnswer(q) == IF q.status = "APPROVED" THEN [q EXCEPT !.at = "assign"] ELSE Idle

\* save(request): an UPDATE of the status. When the request was deleted meanwhile,
\* nothing is updated, or save() saw that and inserts it again if the users are there.
StoreAnswer(c) ==
    LET q == req[c]
        answered == [status |-> q.status, student |-> q.peer, mentor |-> q.user]
    IN
    /\ q.at = "answer"
    /\ \/ /\ request[q.row].status # "NONE" \/ (Exists(q.user) /\ Exists(q.peer))
          /\ request' = [request EXCEPT ![q.row] = answered]
       \/ /\ request[q.row].status = "NONE"
          /\ UNCHANGED request
    /\ approved' = approved \cup (IF q.status = "APPROVED" THEN {<<q.user, q.peer>>} ELSE {})
    /\ Goes(c, AfterAnswer(q))
    /\ UNCHANGED <<user, students, issued, entered, mix>>

\* assignStudent loads the mentor with the students, and the student. It ends when
\* one is gone, or the connection is there.
Assign(c) ==
    LET q == req[c] IN
    /\ q.at = "assign"
    /\ Goes(c, IF /\ Exists(q.user) /\ Exists(q.peer)
                  /\ <<q.user, q.peer>> \notin students
               THEN [Holding("respond", q.about, q.user, user[q.user], "students",
                             Connections(q.user, "students") \cup {<<q.user, q.peer>>})
                       EXCEPT !.peer = q.peer]
               ELSE Idle)
    /\ UNCHANGED <<user, students, request, issued, entered, approved, mix>>

ApprovedOf(m, s) ==
    {r \in Requests : request[r] = [status |-> "APPROVED", student |-> s, mentor |-> m]}

\* Fault: removeStudent ends with the connection.
LeaveApproved(c) ==
    /\ req[c].at = "unlinked"
    /\ Goes(c, Idle)
    /\ UNCHANGED <<user, students, request, issued, entered, approved, mix>>

\* removeStudent goes on to the approved requests of the two ...
FindApproved(c) ==
    LET q == req[c]  rs == ApprovedOf(q.user, q.peer) IN
    /\ q.at = "unlinked"
    /\ Goes(c, IF rs = {} THEN Idle
               ELSE [About("unlink", q.about) EXCEPT !.at = "reject", !.user = q.user,
                                                     !.peer = q.peer, !.rows = rs])
    /\ UNCHANGED <<user, students, request, issued, entered, approved, mix>>

\* ... and saves one after the other as rejected. They are loaded without their users:
\* a request that was deleted meanwhile may come back as a row of nobody.
RejectOne(c, r) ==
    LET q == req[c]  gone == request[r].status = "NONE" IN
    /\ q.at = "reject" /\ r \in q.rows
    /\ \/ request' = [request EXCEPT ![r].status = "REJECTED"]
       \/ gone /\ UNCHANGED request
    /\ Goes(c, IF q.rows = {r} THEN Idle ELSE [q EXCEPT !.rows = @ \ {r}])
    /\ UNCHANGED <<user, students, issued, entered, approved, mix>>

-----------------------------------------------------------------------------
(* save(user).                                                              *)

\* The row and the loaded relations are read again, and compared.
Reread(c) ==
    LET q == req[c]  now == Connections(q.user, q.side) IN
    /\ q.at = "loaded"
    /\ Goes(c, [q EXCEPT !.at = "reread", !.insert = ~Exists(q.user),
                         !.cols = {f \in Columns : q.ent[f] # user[q.user][f]},
                         !.add = q.rel \ now, !.del = now \ q.rel])
    /\ UNCHANGED <<user, students, request, issued, entered, approved, mix>>

\* What a request does after its save of a user.
AfterSave(q) ==
    CASE q.op = "unlink" -> [About("unlink", q.about) EXCEPT !.at = "unlinked",
                                  !.user = q.user, !.peer = q.peer]
      [] q.op = "delete" -> [About("delete", q.about) EXCEPT !.at = "purge", !.user = q.user]
      [] OTHER -> Idle

\* New connections need both users and must not be there (primary key).
Insertable(q) ==
    /\ q.add \cap students = {}
    /\ \A p \in q.add, i \in {1, 2} : Exists(p[i]) \/ (q.insert /\ p[i] = q.user)

\* One transaction: the changed columns (of a row that is gone: none) or a new row,
\* and the connections. Or it fails as a whole, and so does the request.
SaveWrite(c) ==
    LET q == req[c]  u == q.user IN
    /\ q.at = "reread"
    /\ \/ /\ Insertable(q)
          /\ ~(q.insert /\ Exists(u))
          /\ user' = [user EXCEPT ![u] =
                        IF q.insert THEN q.ent
                        ELSE IF ~Exists(u) THEN @
                        ELSE [f \in Columns |-> IF f \in q.cols THEN q.ent[f] ELSE @[f]]]
          /\ students' = (students \cup q.add) \ q.del
          /\ entered' = IF q.op \in {"logout", "password"} THEN entered \ {u} ELSE entered
          /\ Goes(c, AfterSave(q))
       \/ /\ ~Insertable(q) \/ (q.insert /\ Exists(u))
          /\ Goes(c, Idle)
          /\ UNCHANGED <<user, students, entered>>
    /\ UNCHANGED <<request, issued, approved, mix>>

\* remove deletes the requests of the user as a student, then as a mentor.
Purge(c) ==
    LET q == req[c]  mine == IF q.side = "none" THEN "student" ELSE "mentor" IN
    /\ q.at = "purge"
    /\ request' = [r \in Requests |-> IF request[r][mine] = q.user THEN NoRequest
                                      ELSE request[r]]
    /\ Goes(c, IF mine = "student" THEN [q EXCEPT !.side = "students"]
               ELSE [q EXCEPT !.at = "erase"])
    /\ UNCHANGED <<user, students, issued, entered, approved, mix>>

\* At last the row is deleted, with what refers to it and cascades. The rows of an
\* owner do not: the statement fails.
Erase(c) ==
    LET q == req[c]  u == q.user IN
    /\ q.at = "erase"
    /\ Goes(c, Idle)
    /\ IF u \in Owners THEN UNCHANGED <<user, students, request>>
       ELSE /\ user' = [user EXCEPT ![u] = [NewUser EXCEPT !.role = "DELETED"]]
            /\ students' = {p \in students : u \notin {p[1], p[2]}}
            /\ request' = [r \in Requests |->
                             IF u \in {request[r].student, request[r].mentor}
                             THEN NoRequest ELSE request[r]]
    /\ UNCHANGED <<issued, entered, approved, mix>>

\* Points between two writes that belong together.
Torn(q) ==
    \/ q.at \in {"assign", "unlinked", "reject", "purge", "erase"}
    \/ q.op = "respond" /\ q.at \in {"loaded", "reread"}

\* A request ends early: a statement fails, the process or the connection dies.
Abort(c) ==
    /\ req[c] # Idle
    /\ Torn(req[c]) => mix.tears
    /\ Goes(c, Idle)
    /\ UNCHANGED <<user, students, request, issued, entered, approved, mix>>

Next ==
    \E c \in Clients :
        \/ \E role \in {"STUDENT", "MENTOR"} : Register(c, role)
        \/ Login(c) \/ Refresh(c) \/ Sign(c) \/ StoreHash(c)
        \/ Logout(c) \/ ChangePassword(c) \/ Rename(c) \/ RefreshCode(c) \/ SwitchRole(c)
        \/ Delete(c)
        \/ \E m, s \in Users : Unlink(c, m, s)
        \/ \E m \in Users : RequestCheck(c, m)
        \/ InsertRequest(c)
        \/ \E r \in Requests, status \in {"APPROVED", "REJECTED"} : Respond(c, r, status)
        \/ StoreAnswer(c) \/ Assign(c)
        \/ FindApproved(c)
        \/ \E r \in Requests : RejectOne(c, r)
        \/ Reread(c) \/ SaveWrite(c)
        \/ Purge(c) \/ Erase(c)
        \/ Abort(c)

Spec == Init /\ [][Next]_vars

-----------------------------------------------------------------------------
(* Properties.                                                              *)

\* Who has a token that is accepted has given the password since the last logout or
\* change of it: what auth.controller.ts:66 promises of a logout.
NoSessionWithoutPassword ==
    \A u \in Users : Exists(u) /\ <<u, user[u].version>> \in issued => u \in entered

\* That is so while the requests about one user do not overlap: refreshes, changes of
\* the name and of the role do not bring revoked tokens back (auth.service 77-108,
\* users.service 64-71, 157-202).
RevokedSessionsEnd == mix.serial => NoSessionWithoutPassword

\* u's connection with s is being made or ended by a request in flight.
InTheMaking(m, s) ==
    \E c \in Clients : /\ {m, s} \subseteq req[c].about
                       /\ req[c].op \in {"respond", "unlink", "delete"}

\* Whatever overlaps and fails, a student is connected to a mentor only if the mentor
\* approved a request once: a stale set of connections may bring back an old one, never
\* make one. While requests about one user do not overlap, only approved requests connect,
\* and when none ends between two writes every approved one does, until one side ends it
\* or is deleted (users.service 115-139, 262-345).
ConnectedIffApproved ==
    /\ students \subseteq approved
    /\ mix.serial => \A m, s \in Users :
         /\ <<m, s>> \in students => ApprovedOf(m, s) # {}
         /\ ApprovedOf(m, s) # {} /\ ~mix.tears =>
                <<m, s>> \in students \/ InTheMaking(m, s)

\* The role changes once, the token version does not go back, a deleted user does not
\* come back: however the endpoints follow each other, while they do not overlap.
ForwardStep ==
    \A u \in Users :
        LET old == user[u]  new == user'[u] IN
        /\ Exists(u) /\ new.role # old.role => new.role = "DELETED" \/ ~old.switched
        /\ Exists(u) /\ new.role # "DELETED" =>
               new.version >= old.version /\ (old.switched => new.switched)
        /\ old.role = "DELETED" => new = old

AccountForward == [][mix.serial => ForwardStep]_vars
=============================================================================
