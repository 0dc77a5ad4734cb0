----------------------------- MODULE AccountsProofs -----------------------------
(***************************************************************************)
(* Theorems about Accounts, for every value of its constants: any number   *)
(* of users, clients and connection requests, any highest token version,   *)
(* and any mixes.                                                          *)
(***************************************************************************)
EXTENDS Accounts, TLAPS

USE ConstantsAssumption

(***************************************************************************)
(* What a request is, stage by stage. The proofs keep apart what holds     *)
(* whatever overlaps (Staged, Known, Linked) and what holds while requests *)
(* about one user wait for each other (Current).                           *)
(***************************************************************************)
Entering == {"register", "login", "refresh"}
Revoking == {"logout", "password"}
Saving == Revoking \cup {"rename", "switch", "code", "respond", "unlink", "delete"}
OfPair == {"request", "respond", "unlink"}

Staged(q) ==
    /\ q.at = "idle" => q = Idle
    /\ q.at # "idle" =>
         /\ q.user \in Users
         /\ q.op \in OfPair => q.peer \in Users /\ q.about = {q.user, q.peer}
         /\ q.op = "delete" => q.about = Users
         /\ q.op \notin OfPair \cup {"delete"} => q.about = {q.user}
    /\ q.at \in {"enter", "issue"} => q.op \in Entering
    /\ q.at \in {"loaded", "reread"} => q.op \in Saving
    /\ q.at = "insert" => q.op = "request"
    /\ q.at \in {"answer", "assign"} => q.op = "respond"
    /\ q.at = "answer" => q.row \in Requests /\ q.status \in {"APPROVED", "REJECTED"}
    /\ q.at \in {"unlinked", "reject"} => q.op = "unlink"
    /\ q.at \in {"purge", "erase"} => q.op = "delete"

\* The types; a free id is of nobody, and an open request of two users.
Typed ==
    /\ user \in [Users -> UserRows]
    /\ students \subseteq Pairs
    /\ request \in [Requests -> RequestRows]
    /\ issued \subseteq Users \X Versions
    /\ req \in [Clients -> InFlight]
    /\ entered \subseteq Users
    /\ approved \subseteq Pairs
    /\ mix \in Mixes
    /\ \A c \in Clients : Staged(req[c])
    /\ \A r \in Requests :
         /\ request[r].status = "NONE" => request[r] = NoRequest
         /\ request[r].status = "PENDING" =>
                request[r].student \in Users /\ request[r].mentor \in Users

\* The users whose rows a request relies on. They are registered: nobody has to wait
\* for a registration.
Key(q) == IF q.op \in {"request", "respond"} THEN {q.user, q.peer} ELSE {q.user}

Known(q) ==
    /\ q.at # "idle" => \A v \in Key(q) : user[v].role # "NEW"
    /\ q.at \in {"loaded", "reread"} => q.ent.role # "NEW"

KnownInv ==
    /\ \A c \in Clients : Known(req[c])
    /\ \A u \in Users, v \in Versions : <<u, v>> \in issued => user[u].role # "NEW"
    /\ \A r \in Requests :
         request[r].status = "PENDING" =>
             user[request[r].student].role # "NEW" /\ user[request[r].mentor].role # "NEW"

\* Whatever a request is about to connect was approved.
Linked(q) ==
    /\ q.rel \subseteq approved /\ q.add \subseteq approved
    /\ q.at = "assign" => <<q.user, q.peer>> \in approved

LinkedInv ==
    /\ students \subseteq approved
    /\ \A c \in Clients : Linked(req[c])

\* Two requests are about different users, except a registration, which waits for
\* nobody, and the end of a connection or an account of others.
Clear(p, q) ==
    \/ p.about \cap q.about = {}
    \/ /\ p.op = "register" /\ q.op \in {"unlink", "delete"}
       /\ p.user # q.user

Apart == mix.serial => \A c, d \in Clients : c # d => Clear(req[c], req[d]) \/ Clear(req[d], req[c])

\* The entity that is saved differs from the row by what its endpoint changes.
Ahead(q) ==
    LET row == user[q.user] IN
    /\ q.ent.role \in {"STUDENT", "MENTOR"}
    /\ q.ent.role # row.role => ~row.switched
    /\ row.switched => q.ent.switched
    /\ q.op \in Revoking => q.ent.version = row.version + 1
    /\ q.op \notin Revoking => q.ent.version = row.version

\* The connections that the save leaves.
Wanted(q) ==
    LET now == Connections(q.user, q.side) IN
    CASE q.op = "respond" -> now \cup {<<q.user, q.peer>>}
      [] q.op = "unlink"  -> now \ {<<q.user, q.peer>>}
      [] q.op = "delete"  -> {}
      [] OTHER            -> now

Current(q) ==
    /\ q.at # "idle" => \A v \in Key(q) : Exists(v)
    /\ q.at \in {"enter", "issue"} => q.user \in entered
    /\ q.at = "issue" => q.ent.version = user[q.user].version
    /\ q.at \in {"loaded", "reread"} =>
         /\ Ahead(q)
         /\ q.rel = Wanted(q)
         /\ q.op \in {"respond", "unlink"} => q.side = "students"
         /\ q.op = "delete" => q.side = "both"
    /\ q.at = "reread" =>
         /\ ~q.insert
         /\ q.cols = {f \in Columns : q.ent[f] # user[q.user][f]}
         /\ q.add = q.rel \ Connections(q.user, q.side)
         /\ q.del = Connections(q.user, q.side) \ q.rel
    /\ q.at = "answer" =>
         request[q.row] = [status |-> "PENDING", student |-> q.peer, mentor |-> q.user]
    /\ q.op = "respond" /\ q.at \in {"assign", "loaded", "reread"} =>
         ApprovedOf(q.user, q.peer) # {}
    /\ q.at \in {"unlinked", "reject"} => <<q.user, q.peer>> \notin students
    /\ q.at = "reject" => q.rows = ApprovedOf(q.user, q.peer)
    /\ q.at \in {"purge", "erase"} => \A p \in students : q.user \notin {p[1], p[2]}
    /\ q.at = "purge" /\ q.side # "none" => \A r \in Requests : request[r].student # q.user
    /\ q.at = "erase" =>
         \A r \in Requests : q.user \notin {request[r].student, request[r].mentor}

\* The connection of m and s is on the way, or on the way out, so far that it is torn if
\* the request ends here.
Makes(q, m, s) ==
    \/ /\ q.op = "respond" /\ q.user = m /\ q.peer = s
       /\ q.at \in {"assign", "loaded", "reread"}
    \/ q.user = m /\ q.peer = s /\ q.at \in {"unlinked", "reject"}
    \/ q.user \in {m, s} /\ q.at \in {"purge", "erase"}

\* No version was issued that is still to come.
Versioned ==
    \A u \in Users, v \in Versions : <<u, v>> \in issued /\ Exists(u) => v <= user[u].version

\* A connection request is of two users.
OfUsers ==
    \A r \in Requests : request[r].status # "NONE" =>
        /\ request[r].student \in Users /\ request[r].mentor \in Users
        /\ Exists(request[r].student) /\ Exists(request[r].mentor)

Backed == \A m, s \in Users : <<m, s>> \in students => ApprovedOf(m, s) # {}

Answered ==
    \A m, s \in Users : ApprovedOf(m, s) # {} /\ ~mix.tears =>
        <<m, s>> \in students \/ \E c \in Clients : Makes(req[c], m, s)

SerialInv ==
    /\ \A c \in Clients : Current(req[c])
    /\ Versioned /\ NoSessionWithoutPassword
    /\ OfUsers /\ Backed /\ Answered

AccountsInv == Typed /\ KnownInv /\ LinkedInv /\ Apart /\ (mix.serial => SerialInv)

-----------------------------------------------------------------------------
(* The requests that the handlers build.                                    *)

\* The caller of a request is a user.
LEMMA Caller ==
    ASSUME mix \in Mixes, NEW c \in DOMAIN mix.of
    PROVE  Me(c) \in Users
<1>1. mix.of \in UNION {[C -> Users] : C \in SUBSET Clients}
  OBVIOUS
<1>2. PICK C \in SUBSET Clients : mix.of \in [C -> Users]
  BY <1>1
<1> QED BY <1>2 DEF Me

LEMMA NewRows == NewUser \in UserRows /\ NoRequest \in RequestRows
BY DEF NewUser, UserRows, Roles, Versions, NoRequest, RequestRows, Statuses

LEMMA IdleType ==
    /\ Idle \in InFlight /\ Staged(Idle)
    /\ Idle.at = "idle" /\ Idle.op = "login" /\ Idle.about = {} /\ Idle.user = NULL
    /\ Idle.rel = {} /\ Idle.add = {}
<1>1. NewUser \in UserRows
  BY NewRows
<1>2. Idle \in InFlight
  BY <1>1 DEF Idle, InFlight, Ats, Ops, Statuses
<1> QED BY <1>2 DEF Idle, Staged, Entering, OfPair

LEMMA AboutType ==
    ASSUME NEW op \in Ops, NEW us \in SUBSET Users, NEW q, q = About(op, us)
    PROVE  /\ q \in InFlight /\ q.at = "idle" /\ q.op = op /\ q.about = us /\ q.user = NULL
           /\ q.side = "none" /\ q.rel = {} /\ q.add = {} /\ q.peer = NULL /\ q.rows = {}
<1>1. NewUser \in UserRows
  BY NewRows
<1>2. Idle \in InFlight
  BY IdleType
<1>3. q \in InFlight
  BY <1>2 DEF About, InFlight
<1> QED BY <1>3 DEF About, Idle

LEMMA HoldingType ==
    ASSUME NEW op \in Ops, NEW us \in SUBSET Users, NEW u \in Users, NEW ent \in UserRows,
           NEW side \in {"none", "students", "both"}, NEW rel \in SUBSET Pairs
    PROVE  Holding(op, us, u, ent, side, rel) \in InFlight
<1>1. About(op, us) \in InFlight
  BY AboutType
<1>2. "loaded" \in Ats
  BY DEF Ats
<1> QED BY <1>1, <1>2 DEF Holding, InFlight

\* What a request is when it begins, and what its handler has checked.
Begun(q) ==
    /\ q.op # "register" /\ Exists(q.user) /\ q.add = {}
    /\ \/ /\ q.at = "enter" /\ q.rel = {}
          /\ q.op = "login" \/ <<q.user, user[q.user].version>> \in issued
       \/ /\ q.at = "loaded" /\ q.op # "respond" /\ Ahead(q) /\ q.rel = Wanted(q)
          /\ q.op = "unlink" => q.side = "students"
          /\ q.op = "delete" => q.side = "both"
       \/ q.at = "insert" /\ q.rel = {} /\ Exists(q.peer)
       \/ /\ q.at = "answer" /\ q.rel = {}
          /\ request[q.row] = [status |-> "PENDING", student |-> q.peer, mentor |-> q.user]

Begins(c, q) ==
    /\ q \in InFlight /\ Staged(q) /\ Begun(q)
    /\ mix.serial => \A d \in Clients : req[d].about \cap q.about = {}
    /\ req[c] = Idle /\ req' = [req EXCEPT ![c] = q]
    /\ entered' = IF q.op = "login" THEN entered \cup {q.user} ELSE entered
    /\ UNCHANGED <<user, students, request, issued, approved, mix>>

LEMMA RowTypes ==
    ASSUME Typed
    PROVE  /\ \A u \in Users : user[u] \in UserRows
           /\ \A u, side : Connections(u, side) \in SUBSET Pairs
BY DEF Typed, Connections

LEMMA OpTypes ==
    /\ \A op \in {"register", "login", "refresh", "logout", "password", "rename", "switch",
                  "code", "request", "respond", "unlink", "delete"} : op \in Ops
    /\ \A at \in {"enter", "issue", "reread", "insert", "answer", "assign", "unlinked", "reject",
                  "purge", "erase"} : at \in Ats
BY DEF Ops, Ats

LEMMA LoginBegins ==
    ASSUME Typed, NEW c \in Clients, Login(c)
    PROVE  \E q : Begins(c, q)
<1> DEFINE u == Me(c)
<1>1. u \in Users /\ Exists(u)
  BY Caller DEF Login, Starts, Typed
<1>2. PICK a : a = About("login", {u})
  OBVIOUS
<1>3. a \in InFlight /\ a.op = "login" /\ a.about = {u} /\ a.rel = {} /\ a.add = {}
  BY <1>1, <1>2, AboutType, OpTypes
<1>4. PICK q : q = [a EXCEPT !.at = "enter", !.user = u, !.ent = user[u]]
  OBVIOUS
<1>5. /\ q \in InFlight /\ q.at = "enter" /\ q.user = u /\ q.op = "login" /\ q.about = {u}
      /\ q.rel = {} /\ q.add = {}
  BY <1>1, <1>3, <1>4, RowTypes, OpTypes DEF InFlight
<1>6. Staged(q) /\ Begun(q)
  BY <1>1, <1>5 DEF Staged, Begun, Entering, OfPair
<1> QED BY <1>2, <1>4, <1>5, <1>6 DEF Login, Starts, Goes, Begins

LEMMA RefreshBegins ==
    ASSUME Typed, NEW c \in Clients, Refresh(c)
    PROVE  \E q : Begins(c, q)
<1> DEFINE u == Me(c)
<1>1. u \in Users /\ Exists(u)
  BY Caller DEF Refresh, Starts, Typed
<1>2. PICK a : a = About("refresh", {u})
  OBVIOUS
<1>3. a \in InFlight /\ a.op = "refresh" /\ a.about = {u} /\ a.rel = {} /\ a.add = {}
  BY <1>1, <1>2, AboutType, OpTypes
<1>4. PICK q : q = [a EXCEPT !.at = "enter", !.user = u, !.ent = user[u]]
  OBVIOUS
<1>5. /\ q \in InFlight /\ q.at = "enter" /\ q.user = u /\ q.op = "refresh" /\ q.about = {u}
      /\ q.rel = {} /\ q.add = {}
  BY <1>1, <1>3, <1>4, RowTypes, OpTypes DEF InFlight
<1>6. Staged(q) /\ Begun(q)
  BY <1>1, <1>5 DEF Refresh, Staged, Begun, Entering, OfPair
<1> QED BY <1>2, <1>4, <1>5, <1>6 DEF Refresh, Starts, Goes, Begins

\* An endpoint of one user that loads the user, changes the entity and goes on to save it.
LEMMA HoldingBegins ==
    ASSUME Typed, NEW c \in Clients, NEW u \in Users, Exists(u), NEW ent \in UserRows,
           NEW op \in {"logout", "password", "rename", "switch", "code"},
           NEW side \in {"none", "students", "both"}, Starts(c, op, {u}),
           \A q : q.user = u /\ q.ent = ent /\ q.op = op => Ahead(q),
           Goes(c, Holding(op, {u}, u, ent, side, Connections(u, side))),
           UNCHANGED <<user, students, request, issued, entered, approved, mix>>
    PROVE  \E q : Begins(c, q)
<1>1. PICK q : q = Holding(op, {u}, u, ent, side, Connections(u, side))
  OBVIOUS
<1>2. /\ q \in InFlight /\ q.at = "loaded" /\ q.op = op /\ q.about = {u} /\ q.user = u
      /\ q.ent = ent /\ q.side = side /\ q.rel = Connections(u, side) /\ q.add = {}
  <2>1. op \in Ops /\ {u} \in SUBSET Users /\ Connections(u, side) \in SUBSET Pairs
    BY RowTypes, OpTypes
  <2>2. q \in InFlight
    BY <1>1, <2>1, HoldingType
  <2> QED BY <1>1, <2>2 DEF Holding, About, Idle
<1>3. Staged(q)
  BY <1>2 DEF Staged, Saving, Revoking, OfPair
<1>4. Ahead(q) /\ q.rel = Wanted(q)
  BY <1>2 DEF Wanted
<1>5. Begun(q)
  BY <1>2, <1>4 DEF Begun
<1> QED BY <1>1, <1>2, <1>3, <1>5 DEF Starts, Goes, Begins

LEMMA NoConnections == \A u : Connections(u, "none") = {}
BY DEF Connections

\* The entities that these endpoints save.
LEMMA EntityTypes ==
    ASSUME Typed, NEW u \in Users, Exists(u)
    PROVE  /\ user[u].version < MaxVersion => Revoked(user[u]) \in UserRows
           /\ [user[u] EXCEPT !.code = TRUE] \in UserRows
           /\ OtherRole(user[u]) \in UserRows
<1>1. user[u] \in UserRows
  BY DEF Typed
<1>2. ASSUME user[u].version < MaxVersion PROVE Revoked(user[u]) \in UserRows
  <2>1. user[u].version + 1 \in Versions
    BY <1>1, <1>2 DEF UserRows, Versions
  <2> QED BY <1>1, <2>1 DEF Revoked, UserRows
<1>3. [user[u] EXCEPT !.code = TRUE] \in UserRows
  BY <1>1 DEF UserRows
<1>4. OtherRole(user[u]) \in UserRows
  <2>1. "MENTOR" \in Roles /\ "STUDENT" \in Roles
    BY DEF Roles
  <2> QED BY <1>1, <2>1 DEF OtherRole, UserRows
<1> QED BY <1>2, <1>3, <1>4

LEMMA EntityAhead ==
    ASSUME Typed, NEW u \in Users, Exists(u), NEW q, q.user = u
    PROVE  /\ q.ent = Revoked(user[u]) /\ q.op \in Revoking => Ahead(q)
           /\ q.ent = user[u] /\ q.op \notin Revoking => Ahead(q)
           /\ q.ent = [user[u] EXCEPT !.code = TRUE] /\ q.op \notin Revoking => Ahead(q)
           /\ q.ent = OtherRole(user[u]) /\ q.op \notin Revoking /\ ~user[u].switched => Ahead(q)
<1>1. user[u] \in UserRows
  BY DEF Typed
<1>2. user[u].role \in {"STUDENT", "MENTOR"}
  BY DEF Exists
<1>3. ASSUME q.ent = Revoked(user[u]), q.op \in Revoking PROVE Ahead(q)
  <2>1. q.ent.role = user[u].role /\ q.ent.switched = user[u].switched
    BY <1>1, <1>3 DEF Revoked, UserRows
  <2>2. q.ent.version = user[u].version + 1
    BY <1>1, <1>3 DEF Revoked, UserRows
  <2> QED BY <1>2, <1>3, <2>1, <2>2 DEF Ahead
<1>4. ASSUME q.ent = user[u], q.op \notin Revoking PROVE Ahead(q)
  BY <1>2, <1>4 DEF Ahead
<1>5. ASSUME q.ent = [user[u] EXCEPT !.code = TRUE], q.op \notin Revoking PROVE Ahead(q)
  <2>1. /\ q.ent.role = user[u].role /\ q.ent.switched = user[u].switched
        /\ q.ent.version = user[u].version
    BY <1>1, <1>5 DEF UserRows
  <2> QED BY <1>2, <1>5, <2>1 DEF Ahead
<1>6. ASSUME q.ent = OtherRole(user[u]), q.op \notin Revoking, ~user[u].switched PROVE Ahead(q)
  <2>1. /\ q.ent.role \in {"STUDENT", "MENTOR"} /\ q.ent.version = user[u].version
    BY <1>1, <1>2, <1>6 DEF OtherRole, UserRows
  <2> QED BY <1>6, <2>1 DEF Ahead
<1> QED BY <1>3, <1>4, <1>5, <1>6

LEMMA SaveBegins ==
    ASSUME Typed, NEW c \in Clients,
           Logout(c) \/ ChangePassword(c) \/ Rename(c) \/ RefreshCode(c) \/ SwitchRole(c)
    PROVE  \E q : Begins(c, q)
<1> DEFINE u == Me(c)
<1>1. u \in Users /\ Exists(u) /\ user[u] \in UserRows
  BY Caller DEF Logout, ChangePassword, Rename, RefreshCode, SwitchRole, Starts, Typed
<1>2. CASE Logout(c)
  <2>1. Revoked(user[u]) \in UserRows
    BY <1>1, <1>2, EntityTypes DEF Logout
  <2>2. \A q : q.user = u /\ q.ent = Revoked(user[u]) /\ q.op = "logout" => Ahead(q)
    BY <1>1, EntityAhead DEF Revoking
  <2> QED BY <1>1, <1>2, <2>1, <2>2, NoConnections, HoldingBegins DEF Logout
<1>3. CASE ChangePassword(c)
  <2>1. Revoked(user[u]) \in UserRows
    BY <1>1, <1>3, EntityTypes DEF ChangePassword
  <2>2. \A q : q.user = u /\ q.ent = Revoked(user[u]) /\ q.op = "password" => Ahead(q)
    BY <1>1, EntityAhead DEF Revoking
  <2> QED BY <1>1, <1>3, <2>1, <2>2, HoldingBegins DEF ChangePassword
<1>4. CASE Rename(c)
  <2>2. \A q : q.user = u /\ q.ent = user[u] /\ q.op = "rename" => Ahead(q)
    BY <1>1, EntityAhead DEF Revoking
  <2> QED BY <1>1, <1>4, <2>2, HoldingBegins DEF Rename
<1>5. CASE RefreshCode(c)
  <2>1. [user[u] EXCEPT !.code = TRUE] \in UserRows
    BY <1>1, EntityTypes
  <2>2. \A q : q.user = u /\ q.ent = [user[u] EXCEPT !.code = TRUE] /\ q.op = "code" => Ahead(q)
    BY <1>1, EntityAhead DEF Revoking
  <2> QED BY <1>1, <1>5, <2>1, <2>2, NoConnections, HoldingBegins DEF RefreshCode
<1>6. CASE SwitchRole(c)
  <2>1. OtherRole(user[u]) \in UserRows
    BY <1>1, EntityTypes
  <2>2. \A q : q.user = u /\ q.ent = OtherRole(user[u]) /\ q.op = "switch" => Ahead(q)
    BY <1>1, <1>6, EntityAhead DEF Revoking, SwitchRole
  <2> QED BY <1>1, <1>6, <2>1, <2>2, HoldingBegins DEF SwitchRole
<1> QED BY <1>2, <1>3, <1>4, <1>5, <1>6

LEMMA DeleteBegins ==
    ASSUME Typed, NEW c \in Clients, Delete(c)
    PROVE  \E q : Begins(c, q)
<1> DEFINE u == Me(c)
<1>1. u \in Users /\ Exists(u) /\ user[u] \in UserRows
  BY Caller DEF Delete, Starts, Typed
<1>2. PICK q : q = Holding("delete", Users, u, user[u], "both", {})
  OBVIOUS
<1>3. /\ q \in InFlight /\ q.at = "loaded" /\ q.op = "delete" /\ q.about = Users /\ q.user = u
      /\ q.ent = user[u] /\ q.side = "both" /\ q.rel = {} /\ q.add = {}
  <2>1. q \in InFlight
    BY <1>1, <1>2, HoldingType, OpTypes
  <2> QED BY <1>2, <2>1 DEF Holding, About, Idle
<1>4. Staged(q)
  BY <1>1, <1>3 DEF Staged, Saving, OfPair
<1>5. Ahead(q) /\ q.rel = Wanted(q)
  BY <1>1, <1>3, EntityAhead DEF Wanted, Revoking
<1>6. Begun(q)
  BY <1>1, <1>3, <1>5 DEF Begun
<1> QED BY <1>2, <1>3, <1>4, <1>6 DEF Delete, Starts, Goes, Begins

LEMMA UnlinkBegins ==
    ASSUME Typed, NEW c \in Clients, NEW m \in Users, NEW s \in Users, Unlink(c, m, s)
    PROVE  \E q : Begins(c, q)
<1> DEFINE rel == Connections(m, "students") \ {<<m, s>>}
<1>1. Exists(m) /\ user[m] \in UserRows
  BY DEF Unlink, Typed
<1>2. PICK h : h = Holding("unlink", {m, s}, m, user[m], "students", rel)
  OBVIOUS
<1>3. /\ h \in InFlight /\ h.at = "loaded" /\ h.op = "unlink" /\ h.about = {m, s} /\ h.user = m
      /\ h.ent = user[m] /\ h.side = "students" /\ h.rel = rel /\ h.add = {}
  <2>1. rel \in SUBSET Pairs /\ "unlink" \in Ops
    BY RowTypes, OpTypes
  <2>2. h \in InFlight
    BY <1>1, <1>2, <2>1, HoldingType
  <2> QED BY <1>2, <2>2 DEF Holding, About, Idle
<1>4. PICK q : q = [h EXCEPT !.peer = s]
  OBVIOUS
<1>5. /\ q \in InFlight /\ q.at = "loaded" /\ q.op = "unlink" /\ q.about = {m, s} /\ q.user = m
      /\ q.ent = user[m] /\ q.side = "students" /\ q.rel = rel /\ q.add = {} /\ q.peer = s
  BY <1>3, <1>4 DEF InFlight
<1>6. Staged(q)
  BY <1>5 DEF Staged, Saving, OfPair
<1>7. Ahead(q) /\ q.rel = Wanted(q)
  BY <1>1, <1>5, EntityAhead DEF Wanted, Revoking
<1>8. Begun(q)
  BY <1>1, <1>5, <1>7 DEF Begun
<1> QED BY <1>2, <1>4, <1>5, <1>6, <1>8 DEF Unlink, Starts, Goes, Begins

LEMMA RequestBegins ==
    ASSUME Typed, NEW c \in Clients, NEW m \in Users, RequestCheck(c, m)
    PROVE  \E q : Begins(c, q)
<1> DEFINE u == Me(c)
<1>1. u \in Users /\ Exists(u) /\ Exists(m)
  BY Caller DEF RequestCheck, Starts, Typed
<1>2. PICK a : a = About("request", {u, m})
  OBVIOUS
<1>3. a \in InFlight /\ a.op = "request" /\ a.about = {u, m} /\ a.rel = {} /\ a.add = {}
  BY <1>1, <1>2, AboutType, OpTypes
<1>4. PICK q : q = [a EXCEPT !.at = "insert", !.user = m, !.peer = u]
  OBVIOUS
<1>5. /\ q \in InFlight /\ q.at = "insert" /\ q.user = m /\ q.peer = u /\ q.op = "request"
      /\ q.about = {u, m} /\ q.rel = {} /\ q.add = {}
  BY <1>1, <1>3, <1>4, OpTypes DEF InFlight
<1>6. Staged(q) /\ Begun(q)
  BY <1>1, <1>5 DEF Staged, Begun, OfPair
<1> QED BY <1>2, <1>4, <1>5, <1>6 DEF RequestCheck, Starts, Goes, Begins

LEMMA RespondBegins ==
    ASSUME Typed, NEW c \in Clients, NEW r \in Requests, NEW status \in {"APPROVED", "REJECTED"},
           Respond(c, r, status)
    PROVE  \E q : Begins(c, q)
<1> DEFINE u == Me(c)
           s == request[r].student
<1>1. u \in Users /\ Exists(u) /\ s \in Users
  BY Caller DEF Respond, Starts, Typed, Open
<1>2. PICK a : a = About("respond", {u, s})
  OBVIOUS
<1>3. a \in InFlight /\ a.op = "respond" /\ a.about = {u, s} /\ a.rel = {} /\ a.add = {}
  BY <1>1, <1>2, AboutType, OpTypes
<1>4. PICK q : q = [a EXCEPT !.at = "answer", !.user = u, !.peer = s, !.row = r, !.status = status]
  OBVIOUS
<1>5. /\ q \in InFlight /\ q.at = "answer" /\ q.user = u /\ q.peer = s /\ q.op = "respond"
      /\ q.about = {u, s} /\ q.rel = {} /\ q.add = {} /\ q.row = r /\ q.status = status
  BY <1>1, <1>3, <1>4, OpTypes DEF InFlight, Statuses
<1>6. request[r] = [status |-> "PENDING", student |-> s, mentor |-> u]
  BY DEF Respond, Open, Typed, RequestRows
<1>7. Staged(q) /\ Begun(q)
  BY <1>1, <1>5, <1>6 DEF Staged, Begun, OfPair
<1> QED BY <1>2, <1>4, <1>5, <1>7 DEF Respond, Starts, Goes, Begins

\* What a handler does first.
Starting(c) ==
    \/ Login(c) \/ Refresh(c) \/ Logout(c) \/ ChangePassword(c) \/ Rename(c) \/ RefreshCode(c)
    \/ SwitchRole(c) \/ Delete(c)
    \/ \E m, s \in Users : Unlink(c, m, s)
    \/ \E m \in Users : RequestCheck(c, m)
    \/ \E r \in Requests, status \in {"APPROVED", "REJECTED"} : Respond(c, r, status)

LEMMA StartingBegins ==
    ASSUME Typed, NEW c \in Clients, Starting(c)
    PROVE  \E q : Begins(c, q)
BY LoginBegins, RefreshBegins, SaveBegins, DeleteBegins, UnlinkBegins, RequestBegins,
   RespondBegins DEF Starting

-----------------------------------------------------------------------------
(* What a request becomes by each of its further steps: it ends, or stays   *)
(* the same endpoint about the same users.                                  *)

Same(p, q) ==
    /\ p.op = q.op /\ p.user = q.user /\ p.about = q.about
    /\ q.op \in OfPair => p.peer = q.peer

\* The request of c goes on as q.
Becomes(c, q) == q \in InFlight /\ Staged(q) /\ req' = [req EXCEPT ![c] = q]

LEMMA RequestType ==
    ASSUME Typed, NEW c \in Clients
    PROVE  req[c] \in InFlight /\ Staged(req[c])
BY DEF Typed

LEMMA RegisterNext ==
    ASSUME Typed, NEW c \in Clients, NEW role \in {"STUDENT", "MENTOR"}, Register(c, role)
    PROVE  LET u == Me(c) IN
           /\ u \in Users
           /\ \E p : /\ Becomes(c, p) /\ p.at = "enter" /\ p.op = "register" /\ p.user = u
                     /\ p.about = {u} /\ p.rel = {} /\ p.add = {}
<1> DEFINE u == Me(c)
<1>1. u \in Users
  BY Caller DEF Register, Typed
<1>2. PICK a : a = About("register", {u})
  OBVIOUS
<1>3. a \in InFlight /\ a.op = "register" /\ a.about = {u} /\ a.rel = {} /\ a.add = {}
  BY <1>1, <1>2, AboutType, OpTypes
<1>4. PICK p : p = [a EXCEPT !.at = "enter", !.user = u, !.ent = NewUser]
  OBVIOUS
<1>5. /\ p \in InFlight /\ p.at = "enter" /\ p.user = u /\ p.op = "register" /\ p.about = {u}
      /\ p.rel = {} /\ p.add = {}
  BY <1>1, <1>3, <1>4, NewRows, OpTypes DEF InFlight
<1>6. Staged(p)
  BY <1>1, <1>5 DEF Staged, Entering, OfPair
<1> QED BY <1>1, <1>2, <1>4, <1>5, <1>6 DEF Register, Goes, Becomes

LEMMA SignNext ==
    ASSUME Typed, NEW c \in Clients, Sign(c)
    PROVE  LET q == req[c] IN
           /\ q.at = "enter" /\ q.user \in Users
           /\ \E p : /\ Becomes(c, p) /\ Same(p, q) /\ p.at = "issue"
                     /\ p.rel = q.rel /\ p.add = q.add
                     /\ Exists(q.user) => p.ent = user[q.user]
<1> DEFINE q == req[c]
<1>1. q \in InFlight /\ Staged(q) /\ q.at = "enter" /\ q.user \in Users
  BY RequestType DEF Sign, Staged
<1>2. PICK ent \in UserRows : /\ ent = IF Exists(q.user) THEN user[q.user] ELSE q.ent
  BY <1>1 DEF Typed, InFlight
<1>3. PICK p : p = [q EXCEPT !.at = "issue", !.ent = ent]
  OBVIOUS
<1>4. /\ p \in InFlight /\ Same(p, q) /\ p.at = "issue" /\ p.rel = q.rel /\ p.add = q.add
      /\ p.ent = ent /\ p.peer = q.peer
  BY <1>1, <1>3, OpTypes DEF InFlight, Same
<1>5. Staged(p)
  BY <1>1, <1>4 DEF Staged, Same
<1>6. req' = [req EXCEPT ![c] = p]
  BY <1>2, <1>3 DEF Sign, Goes
<1> QED BY <1>1, <1>2, <1>4, <1>5, <1>6 DEF Becomes

LEMMA AnswerNext ==
    ASSUME Typed, NEW c \in Clients, StoreAnswer(c)
    PROVE  LET q == req[c] IN
           /\ q.at = "answer" /\ q.op = "respond" /\ q.row \in Requests
           /\ q.status \in {"APPROVED", "REJECTED"}
           /\ \E p : /\ Becomes(c, p)
                     /\ \/ p = Idle /\ q.status # "APPROVED"
                        \/ /\ Same(p, q) /\ p.at = "assign" /\ p.rel = q.rel /\ p.add = q.add
                           /\ q.status = "APPROVED"
<1> DEFINE q == req[c]
<1>1. q \in InFlight /\ Staged(q) /\ q.at = "answer"
  BY RequestType DEF StoreAnswer
<1>2. /\ q.op = "respond" /\ q.row \in Requests /\ q.status \in {"APPROVED", "REJECTED"}
  BY <1>1 DEF Staged
<1>3. CASE q.status = "APPROVED"
  <2>1. PICK p : p = [q EXCEPT !.at = "assign"]
    OBVIOUS
  <2>2. /\ p \in InFlight /\ Same(p, q) /\ p.at = "assign" /\ p.rel = q.rel /\ p.add = q.add
        /\ p.peer = q.peer
    BY <1>1, <2>1, OpTypes DEF InFlight, Same
  <2>3. Staged(p)
    BY <1>1, <1>2, <2>2 DEF Staged, Same
  <2>4. req' = [req EXCEPT ![c] = p]
    BY <1>3, <2>1 DEF StoreAnswer, AfterAnswer, Goes
  <2> QED BY <1>1, <1>2, <1>3, <2>2, <2>3, <2>4 DEF Becomes
<1>4. CASE q.status # "APPROVED"
  <2>1. req' = [req EXCEPT ![c] = Idle]
    BY <1>4 DEF StoreAnswer, AfterAnswer, Goes
  <2> QED BY <1>1, <1>2, <1>4, <2>1, IdleType DEF Becomes
<1> QED BY <1>3, <1>4

LEMMA AssignNext ==
    ASSUME Typed, NEW c \in Clients, Assign(c)
    PROVE  LET q == req[c]  pair == <<q.user, q.peer>> IN
           /\ q.at = "assign" /\ q.op = "respond" /\ q.user \in Users /\ q.peer \in Users
           /\ \E p : /\ Becomes(c, p)
                     /\ \/ p = Idle /\ ~(Exists(q.user) /\ Exists(q.peer) /\ pair \notin students)
                        \/ /\ Same(p, q) /\ p.at = "loaded" /\ p.add = {}
                           /\ p.ent = user[q.user] /\ p.side = "students"
                           /\ p.rel = Connections(q.user, "students") \cup {pair}
                           /\ Exists(q.user) /\ Exists(q.peer) /\ pair \notin students
<1> DEFINE q == req[c]
           pair == <<q.user, q.peer>>
           rel == Connections(q.user, "students") \cup {pair}
<1>1. q \in InFlight /\ Staged(q) /\ q.at = "assign"
  BY RequestType DEF Assign
<1>2. q.op = "respond" /\ q.user \in Users /\ q.peer \in Users /\ q.about = {q.user, q.peer}
  BY <1>1 DEF Staged, OfPair
<1>3. CASE Exists(q.user) /\ Exists(q.peer) /\ pair \notin students
  <2>1. PICK h : h = Holding("respond", q.about, q.user, user[q.user], "students", rel)
    OBVIOUS
  <2>2. h \in InFlight
    <3>1. rel \in SUBSET Pairs /\ user[q.user] \in UserRows /\ q.about \in SUBSET Users
      BY <1>1, <1>2, RowTypes DEF Pairs, InFlight
    <3> QED BY <1>2, <2>1, <3>1, HoldingType, OpTypes
  <2>3. /\ h.at = "loaded" /\ h.op = "respond" /\ h.about = q.about /\ h.user = q.user
        /\ h.ent = user[q.user] /\ h.side = "students" /\ h.rel = rel /\ h.add = {}
    BY <2>1 DEF Holding, About, Idle
  <2>4. PICK p : p = [h EXCEPT !.peer = q.peer]
    OBVIOUS
  <2>5. /\ p \in InFlight /\ p.at = "loaded" /\ p.op = "respond" /\ p.about = q.about
        /\ p.user = q.user /\ p.ent = user[q.user] /\ p.side = "students" /\ p.rel = rel
        /\ p.add = {} /\ p.peer = q.peer
    BY <1>2, <2>2, <2>3, <2>4 DEF InFlight
  <2>6. Staged(p) /\ Same(p, q)
    BY <1>2, <2>5 DEF Staged, Same, Saving, OfPair
  <2>7. req' = [req EXCEPT ![c] = p]
    BY <1>3, <2>1, <2>4 DEF Assign, Goes
  <2> QED BY <1>1, <1>2, <1>3, <2>5, <2>6, <2>7 DEF Becomes
<1>4. CASE ~(Exists(q.user) /\ Exists(q.peer) /\ pair \notin students)
  <2>1. req' = [req EXCEPT ![c] = Idle]
    BY <1>4 DEF Assign, Goes
  <2> QED BY <1>1, <1>2, <1>4, <2>1, IdleType DEF Becomes
<1> QED BY <1>3, <1>4

LEMMA FindNext ==
    ASSUME Typed, NEW c \in Clients, FindApproved(c)
    PROVE  LET q == req[c]  rs == ApprovedOf(q.user, q.peer) IN
           /\ q.at = "unlinked" /\ q.op = "unlink"
           /\ \E p : /\ Becomes(c, p)
                     /\ \/ p = Idle /\ rs = {}
                        \/ /\ Same(p, q) /\ p.at = "reject" /\ p.rows = rs
                           /\ p.rel = {} /\ p.add = {}
<1> DEFINE q == req[c]
           rs == ApprovedOf(q.user, q.peer)
<1>1. q \in InFlight /\ Staged(q) /\ q.at = "unlinked"
  BY RequestType DEF FindApproved
<1>2. q.op = "unlink" /\ q.user \in Users /\ q.peer \in Users /\ q.about = {q.user, q.peer}
  BY <1>1 DEF Staged, OfPair
<1>3. CASE rs # {}
  <2>1. PICK a : a = About("unlink", q.about)
    OBVIOUS
  <2>2. a \in InFlight /\ a.op = "unlink" /\ a.about = q.about /\ a.rel = {} /\ a.add = {}
    BY <1>2, <2>1, AboutType, OpTypes
  <2>3. PICK p : p = [a EXCEPT !.at = "reject", !.user = q.user, !.peer = q.peer, !.rows = rs]
    OBVIOUS
  <2>4. rs \subseteq Requests
    BY DEF ApprovedOf
  <2>5. /\ p \in InFlight /\ p.at = "reject" /\ p.op = "unlink" /\ p.about = q.about
        /\ p.user = q.user /\ p.peer = q.peer /\ p.rows = rs /\ p.rel = {} /\ p.add = {}
    BY <1>2, <2>2, <2>3, <2>4, OpTypes DEF InFlight
  <2>6. Staged(p) /\ Same(p, q)
    BY <1>2, <2>5 DEF Staged, Same, OfPair
  <2>7. req' = [req EXCEPT ![c] = p]
    BY <1>3, <2>1, <2>3 DEF FindApproved, Goes
  <2> QED BY <1>1, <1>2, <2>5, <2>6, <2>7 DEF Becomes
<1>4. CASE rs = {}
  <2>1. req' = [req EXCEPT ![c] = Idle]
    BY <1>4 DEF FindApproved, Goes
  <2> QED BY <1>1, <1>2, <1>4, <2>1, IdleType DEF Becomes
<1> QED BY <1>3, <1>4

LEMMA RejectNext ==
    ASSUME Typed, NEW c \in Clients, NEW r \in Requests, RejectOne(c, r)
    PROVE  LET q == req[c] IN
           /\ q.at = "reject" /\ q.op = "unlink" /\ r \in q.rows
           /\ \E p : /\ Becomes(c, p)
                     /\ \/ p = Idle /\ q.rows = {r}
                        \/ /\ Same(p, q) /\ p.at = "reject" /\ p.rows = q.rows \ {r}
                           /\ p.rel = q.rel /\ p.add = q.add
<1> DEFINE q == req[c]
<1>1. q \in InFlight /\ Staged(q) /\ q.at = "reject" /\ r \in q.rows
  BY RequestType DEF RejectOne
<1>2. q.op = "unlink" /\ q.user \in Users /\ q.peer \in Users
  BY <1>1 DEF Staged, OfPair
<1>3. CASE q.rows # {r}
  <2>1. PICK p : p = [q EXCEPT !.rows = q.rows \ {r}]
    OBVIOUS
  <2>2. /\ p \in InFlight /\ Same(p, q) /\ p.at = "reject" /\ p.rows = q.rows \ {r}
        /\ p.rel = q.rel /\ p.add = q.add /\ p.peer = q.peer
    BY <1>1, <2>1 DEF InFlight, Same
  <2>3. Staged(p)
    BY <1>1, <1>2, <2>2 DEF Staged, Same
  <2>4. req' = [req EXCEPT ![c] = p]
    BY <1>3, <2>1 DEF RejectOne, Goes
  <2> QED BY <1>1, <1>2, <2>2, <2>3, <2>4 DEF Becomes
<1>4. CASE q.rows = {r}
  <2>1. req' = [req EXCEPT ![c] = Idle]
    BY <1>4 DEF RejectOne, Goes
  <2> QED BY <1>1, <1>2, <1>4, <2>1, IdleType DEF Becomes
<1> QED BY <1>3, <1>4

LEMMA RereadNext ==
    ASSUME Typed, NEW c \in Clients, Reread(c)
    PROVE  LET q == req[c]  now == Connections(q.user, q.side) IN
           /\ q.at = "loaded" /\ q.op \in Saving
           /\ \E p : /\ Becomes(c, p) /\ Same(p, q) /\ p.at = "reread"
                     /\ p.ent = q.ent /\ p.side = q.side /\ p.rel = q.rel
                     /\ p.insert = ~Exists(q.user)
                     /\ p.cols = {f \in Columns : q.ent[f] # user[q.user][f]}
                     /\ p.add = q.rel \ now /\ p.del = now \ q.rel
<1> DEFINE q == req[c]
           now == Connections(q.user, q.side)
           cols == {f \in Columns : q.ent[f] # user[q.user][f]}
<1>1. q \in InFlight /\ Staged(q) /\ q.at = "loaded"
  BY RequestType DEF Reread
<1>2. q.op \in Saving
  BY <1>1 DEF Staged
<1>3. PICK insert \in BOOLEAN : insert = ~Exists(q.user)
  OBVIOUS
<1>4. PICK p : p = [q EXCEPT !.at = "reread", !.insert = insert, !.cols = cols,
                             !.add = q.rel \ now, !.del = now \ q.rel]
  OBVIOUS
<1>5. q.rel \ now \in SUBSET Pairs /\ now \ q.rel \in SUBSET Pairs /\ cols \in SUBSET Columns
  BY <1>1, RowTypes DEF InFlight
<1>6. /\ p \in InFlight /\ Same(p, q) /\ p.at = "reread" /\ p.ent = q.ent /\ p.side = q.side
      /\ p.rel = q.rel /\ p.insert = insert /\ p.cols = cols /\ p.peer = q.peer
      /\ p.add = q.rel \ now /\ p.del = now \ q.rel
  BY <1>1, <1>4, <1>5, OpTypes DEF InFlight, Same
<1>7. Staged(p)
  BY <1>1, <1>2, <1>6 DEF Staged, Same
<1>8. req' = [req EXCEPT ![c] = p]
  BY <1>3, <1>4 DEF Reread, Goes
<1> QED BY <1>1, <1>2, <1>3, <1>6, <1>7, <1>8 DEF Becomes

LEMMA AfterSaveType ==
    ASSUME NEW q \in InFlight, Staged(q), q.at = "reread", NEW p, p = AfterSave(q)
    PROVE  /\ p \in InFlight /\ Staged(p) /\ p.rel = {} /\ p.add = {}
           /\ \/ p = Idle /\ q.op \notin {"unlink", "delete"}
              \/ /\ Same(p, q) /\ q.op = "unlink" /\ p.at = "unlinked"
              \/ /\ Same(p, q) /\ q.op = "delete" /\ p.at = "purge" /\ p.side = "none"
<1>1. q.user \in Users /\ q.about \in SUBSET Users
  BY DEF Staged, InFlight
<1>2. CASE q.op = "unlink"
  <2>1. PICK a : a = About("unlink", q.about)
    OBVIOUS
  <2>2. a \in InFlight /\ a.op = "unlink" /\ a.about = q.about /\ a.rel = {} /\ a.add = {}
    BY <1>1, <2>1, AboutType, OpTypes
  <2>3. p = [a EXCEPT !.at = "unlinked", !.user = q.user, !.peer = q.peer]
    BY <1>2, <2>1 DEF AfterSave
  <2>4. q.peer \in Users /\ q.about = {q.user, q.peer}
    BY <1>2 DEF Staged, OfPair
  <2>5. /\ p \in InFlight /\ p.at = "unlinked" /\ p.op = "unlink" /\ p.about = q.about
        /\ p.user = q.user /\ p.peer = q.peer /\ p.rel = {} /\ p.add = {}
    BY <1>1, <2>2, <2>3, <2>4, OpTypes DEF InFlight
  <2>6. Staged(p) /\ Same(p, q)
    BY <1>1, <1>2, <2>4, <2>5 DEF Staged, Same, OfPair
  <2> QED BY <1>2, <2>5, <2>6
<1>3. CASE q.op = "delete"
  <2>1. PICK a : a = About("delete", q.about)
    OBVIOUS
  <2>2. /\ a \in InFlight /\ a.op = "delete" /\ a.about = q.about /\ a.rel = {} /\ a.add = {}
        /\ a.side = "none"
    BY <1>1, <2>1, AboutType, OpTypes
  <2>3. p = [a EXCEPT !.at = "purge", !.user = q.user]
    BY <1>3, <2>1 DEF AfterSave
  <2>4. q.about = Users
    BY <1>3 DEF Staged, OfPair
  <2>5. /\ p \in InFlight /\ p.at = "purge" /\ p.op = "delete" /\ p.about = q.about
        /\ p.user = q.user /\ p.rel = {} /\ p.add = {} /\ p.side = "none"
    BY <1>1, <2>2, <2>3, OpTypes DEF InFlight
  <2>6. Staged(p) /\ Same(p, q)
    BY <1>1, <1>3, <2>4, <2>5 DEF Staged, Same, OfPair
  <2> QED BY <1>3, <2>5, <2>6
<1>4. CASE q.op \notin {"unlink", "delete"}
  <2>1. p = Idle
    BY <1>4 DEF AfterSave
  <2> QED BY <1>4, <2>1, IdleType
<1> QED BY <1>2, <1>3, <1>4

LEMMA PurgeNext ==
    ASSUME Typed, NEW c \in Clients, Purge(c)
    PROVE  LET q == req[c] IN
           /\ q.at = "purge" /\ q.op = "delete"
           /\ \E p : /\ Becomes(c, p) /\ Same(p, q) /\ p.rel = q.rel /\ p.add = q.add
                     /\ \/ p.at = "purge" /\ p.side = "students" /\ q.side = "none"
                        \/ p.at = "erase" /\ q.side # "none"
<1> DEFINE q == req[c]
<1>1. q \in InFlight /\ Staged(q) /\ q.at = "purge"
  BY RequestType DEF Purge
<1>2. q.op = "delete" /\ q.user \in Users /\ q.about = Users
  BY <1>1 DEF Staged, OfPair
<1>3. CASE q.side = "none"
  <2>1. PICK p : p = [q EXCEPT !.side = "students"]
    OBVIOUS
  <2>2. /\ p \in InFlight /\ Same(p, q) /\ p.at = "purge" /\ p.side = "students"
        /\ p.rel = q.rel /\ p.add = q.add
    BY <1>1, <2>1 DEF InFlight, Same
  <2>3. Staged(p)
    BY <1>1, <1>2, <2>2 DEF Staged, Same, OfPair
  <2>4. req' = [req EXCEPT ![c] = p]
    BY <1>3, <2>1 DEF Purge, Goes
  <2> QED BY <1>1, <1>2, <1>3, <2>2, <2>3, <2>4 DEF Becomes
<1>4. CASE q.side # "none"
  <2>1. PICK p : p = [q EXCEPT !.at = "erase"]
    OBVIOUS
  <2>2. /\ p \in InFlight /\ Same(p, q) /\ p.at = "erase" /\ p.rel = q.rel /\ p.add = q.add
    BY <1>1, <2>1, OpTypes DEF InFlight, Same
  <2>3. Staged(p)
    BY <1>1, <1>2, <2>2 DEF Staged, Same, OfPair
  <2>4. req' = [req EXCEPT ![c] = p]
    BY <1>4, <2>1 DEF Purge, Goes
  <2> QED BY <1>1, <1>2, <1>4, <2>2, <2>3, <2>4 DEF Becomes
<1> QED BY <1>3, <1>4

\* The step of a request after which it is over, whatever happens to the tables.
Ends(c) == StoreHash(c) \/ InsertRequest(c) \/ Erase(c) \/ Abort(c)

LEMMA EndsNext ==
    ASSUME Typed, NEW c \in Clients, Ends(c)
    PROVE  Becomes(c, Idle)
BY IdleType DEF Ends, StoreHash, InsertRequest, Erase, Abort, Goes, Becomes

LEMMA NextCases ==
    ASSUME Next
    PROVE  \E c \in Clients :
             \/ Starting(c)
             \/ \E role \in {"STUDENT", "MENTOR"} : Register(c, role)
             \/ Sign(c) \/ StoreHash(c) \/ InsertRequest(c) \/ StoreAnswer(c) \/ Assign(c)
             \/ FindApproved(c)
             \/ \E r \in Requests : RejectOne(c, r)
             \/ Reread(c) \/ SaveWrite(c) \/ Purge(c) \/ Erase(c) \/ Abort(c)
BY DEF Next, Starting

\* The row that a save leaves: the columns that differed come from the entity.
Merged(q, row) == [f \in Columns |-> IF f \in q.cols THEN q.ent[f] ELSE row[f]]

LEMMA MergedType ==
    ASSUME NEW q \in InFlight, NEW row \in UserRows, NEW new, new = Merged(q, row)
    PROVE  /\ new \in UserRows
           /\ q.cols = {f \in Columns : q.ent[f] # row[f]} =>
                new.role = q.ent.role /\ new.switched = q.ent.switched /\ new.version = q.ent.version
<1>1. q.ent \in UserRows
  BY DEF InFlight
<1>2. new \in UserRows
  BY <1>1 DEF Merged, Columns, UserRows
<1>3. ASSUME q.cols = {f \in Columns : q.ent[f] # row[f]}
      PROVE  new.role = q.ent.role /\ new.switched = q.ent.switched /\ new.version = q.ent.version
  <2>1. \A f \in Columns : new[f] = q.ent[f]
    BY <1>3 DEF Merged
  <2>2. "role" \in Columns /\ "switched" \in Columns /\ "version" \in Columns
    BY DEF Columns
  <2>3. new["role"] = q.ent["role"] /\ new["switched"] = q.ent["switched"]
        /\ new["version"] = q.ent["version"]
    BY <2>1, <2>2
  <2> QED BY <2>3
<1> QED BY <1>2, <1>3

\* What a save that succeeds writes.
Saves(q, row) ==
    /\ Insertable(q) /\ ~(q.insert /\ Exists(q.user))
    /\ row \in UserRows /\ user' = [user EXCEPT ![q.user] = row]
    /\ row = IF q.insert THEN q.ent
             ELSE IF ~Exists(q.user) THEN user[q.user]
             ELSE Merged(q, user[q.user])
    /\ students' = (students \cup q.add) \ q.del
    /\ entered' = IF q.op \in Revoking THEN entered \ {q.user} ELSE entered

LEMMA SaveNext ==
    ASSUME Typed, NEW c \in Clients, SaveWrite(c)
    PROVE  LET q == req[c] IN
           /\ q.at = "reread" /\ q.op \in Saving /\ q.user \in Users
           /\ \E p : /\ Becomes(c, p) /\ p.rel = {} /\ p.add = {}
                     /\ \/ /\ p = Idle /\ UNCHANGED <<user, students, entered>>
                           /\ ~Insertable(q) \/ (q.insert /\ Exists(q.user))
                        \/ /\ \E row : Saves(q, row)
                           /\ \/ p = Idle /\ q.op \notin {"unlink", "delete"}
                              \/ Same(p, q) /\ q.op = "unlink" /\ p.at = "unlinked"
                              \/ Same(p, q) /\ q.op = "delete" /\ p.at = "purge" /\ p.side = "none"
<1> DEFINE q == req[c]
<1>1. q \in InFlight /\ Staged(q) /\ q.at = "reread"
  BY RequestType DEF SaveWrite
<1>2. q.op \in Saving /\ q.user \in Users
  BY <1>1 DEF Staged
<1>3. CASE ~(Insertable(q) /\ ~(q.insert /\ Exists(q.user)))
  <2>1. req' = [req EXCEPT ![c] = Idle] /\ UNCHANGED <<user, students, entered>>
    BY <1>3 DEF SaveWrite, Goes
  <2> QED BY <1>1, <1>2, <1>3, <2>1, IdleType DEF Becomes
<1>4. CASE Insertable(q) /\ ~(q.insert /\ Exists(q.user))
  <2>1. PICK row : row = IF q.insert THEN q.ent
                         ELSE IF ~Exists(q.user) THEN user[q.user]
                         ELSE Merged(q, user[q.user])
    OBVIOUS
  <2>2. row \in UserRows
    BY <1>1, <1>2, <2>1, RowTypes, MergedType DEF InFlight
  <2>3. user' = [user EXCEPT ![q.user] = row]
    BY <1>4, <2>1 DEF SaveWrite, Merged
  <2>4. /\ students' = (students \cup q.add) \ q.del
        /\ entered' = IF q.op \in Revoking THEN entered \ {q.user} ELSE entered
    BY <1>4 DEF SaveWrite, Revoking
  <2>5. Saves(q, row)
    BY <1>4, <2>1, <2>2, <2>3, <2>4 DEF Saves
  <2>6. PICK p : p = AfterSave(q)
    OBVIOUS
  <2>7. req' = [req EXCEPT ![c] = p]
    BY <1>4, <2>6 DEF SaveWrite, Goes
  <2> QED BY <1>1, <1>2, <2>5, <2>6, <2>7, AfterSaveType DEF Becomes
<1> QED BY <1>3, <1>4

-----------------------------------------------------------------------------
(* Types.                                                                   *)

LEMMA TypedBecomes ==
    ASSUME Typed, NEW c \in Clients, NEW p, Becomes(c, p)
    PROVE  req' \in [Clients -> InFlight] /\ \A d \in Clients : Staged(req'[d])
<1>1. req \in [Clients -> InFlight] /\ \A d \in Clients : Staged(req[d])
  BY DEF Typed
<1>2. \A d \in Clients : req'[d] = IF d = c THEN p ELSE req[d]
  BY <1>1 DEF Becomes
<1> QED BY <1>1, <1>2 DEF Becomes

\* The row of a connection request that is written.
RowOK(row) ==
    /\ row \in RequestRows
    /\ row.status = "NONE" => row = NoRequest
    /\ row.status = "PENDING" => row.student \in Users /\ row.mentor \in Users

LEMMA RequestsTyped ==
    ASSUME Typed, DOMAIN request' = Requests, request' = [r \in Requests |-> request'[r]],
           \A r \in Requests : request'[r] = request[r] \/ RowOK(request'[r])
    PROVE  /\ request' \in [Requests -> RequestRows]
           /\ \A r \in Requests :
                /\ request'[r].status = "NONE" => request'[r] = NoRequest
                /\ request'[r].status = "PENDING" =>
                       request'[r].student \in Users /\ request'[r].mentor \in Users
BY DEF Typed, RowOK

LEMMA TypedStep == Typed /\ [Next]_vars => Typed'
<1> SUFFICES ASSUME Typed, [Next]_vars PROVE Typed'
  OBVIOUS
<1>0. NewUser \in UserRows /\ NoRequest \in RequestRows
  BY NewRows
<1>1. ASSUME NEW c \in Clients, Starting(c) PROVE Typed'
  <2>1. PICK q : Begins(c, q)
    BY <1>1, StartingBegins
  <2>2. Becomes(c, q) /\ q.user \in Users
    <3>1. q.at # "idle"
      BY <2>1 DEF Begins, Begun
    <3> QED BY <2>1, <3>1 DEF Begins, Becomes, Staged
  <2>3. entered' \subseteq Users
    BY <2>1, <2>2 DEF Begins, Typed
  <2> QED BY <2>1, <2>2, <2>3, TypedBecomes DEF Begins, Typed
<1>2. ASSUME NEW c \in Clients, NEW role \in {"STUDENT", "MENTOR"}, Register(c, role)
      PROVE  Typed'
  <2>1. PICK p : Becomes(c, p) /\ Me(c) \in Users
    BY <1>2, RegisterNext
  <2>2. [NewUser EXCEPT !.role = role, !.code = (role = "MENTOR")] \in UserRows
    <3>1. role \in Roles /\ (role = "MENTOR") \in BOOLEAN
      BY DEF Roles
    <3> QED BY <1>0, <3>1 DEF UserRows
  <2>3. user' \in [Users -> UserRows] /\ entered' \subseteq Users
    BY <1>2, <2>1, <2>2 DEF Register, Typed
  <2> QED BY <1>2, <2>1, <2>3, TypedBecomes DEF Register, Typed
<1>3. ASSUME NEW c \in Clients, Sign(c) PROVE Typed'
  <2>1. PICK p : Becomes(c, p)
    BY <1>3, SignNext
  <2> QED BY <1>3, <2>1, TypedBecomes DEF Sign, Typed
<1>4. ASSUME NEW c \in Clients, StoreHash(c) PROVE Typed'
  <2> DEFINE q == req[c]
  <2>1. Becomes(c, Idle)
    BY <1>4, EndsNext DEF Ends
  <2>2. q.user \in Users /\ q.ent \in UserRows
    BY <1>4, RequestType DEF StoreHash, Staged, InFlight
  <2>3. user' \in [Users -> UserRows]
    <3>1. user[q.user] \in UserRows
      BY <2>2 DEF Typed
    <3>2. PICK h \in BOOLEAN : h = (user[q.user].hash \/ Exists(q.user))
      OBVIOUS
    <3>3. [user[q.user] EXCEPT !.hash = h] \in UserRows
      BY <3>1 DEF UserRows
    <3>4. user' = [user EXCEPT ![q.user] = [user[q.user] EXCEPT !.hash = h]]
      BY <1>4, <3>2 DEF StoreHash
    <3> QED BY <3>3, <3>4 DEF Typed
  <2>4. issued' \subseteq Users \X Versions
    BY <1>4, <2>2 DEF StoreHash, Typed, UserRows
  <2> QED BY <1>4, <2>1, <2>3, <2>4, TypedBecomes DEF StoreHash, Typed
<1>5. ASSUME NEW c \in Clients, InsertRequest(c) PROVE Typed'
  <2> DEFINE q == req[c]
  <2>1. Becomes(c, Idle)
    BY <1>5, EndsNext DEF Ends
  <2>2. q.user \in Users /\ q.peer \in Users
    BY <1>5, RequestType DEF InsertRequest, Staged, OfPair
  <2> DEFINE new == [status |-> "PENDING", student |-> q.peer, mentor |-> q.user]
  <2>3. RowOK(new)
    BY <2>2 DEF RowOK, RequestRows, Statuses
  <2>4. PICK r \in Requests : request' = [request EXCEPT ![r] = new]
    BY <1>5 DEF InsertRequest
  <2>5. \A i \in Requests : request'[i] = request[i] \/ RowOK(request'[i])
    BY <2>3, <2>4 DEF Typed
  <2>6. DOMAIN request' = Requests /\ request' = [i \in Requests |-> request'[i]]
    BY <2>4 DEF Typed
  <2> HIDE DEF new
  <2> QED BY <1>5, <2>1, <2>5, <2>6, TypedBecomes, RequestsTyped DEF InsertRequest, Typed
<1>6. ASSUME NEW c \in Clients, StoreAnswer(c) PROVE Typed'
  <2> DEFINE q == req[c]
             new == [status |-> q.status, student |-> q.peer, mentor |-> q.user]
  <2>1. PICK p : Becomes(c, p) /\ q.status \in {"APPROVED", "REJECTED"} /\ q.at = "answer"
                 /\ q.op = "respond"
    BY <1>6, AnswerNext
  <2>2. q.user \in Users /\ q.peer \in Users
    BY <2>1, RequestType DEF Staged, OfPair
  <2>3. RowOK(new)
    BY <2>1, <2>2 DEF RowOK, RequestRows, Statuses
  <2>4. request' = request \/ request' = [request EXCEPT ![q.row] = new]
    BY <1>6 DEF StoreAnswer
  <2>5. \A i \in Requests : request'[i] = request[i] \/ RowOK(request'[i])
    BY <2>3, <2>4 DEF Typed
  <2>6. DOMAIN request' = Requests /\ request' = [i \in Requests |-> request'[i]]
    BY <2>4 DEF Typed
  <2>7. approved' \subseteq Pairs
    BY <1>6, <2>2 DEF StoreAnswer, Typed, Pairs
  <2> HIDE DEF new
  <2> QED BY <1>6, <2>1, <2>5, <2>6, <2>7, TypedBecomes, RequestsTyped DEF StoreAnswer, Typed
<1>7. ASSUME NEW c \in Clients, Assign(c) PROVE Typed'
  <2>1. PICK p : Becomes(c, p)
    BY <1>7, AssignNext
  <2> QED BY <1>7, <2>1, TypedBecomes DEF Assign, Typed
<1>8. ASSUME NEW c \in Clients, FindApproved(c) PROVE Typed'
  <2>1. PICK p : Becomes(c, p)
    BY <1>8, FindNext
  <2> QED BY <1>8, <2>1, TypedBecomes DEF FindApproved, Typed
<1>9. ASSUME NEW c \in Clients, NEW r \in Requests, RejectOne(c, r) PROVE Typed'
  <2>1. PICK p : Becomes(c, p)
    BY <1>9, RejectNext
  <2>2. request[r] \in RequestRows
    BY DEF Typed
  <2>3. PICK new : new = [request[r] EXCEPT !.status = "REJECTED"]
    OBVIOUS
  <2>4. RowOK(new)
    BY <2>2, <2>3 DEF RowOK, RequestRows, Statuses
  <2>5. request' = request \/ request' = [request EXCEPT ![r] = new]
    BY <1>9, <2>3 DEF RejectOne
  <2>6. \A i \in Requests : request'[i] = request[i] \/ RowOK(request'[i])
    BY <2>4, <2>5 DEF Typed
  <2>7. DOMAIN request' = Requests /\ request' = [i \in Requests |-> request'[i]]
    BY <2>5 DEF Typed
  <2> QED BY <1>9, <2>1, <2>6, <2>7, TypedBecomes, RequestsTyped DEF RejectOne, Typed
<1>10. ASSUME NEW c \in Clients, Reread(c) PROVE Typed'
  <2>1. PICK p : Becomes(c, p)
    BY <1>10, RereadNext
  <2> QED BY <1>10, <2>1, TypedBecomes DEF Reread, Typed
<1>11. ASSUME NEW c \in Clients, SaveWrite(c) PROVE Typed'
  <2> DEFINE q == req[c]
  <2>1. PICK p : /\ Becomes(c, p)
                 /\ UNCHANGED <<user, students, entered>> \/ \E row : Saves(q, row)
    BY <1>11, SaveNext
  <2>2. q \in InFlight
    BY RequestType
  <2>3. user' \in [Users -> UserRows] /\ students' \subseteq Pairs /\ entered' \subseteq Users
    BY <2>1, <2>2 DEF Saves, Typed, InFlight
  <2> QED BY <1>11, <2>1, <2>3, TypedBecomes DEF SaveWrite, Typed
<1>12. ASSUME NEW c \in Clients, Purge(c) PROVE Typed'
  <2>1. PICK p : Becomes(c, p)
    BY <1>12, PurgeNext
  <2>2. RowOK(NoRequest)
    BY <1>0 DEF RowOK, NoRequest
  <2>3. \A i \in Requests : request'[i] = request[i] \/ RowOK(request'[i])
    BY <1>12, <2>2 DEF Purge
  <2>4. DOMAIN request' = Requests /\ request' = [i \in Requests |-> request'[i]]
    BY <1>12 DEF Purge
  <2> QED BY <1>12, <2>1, <2>3, <2>4, TypedBecomes, RequestsTyped DEF Purge, Typed
<1>13. ASSUME NEW c \in Clients, Erase(c) PROVE Typed'
  <2>1. Becomes(c, Idle)
    BY <1>13, EndsNext DEF Ends
  <2>2. RowOK(NoRequest)
    BY <1>0 DEF RowOK, NoRequest
  <2>3. \A i \in Requests : request'[i] = request[i] \/ RowOK(request'[i])
    BY <1>13, <2>2 DEF Erase
  <2>4. DOMAIN request' = Requests /\ request' = [i \in Requests |-> request'[i]]
    BY <1>13 DEF Erase, Typed
  <2>5. [NewUser EXCEPT !.role = "DELETED"] \in UserRows
    BY <1>0 DEF UserRows, Roles
  <2>6. user' \in [Users -> UserRows] /\ students' \subseteq Pairs
    BY <1>13, <2>5 DEF Erase, Typed
  <2> QED BY <1>13, <2>1, <2>3, <2>4, <2>6, TypedBecomes, RequestsTyped DEF Erase, Typed
<1>14. ASSUME NEW c \in Clients, Abort(c) PROVE Typed'
  <2>1. Becomes(c, Idle)
    BY <1>14, EndsNext DEF Ends
  <2> QED BY <1>14, <2>1, TypedBecomes DEF Abort, Typed
<1>15. CASE UNCHANGED vars
  BY <1>15 DEF vars, Typed
<1> QED
  BY <1>1, <1>2, <1>3, <1>4, <1>5, <1>6, <1>7, <1>8, <1>9, <1>10, <1>11, <1>12, <1>13, <1>14,
     <1>15, NextCases

LEMMA TypedInit == Init => Typed
<1> SUFFICES ASSUME Init PROVE Typed
  OBVIOUS
<1>1. ASSUME NEW u \in Users PROVE Registered(u) \in UserRows
  <2>1. NewUser \in UserRows /\ (IF u \in Mentors THEN "MENTOR" ELSE "STUDENT") \in Roles
    BY NewRows DEF Roles
  <2>2. (u \in Mentors) \in BOOLEAN
    OBVIOUS
  <2>3. [NewUser EXCEPT !.role = IF u \in Mentors THEN "MENTOR" ELSE "STUDENT"] \in UserRows
    BY <2>1 DEF UserRows
  <2> QED BY <2>2, <2>3 DEF Registered, UserRows
<1>2. 0 \in Versions
  BY DEF Versions
<1>3. user \in [Users -> UserRows] /\ request \in [Requests -> RequestRows]
  BY <1>1, NewRows DEF Init
<1>4. \A r \in Requests : request[r] = NoRequest
  BY DEF Init
<1>5. req \in [Clients -> InFlight] /\ \A c \in Clients : Staged(req[c])
  BY IdleType DEF Init
<1>6. issued \subseteq Users \X Versions /\ entered \subseteq Users /\ students = {} /\ approved = {}
  BY <1>2 DEF Init
<1>7. NoRequest.status = "NONE"
  BY DEF NoRequest
<1> QED BY <1>3, <1>4, <1>5, <1>6, <1>7 DEF Init, Typed

LEMMA TypedTypes == Typed => TypeOK
<1> SUFFICES ASSUME Typed PROVE TypeOK
  OBVIOUS
<1>1. ASSUME NEW c \in Clients
      PROVE  LET q == req[c] IN
             /\ DOMAIN q = DOMAIN Idle
             /\ q.at \in Ats /\ q.op \in Ops /\ q.user \in Users \cup {NULL}
             /\ q.ent \in UserRows /\ q.rel \cup q.add \cup q.del \subseteq Pairs
             /\ q.row \in Requests \cup {NULL} /\ q.rows \subseteq Requests
  <2>1. req[c] \in InFlight
    BY DEF Typed
  <2>2. DOMAIN req[c] = DOMAIN Idle
    BY <2>1 DEF InFlight, Idle
  <2> QED BY <2>1, <2>2 DEF InFlight
<1> QED BY <1>1 DEF Typed, TypeOK

\* Every variable keeps its type; a free id of a connection request is of nobody.
THEOREM TypeCorrect == Spec => []TypeOK
<1>1. Spec => []Typed
  BY TypedInit, TypedStep, PTL DEF Spec
<1> QED BY <1>1, TypedTypes, PTL

-----------------------------------------------------------------------------
(* Registrations. Whoever is registered stays so, or is deleted.            *)

Registers(u) == user[u].role # "NEW" => user'[u].role # "NEW"

LEMMA NeverNew == Typed /\ KnownInv /\ [Next]_vars => \A u \in Users : Registers(u)
<1> SUFFICES ASSUME Typed, KnownInv, [Next]_vars PROVE \A u \in Users : Registers(u)
  OBVIOUS
<1>0. \A u \in Users : user[u] \in UserRows
  BY RowTypes
<1>1. CASE user' = user
  BY <1>1 DEF Registers
<1>2. ASSUME NEW c \in Clients, NEW role \in {"STUDENT", "MENTOR"}, Register(c, role)
      PROVE  \A u \in Users : Registers(u)
  <2>1. role # "NEW" /\ [NewUser EXCEPT !.role = role, !.code = (role = "MENTOR")].role = role
    BY DEF NewUser
  <2> QED BY <1>2, <2>1 DEF Register, Registers, Typed
<1>3. ASSUME NEW c \in Clients, StoreHash(c) PROVE \A u \in Users : Registers(u)
  <2>1. \A u \in Users : user'[u].role = user[u].role
    BY <1>0, <1>3 DEF StoreHash, Typed, UserRows
  <2> QED BY <2>1 DEF Registers
<1>4. ASSUME NEW c \in Clients, SaveWrite(c) PROVE \A u \in Users : Registers(u)
  <2> DEFINE q == req[c]
  <2>1. /\ q.user \in Users /\ q.at = "reread"
        /\ UNCHANGED <<user, students, entered>> \/ \E row : Saves(q, row)
    BY <1>4, SaveNext
  <2>2. q \in InFlight /\ q.ent.role # "NEW"
    BY <2>1, RequestType DEF KnownInv, Known
  <2>3. ASSUME NEW row, Saves(q, row), user[q.user].role # "NEW" PROVE row.role # "NEW"
    <3>1. CASE q.insert
      BY <2>2, <2>3, <3>1 DEF Saves
    <3>2. CASE ~q.insert /\ ~Exists(q.user)
      BY <2>3, <3>2 DEF Saves
    <3>3. CASE ~q.insert /\ Exists(q.user)
      <4>1. row = Merged(q, user[q.user])
        BY <2>3, <3>3 DEF Saves
      <4>2. row.role = IF "role" \in q.cols THEN q.ent.role ELSE user[q.user].role
        BY <4>1 DEF Merged, Columns
      <4> QED BY <2>2, <2>3, <4>2
    <3> QED BY <3>1, <3>2, <3>3
  <2> QED BY <2>1, <2>3 DEF Saves, Registers, Typed
<1>5. ASSUME NEW c \in Clients, Erase(c) PROVE \A u \in Users : Registers(u)
  <2>1. [NewUser EXCEPT !.role = "DELETED"].role # "NEW"
    BY DEF NewUser
  <2> QED BY <1>5, <2>1 DEF Erase, Registers, Typed
<1>6. ASSUME NEW c \in Clients,
             \/ Starting(c) \/ Sign(c) \/ InsertRequest(c) \/ StoreAnswer(c) \/ Assign(c)
             \/ FindApproved(c) \/ (\E r \in Requests : RejectOne(c, r))
             \/ Reread(c) \/ Purge(c) \/ Abort(c)
      PROVE  user' = user
  <2>1. CASE Starting(c)
    BY <2>1, StartingBegins DEF Begins
  <2> QED BY <1>6, <2>1 DEF Sign, InsertRequest, StoreAnswer, Assign, FindApproved, RejectOne,
             Reread, Purge, Abort
<1>7. CASE UNCHANGED vars
  BY <1>7, <1>1 DEF vars
<1> QED BY <1>1, <1>2, <1>3, <1>4, <1>5, <1>6, <1>7, NextCases

\* What a step makes of the requests.
Moves ==
    \/ \E c \in Clients : \E q : Begins(c, q)
    \/ \E c \in Clients, role \in {"STUDENT", "MENTOR"} : Register(c, role)
    \/ \E c \in Clients : \E p : Becomes(c, p) /\ (p = Idle \/ Same(p, req[c]))
    \/ req' = req

LEMMA StepMoves == Typed /\ [Next]_vars => Moves /\ mix' = mix
<1> SUFFICES ASSUME Typed, [Next]_vars PROVE Moves /\ mix' = mix
  OBVIOUS
<1>1. ASSUME NEW c \in Clients, Starting(c) PROVE Moves /\ mix' = mix
  BY <1>1, StartingBegins DEF Moves, Begins
<1>2. ASSUME NEW c \in Clients, NEW role \in {"STUDENT", "MENTOR"}, Register(c, role)
      PROVE  Moves /\ mix' = mix
  BY <1>2 DEF Register, Moves
<1>3. ASSUME NEW c \in Clients, Ends(c) PROVE Moves /\ mix' = mix
  BY <1>3, EndsNext DEF Ends, StoreHash, InsertRequest, Erase, Abort, Moves
<1>4. ASSUME NEW c \in Clients, Sign(c) PROVE Moves /\ mix' = mix
  BY <1>4, SignNext DEF Sign, Moves
<1>5. ASSUME NEW c \in Clients, StoreAnswer(c) PROVE Moves /\ mix' = mix
  BY <1>5, AnswerNext DEF StoreAnswer, Moves
<1>6. ASSUME NEW c \in Clients, Assign(c) PROVE Moves /\ mix' = mix
  BY <1>6, AssignNext DEF Assign, Moves
<1>7. ASSUME NEW c \in Clients, FindApproved(c) PROVE Moves /\ mix' = mix
  BY <1>7, FindNext DEF FindApproved, Moves
<1>8. ASSUME NEW c \in Clients, NEW r \in Requests, RejectOne(c, r) PROVE Moves /\ mix' = mix
  BY <1>8, RejectNext DEF RejectOne, Moves
<1>9. ASSUME NEW c \in Clients, Reread(c) PROVE Moves /\ mix' = mix
  BY <1>9, RereadNext DEF Reread, Moves
<1>10. ASSUME NEW c \in Clients, SaveWrite(c) PROVE Moves /\ mix' = mix
  BY <1>10, SaveNext DEF SaveWrite, Moves
<1>11. ASSUME NEW c \in Clients, Purge(c) PROVE Moves /\ mix' = mix
  BY <1>11, PurgeNext DEF Purge, Moves
<1>12. CASE UNCHANGED vars
  BY <1>12 DEF vars, Moves
<1> QED BY <1>1, <1>2, <1>3, <1>4, <1>5, <1>6, <1>7, <1>8, <1>9, <1>10, <1>11, <1>12,
           NextCases DEF Ends

LEMMA KeyUsers ==
    ASSUME NEW q \in InFlight, Staged(q), q.at # "idle"
    PROVE  /\ q.user \in Key(q) /\ Key(q) \subseteq Users /\ Key(q) \subseteq q.about
           /\ q.op # "register" \/ q.about = {q.user}
<1>1. q.op = "register" => q.op \notin OfPair \cup {"delete"}
  BY DEF OfPair
<1>2. q.user \in q.about
  BY DEF Staged, OfPair
<1>3. q.op \in {"request", "respond"} => q.op \in OfPair
  BY DEF OfPair
<1> QED BY <1>1, <1>2, <1>3 DEF Key, Staged

LEMMA SameKey ==
    ASSUME NEW p, NEW q, Same(p, q)
    PROVE  Key(p) = Key(q)
BY DEF Same, Key, OfPair

LEMMA ApartStep == Typed /\ KnownInv /\ Apart /\ [Next]_vars => Apart'
<1> SUFFICES ASSUME Typed, KnownInv, Apart, [Next]_vars, mix.serial,
                    NEW c \in Clients, NEW d \in Clients, c # d
             PROVE  Clear(req'[c], req'[d]) \/ Clear(req'[d], req'[c])
  BY StepMoves DEF Apart, Clear
<1>1. req \in [Clients -> InFlight] /\ (Clear(req[c], req[d]) \/ Clear(req[d], req[c]))
  BY DEF Typed, Apart
<1>2. ASSUME NEW b \in Clients, NEW q, Begins(b, q)
      PROVE  Clear(req'[c], req'[d]) \/ Clear(req'[d], req'[c])
  <2>1. \A a \in Clients : req'[a] = IF a = b THEN q ELSE req[a]
    BY <1>1, <1>2 DEF Begins
  <2>2. \A a \in Clients : req[a].about \cap q.about = {}
    BY <1>2 DEF Begins
  <2> QED BY <1>1, <2>1, <2>2 DEF Clear
<1>3. ASSUME NEW b \in Clients, NEW role \in {"STUDENT", "MENTOR"}, Register(b, role)
      PROVE  Clear(req'[c], req'[d]) \/ Clear(req'[d], req'[c])
  <2>1. PICK p : /\ Becomes(b, p) /\ p.op = "register" /\ p.user = Me(b) /\ p.about = {Me(b)}
                 /\ Me(b) \in Users /\ user[Me(b)].role = "NEW"
    BY <1>3, RegisterNext DEF Register
  <2>2. \A a \in Clients : req'[a] = IF a = b THEN p ELSE req[a]
    BY <1>1, <2>1 DEF Becomes
  <2>3. ASSUME NEW a \in Clients PROVE Clear(p, req[a])
    <3>1. req[a] \in InFlight /\ Staged(req[a]) /\ Known(req[a])
      BY RequestType DEF KnownInv
    <3>2. CASE req[a].at = "idle"
      <4>1. req[a].about = {}
        BY <3>1, <3>2, IdleType DEF Staged
      <4> QED BY <4>1 DEF Clear
    <3>3. CASE req[a].at # "idle"
      <4>1. Me(b) \notin Key(req[a]) /\ req[a].user \in Key(req[a])
        BY <2>1, <3>1, <3>3, KeyUsers DEF Known
      <4>2. req[a].op \in {"unlink", "delete"} \/ req[a].about = Key(req[a])
        BY <3>1, <3>3 DEF Staged, OfPair, Key
      <4> QED BY <2>1, <4>1, <4>2 DEF Clear
    <3> QED BY <3>2, <3>3
  <2> QED BY <1>1, <2>2, <2>3
<1>4. ASSUME NEW b \in Clients, NEW p, Becomes(b, p), p = Idle \/ Same(p, req[b])
      PROVE  Clear(req'[c], req'[d]) \/ Clear(req'[d], req'[c])
  <2>1. \A a \in Clients : req'[a] = IF a = b THEN p ELSE req[a]
    BY <1>1, <1>4 DEF Becomes
  <2>2. CASE p = Idle
    BY <1>1, <2>1, <2>2, IdleType DEF Clear
  <2>3. CASE Same(p, req[b])
    BY <1>1, <2>1, <2>3 DEF Clear, Same
  <2> QED BY <1>4, <2>2, <2>3
<1>5. CASE req' = req
  BY <1>1, <1>5
<1> QED BY <1>2, <1>3, <1>4, <1>5, StepMoves DEF Moves

-----------------------------------------------------------------------------
(* Whatever overlaps, a request relies on users who were registered.        *)

LEMMA KnownKeeps ==
    ASSUME NEW q \in InFlight, Staged(q), Known(q), \A u \in Users : Registers(u)
    PROVE  Known(q)'
<1>1. q.at # "idle" => \A v \in Key(q) : user'[v].role # "NEW"
  BY KeyUsers DEF Known, Registers
<1> QED BY <1>1 DEF Known, Key

LEMMA KnownSame ==
    ASSUME NEW q \in InFlight, Staged(q), Known(q), q.at # "idle",
           \A u \in Users : Registers(u),
           NEW p, Same(p, q), p.at \in {"loaded", "reread"} => p.ent.role # "NEW"
    PROVE  Known(p)'
<1>1. \A v \in Key(p) : user'[v].role # "NEW"
  BY KeyUsers, SameKey DEF Known, Registers
<1> QED BY <1>1 DEF Known, Key

LEMMA KnownIdle == Known(Idle)'
BY IdleType DEF Known

\* The requests after a step, when the one that moved is known.
LEMMA KnownBecomes ==
    ASSUME Typed, KnownInv, \A u \in Users : Registers(u),
           NEW c \in Clients, NEW p, Becomes(c, p), Known(p)'
    PROVE  \A d \in Clients : Known(req[d])'
<1>1. \A d \in Clients : req'[d] = IF d = c THEN p ELSE req[d]
  BY DEF Typed, Becomes
<1>2. ASSUME NEW d \in Clients, d # c PROVE Known(req[d])'
  <2>1. PICK q : q = req[d]
    OBVIOUS
  <2>2. Known(q)'
    BY <2>1, RequestType, KnownKeeps DEF KnownInv
  <2>3. req'[d] = q
    BY <1>1, <1>2, <2>1
  <2> QED BY <2>2, <2>3 DEF Known, Key
<1>3. Known(req[c])'
  <2>1. req'[c] = p
    BY <1>1
  <2> QED BY <2>1 DEF Known, Key
<1> QED BY <1>2, <1>3

\* What of the tables the invariant speaks of.
KnownTables ==
    /\ \A u \in Users, v \in Versions : <<u, v>> \in issued => user[u].role # "NEW"
    /\ \A r \in Requests :
         request[r].status = "PENDING" =>
             user[request[r].student].role # "NEW" /\ user[request[r].mentor].role # "NEW"

LEMMA KnownTablesKept ==
    ASSUME Typed, KnownInv, \A u \in Users : Registers(u),
           issued' = issued,
           \A r \in Requests : request'[r] = request[r] \/ request'[r].status # "PENDING"
    PROVE  KnownTables'
<1>1. ASSUME NEW u \in Users, NEW v \in Versions, <<u, v>> \in issued' PROVE user'[u].role # "NEW"
  BY <1>1 DEF KnownInv, Registers
<1>2. ASSUME NEW r \in Requests, request'[r].status = "PENDING"
      PROVE  user'[request'[r].student].role # "NEW" /\ user'[request'[r].mentor].role # "NEW"
  <2>1. request'[r] = request[r]
    BY <1>2
  <2>2. request[r].student \in Users /\ request[r].mentor \in Users
    BY <1>2, <2>1 DEF Typed
  <2> QED BY <1>2, <2>1, <2>2 DEF KnownInv, Registers
<1> QED BY <1>1, <1>2 DEF KnownTables

LEMMA KnownStep == Typed /\ KnownInv /\ [Next]_vars => KnownInv'
<1> SUFFICES ASSUME Typed, KnownInv, [Next]_vars PROVE KnownInv'
  OBVIOUS
<1>0. \A u \in Users : Registers(u)
  BY NeverNew
<1>00. ASSUME KnownTables', \A d \in Clients : Known(req[d])' PROVE KnownInv'
  BY <1>00 DEF KnownTables, KnownInv
<1>1. ASSUME NEW c \in Clients, Starting(c) PROVE KnownInv'
  <2>1. PICK q : Begins(c, q)
    BY <1>1, StartingBegins
  <2>2. /\ q \in InFlight /\ Staged(q) /\ Begun(q) /\ UNCHANGED <<user, issued, request>>
        /\ q.at # "idle" /\ Becomes(c, q)
    BY <2>1 DEF Begins, Begun, Becomes
  <2>3. \A v \in Key(q) : user[v].role # "NEW"
    <3>1. user[q.user].role # "NEW"
      BY <2>2 DEF Begun, Exists
    <3>2. ASSUME q.op \in {"request", "respond"} PROVE user[q.peer].role # "NEW"
      <4>1. q.at \in {"insert", "answer"}
        BY <2>2, <3>2 DEF Begun, Staged, Entering, Saving, Revoking
      <4>2. CASE q.at = "insert"
        BY <2>2, <4>2 DEF Begun, Exists
      <4>3. CASE q.at = "answer"
        <5>1. /\ request[q.row] = [status |-> "PENDING", student |-> q.peer, mentor |-> q.user]
              /\ q.row \in Requests
          BY <2>2, <4>3 DEF Begun, Staged
        <5> QED BY <5>1 DEF KnownInv
      <4> QED BY <4>1, <4>2, <4>3
    <3> QED BY <3>1, <3>2 DEF Key
  <2>4. q.at \in {"loaded", "reread"} => q.ent.role # "NEW"
    BY <2>2 DEF Begun, Ahead
  <2>5. Known(q)
    BY <2>3, <2>4 DEF Known
  <2>6. Known(q)' /\ KnownTables'
    BY <1>0, <2>2, <2>5, KnownKeeps, KnownTablesKept
  <2> QED BY <1>0, <1>00, <2>2, <2>6, KnownBecomes
<1>2. ASSUME NEW c \in Clients, NEW role \in {"STUDENT", "MENTOR"}, Register(c, role)
      PROVE  KnownInv'
  <2>1. PICK p : /\ Becomes(c, p) /\ p.op = "register" /\ p.user = Me(c) /\ Me(c) \in Users
                 /\ p.at = "enter"
    BY <1>2, RegisterNext
  <2>2. user'[Me(c)].role = role
    BY <1>2, <2>1 DEF Register, Typed, NewUser
  <2>3. Known(p)'
    BY <2>1, <2>2 DEF Known, Key
  <2>4. KnownTables'
    BY <1>0, <1>2, KnownTablesKept DEF Register
  <2> QED BY <1>0, <1>00, <2>1, <2>3, <2>4, KnownBecomes
<1>3. ASSUME NEW c \in Clients, NEW p, Becomes(c, p), issued' = issued,
             \A r \in Requests : request'[r] = request[r] \/ request'[r].status # "PENDING",
             \/ p = Idle
             \/ /\ Same(p, req[c]) /\ req[c].at # "idle"
                /\ p.at \in {"loaded", "reread"} => p.ent.role # "NEW"
      PROVE  KnownInv'
  <2>1. KnownTables'
    BY <1>0, <1>3, KnownTablesKept
  <2>2. Known(p)'
    <3>1. CASE p = Idle
      BY <3>1, KnownIdle
    <3>2. CASE p # Idle
      <4>1. PICK q \in InFlight : q = req[c] /\ Staged(q) /\ Known(q)
        BY RequestType DEF KnownInv
      <4> QED BY <1>0, <1>3, <3>2, <4>1, KnownSame
    <3> QED BY <3>1, <3>2
  <2> QED BY <1>0, <1>00, <1>3, <2>1, <2>2, KnownBecomes
<1>4. ASSUME NEW c \in Clients, Sign(c) PROVE KnownInv'
  <2>1. PICK p : Becomes(c, p) /\ Same(p, req[c]) /\ p.at = "issue" /\ req[c].at = "enter"
    BY <1>4, SignNext
  <2> QED BY <1>3, <1>4, <2>1 DEF Sign
<1>5. ASSUME NEW c \in Clients, StoreHash(c) PROVE KnownInv'
  <2> DEFINE q == req[c]
  <2>1. Becomes(c, Idle)
    BY <1>5, EndsNext DEF Ends
  <2>2. q.at = "issue" /\ q.user \in Users /\ q.user \in Key(q) /\ user[q.user].role # "NEW"
    BY <1>5, RequestType, KeyUsers DEF StoreHash, Staged, KnownInv, Known
  <2>3. ASSUME NEW u \in Users, NEW v \in Versions, <<u, v>> \in issued'
        PROVE  user'[u].role # "NEW"
    BY <1>0, <1>5, <2>2, <2>3 DEF StoreHash, KnownInv, Registers
  <2>4. ASSUME NEW r \in Requests, request'[r].status = "PENDING"
        PROVE  user'[request'[r].student].role # "NEW" /\ user'[request'[r].mentor].role # "NEW"
    <3>1. request' = request
      BY <1>5 DEF StoreHash
    <3>2. request[r].student \in Users /\ request[r].mentor \in Users
      BY <2>4, <3>1 DEF Typed
    <3> QED BY <1>0, <2>4, <3>1, <3>2 DEF KnownInv, Registers
  <2>5. KnownTables'
    BY <2>3, <2>4 DEF KnownTables
  <2> QED BY <1>0, <1>00, <2>1, <2>5, KnownIdle, KnownBecomes
<1>6. ASSUME NEW c \in Clients, InsertRequest(c) PROVE KnownInv'
  <2> DEFINE q == req[c]
             new == [status |-> "PENDING", student |-> q.peer, mentor |-> q.user]
  <2>1. Becomes(c, Idle)
    BY <1>6, EndsNext DEF Ends
  <2>2. q.user \in Users /\ q.peer \in Users
    BY <1>6, RequestType DEF InsertRequest, Staged, OfPair
  <2>3. user'[q.user].role # "NEW" /\ user'[q.peer].role # "NEW"
    BY <1>0, <1>6, <2>2 DEF InsertRequest, Exists, Registers
  <2>4. PICK r \in Requests : request' = [request EXCEPT ![r] = new]
    BY <1>6 DEF InsertRequest
  <2>5. ASSUME NEW i \in Requests, request'[i].status = "PENDING"
        PROVE  user'[request'[i].student].role # "NEW" /\ user'[request'[i].mentor].role # "NEW"
    <3>1. CASE i = r
      <4>1. request'[i] = new
        BY <2>4, <3>1 DEF Typed
      <4> QED BY <2>3, <4>1
    <3>2. CASE i # r
      <4>1. request'[i] = request[i]
        BY <2>4, <3>2 DEF Typed
      <4>2. request[i].student \in Users /\ request[i].mentor \in Users
        BY <2>5, <4>1 DEF Typed
      <4> QED BY <1>0, <2>5, <4>1, <4>2 DEF KnownInv, Registers
    <3> QED BY <3>1, <3>2
  <2>6. ASSUME NEW u \in Users, NEW v \in Versions, <<u, v>> \in issued'
        PROVE  user'[u].role # "NEW"
    BY <1>0, <1>6, <2>6 DEF InsertRequest, KnownInv, Registers
  <2>7. KnownTables'
    BY <2>5, <2>6 DEF KnownTables
  <2> QED BY <1>0, <1>00, <2>1, <2>7, KnownIdle, KnownBecomes
<1>7. ASSUME NEW c \in Clients, StoreAnswer(c) PROVE KnownInv'
  <2> DEFINE q == req[c]
             new == [status |-> q.status, student |-> q.peer, mentor |-> q.user]
  <2>1. PICK p : /\ Becomes(c, p) /\ q.at = "answer" /\ q.status \in {"APPROVED", "REJECTED"}
                 /\ p = Idle \/ (Same(p, q) /\ p.at = "assign")
    BY <1>7, AnswerNext
  <2>2. request' = request \/ request' = [request EXCEPT ![q.row] = new]
    BY <1>7 DEF StoreAnswer
  <2>3. new.status # "PENDING"
    BY <2>1
  <2>4. \A r \in Requests : request'[r] = request[r] \/ request'[r].status # "PENDING"
    BY <2>2, <2>3 DEF Typed
  <2> QED BY <1>3, <1>7, <2>1, <2>4 DEF StoreAnswer
<1>8. ASSUME NEW c \in Clients, Assign(c) PROVE KnownInv'
  <2> DEFINE q == req[c]
  <2>1. PICK p : /\ Becomes(c, p) /\ q.at = "assign"
                 /\ p = Idle \/ (Same(p, q) /\ p.ent = user[q.user] /\ Exists(q.user))
    BY <1>8, AssignNext
  <2> QED BY <1>3, <1>8, <2>1 DEF Assign, Exists
<1>9. ASSUME NEW c \in Clients, FindApproved(c) PROVE KnownInv'
  <2>1. PICK p : /\ Becomes(c, p) /\ req[c].at = "unlinked"
                 /\ p = Idle \/ (Same(p, req[c]) /\ p.at = "reject")
    BY <1>9, FindNext
  <2> QED BY <1>3, <1>9, <2>1 DEF FindApproved
<1>10. ASSUME NEW c \in Clients, NEW r \in Requests, RejectOne(c, r) PROVE KnownInv'
  <2>1. PICK p : /\ Becomes(c, p) /\ req[c].at = "reject"
                 /\ p = Idle \/ (Same(p, req[c]) /\ p.at = "reject")
    BY <1>10, RejectNext
  <2>2. request[r] \in RequestRows
    BY DEF Typed
  <2>3. \A i \in Requests : request'[i] = request[i] \/ request'[i].status # "PENDING"
    BY <1>10, <2>2 DEF RejectOne, Typed, RequestRows
  <2> QED BY <1>3, <1>10, <2>1, <2>3 DEF RejectOne
<1>11. ASSUME NEW c \in Clients, Reread(c) PROVE KnownInv'
  <2> DEFINE q == req[c]
  <2>1. PICK p : Becomes(c, p) /\ q.at = "loaded" /\ Same(p, q) /\ p.ent = q.ent
    BY <1>11, RereadNext
  <2>2. q.ent.role # "NEW"
    BY <2>1 DEF KnownInv, Known
  <2> QED BY <1>3, <1>11, <2>1, <2>2 DEF Reread
<1>12. ASSUME NEW c \in Clients, SaveWrite(c) PROVE KnownInv'
  <2>1. PICK p : /\ Becomes(c, p) /\ req[c].at = "reread"
                 /\ p = Idle \/ (Same(p, req[c]) /\ p.at \in {"unlinked", "purge"})
    BY <1>12, SaveNext
  <2> QED BY <1>3, <1>12, <2>1 DEF SaveWrite
<1>13. ASSUME NEW c \in Clients, Purge(c) PROVE KnownInv'
  <2>1. PICK p : /\ Becomes(c, p) /\ req[c].at = "purge"
                 /\ Same(p, req[c]) /\ p.at \in {"purge", "erase"}
    BY <1>13, PurgeNext
  <2>2. \A i \in Requests : request'[i] = request[i] \/ request'[i].status # "PENDING"
    BY <1>13 DEF Purge, NoRequest
  <2> QED BY <1>3, <1>13, <2>1, <2>2 DEF Purge
<1>14. ASSUME NEW c \in Clients, Erase(c) PROVE KnownInv'
  <2>1. Becomes(c, Idle)
    BY <1>14, EndsNext DEF Ends
  <2>2. \A i \in Requests : request'[i] = request[i] \/ request'[i].status # "PENDING"
    BY <1>14 DEF Erase, NoRequest
  <2> QED BY <1>3, <1>14, <2>1, <2>2 DEF Erase
<1>15. ASSUME NEW c \in Clients, Abort(c) PROVE KnownInv'
  <2>1. Becomes(c, Idle)
    BY <1>15, EndsNext DEF Ends
  <2> QED BY <1>3, <1>15, <2>1 DEF Abort
<1>16. CASE UNCHANGED vars
  BY <1>16 DEF vars, KnownInv, Known, Key
<1> QED
  BY <1>1, <1>2, <1>4, <1>5, <1>6, <1>7, <1>8, <1>9, <1>10, <1>11, <1>12, <1>13, <1>14, <1>15,
     <1>16, NextCases

LEMMA KnownInit == Init => KnownInv /\ Apart
<1> SUFFICES ASSUME Init PROVE KnownInv /\ Apart
  OBVIOUS
<1>1. \A c \in Clients : req[c] = Idle
  BY DEF Init
<1>2. \A c \in Clients : Known(req[c])
  BY <1>1, IdleType DEF Known
<1>3. \A u \in Users \ Newcomers : user[u].role # "NEW"
  BY DEF Init, Registered, NewUser
<1>4. \A r \in Requests : request[r].status = "NONE"
  BY DEF Init, NoRequest
<1>5. Apart
  BY <1>1, IdleType DEF Apart, Clear
<1> QED BY <1>2, <1>3, <1>4, <1>5 DEF KnownInv, Init

-----------------------------------------------------------------------------
(* Whatever overlaps, what is connected was approved.                       *)

LEMMA LinkedBecomes ==
    ASSUME Typed, LinkedInv, approved \subseteq approved', students' \subseteq approved',
           NEW c \in Clients, NEW p, Becomes(c, p), Linked(p)'
    PROVE  LinkedInv'
<1>1. \A d \in Clients : req'[d] = IF d = c THEN p ELSE req[d]
  BY DEF Typed, Becomes
<1>2. \A d \in Clients : Linked(req[d])'
  BY <1>1 DEF Linked, LinkedInv
<1> QED BY <1>2 DEF LinkedInv

LEMMA LinkedIdle == Linked(Idle)'
BY IdleType DEF Linked

LEMMA LinkedStep == Typed /\ LinkedInv /\ [Next]_vars => LinkedInv'
<1> SUFFICES ASSUME Typed, LinkedInv, [Next]_vars PROVE LinkedInv'
  OBVIOUS
<1>1. ASSUME NEW c \in Clients, Starting(c) PROVE LinkedInv'
  <2>1. PICK q : Begins(c, q)
    BY <1>1, StartingBegins
  <2>2. Becomes(c, q) /\ UNCHANGED <<students, approved>> /\ Begun(q)
    BY <2>1 DEF Begins, Becomes
  <2>3. Wanted(q) \subseteq students \/ q.op = "respond"
    <3>1. Connections(q.user, q.side) \subseteq students
      BY DEF Connections
    <3> QED BY <3>1 DEF Wanted
  <2>4. q.rel \subseteq students /\ q.add = {} /\ q.at # "assign"
    BY <2>2, <2>3 DEF Begun
  <2>5. Linked(q)'
    BY <2>2, <2>4 DEF Linked, LinkedInv
  <2> QED BY <2>2, <2>5, LinkedBecomes DEF LinkedInv
<1>2. ASSUME NEW c \in Clients, NEW role \in {"STUDENT", "MENTOR"}, Register(c, role)
      PROVE  LinkedInv'
  <2>1. PICK p : Becomes(c, p) /\ p.at = "enter" /\ p.rel = {} /\ p.add = {}
    BY <1>2, RegisterNext
  <2>2. Linked(p)'
    BY <2>1 DEF Linked
  <2> QED BY <1>2, <2>1, <2>2, LinkedBecomes DEF Register, LinkedInv
<1>3. ASSUME NEW c \in Clients, Ends(c) PROVE LinkedInv'
  <2>1. Becomes(c, Idle)
    BY <1>3, EndsNext
  <2>2. students' \subseteq students /\ approved' = approved
    BY <1>3 DEF Ends, StoreHash, InsertRequest, Erase, Abort
  <2> QED BY <2>1, <2>2, LinkedIdle, LinkedBecomes DEF LinkedInv
<1>4. ASSUME NEW c \in Clients, NEW p, Becomes(c, p), UNCHANGED <<students, approved>>,
             \/ p = Idle
             \/ p.rel = {} /\ p.add = {} /\ p.at # "assign"
             \/ p.rel = req[c].rel /\ p.add = req[c].add /\ p.at # "assign"
      PROVE  LinkedInv'
  <2>1. Linked(p)'
    BY <1>4, LinkedIdle DEF LinkedInv, Linked
  <2> QED BY <1>4, <2>1, LinkedBecomes DEF LinkedInv
<1>5. ASSUME NEW c \in Clients, Sign(c) PROVE LinkedInv'
  <2>1. PICK p : /\ Becomes(c, p) /\ p.at = "issue"
                 /\ p.rel = req[c].rel /\ p.add = req[c].add
    BY <1>5, SignNext
  <2> QED BY <1>4, <1>5, <2>1 DEF Sign
<1>6. ASSUME NEW c \in Clients, StoreAnswer(c) PROVE LinkedInv'
  <2> DEFINE q == req[c]
  <2>1. PICK p : /\ Becomes(c, p)
                 /\ \/ p = Idle
                    \/ /\ Same(p, q) /\ p.at = "assign" /\ p.rel = q.rel /\ p.add = q.add
                       /\ q.status = "APPROVED" /\ q.op = "respond"
    BY <1>6, AnswerNext
  <2>2. approved \subseteq approved' /\ students' = students
    BY <1>6 DEF StoreAnswer
  <2>3. CASE p = Idle
    BY <2>1, <2>2, <2>3, LinkedIdle, LinkedBecomes DEF LinkedInv
  <2>4. CASE p # Idle
    <3>1. p.user = q.user /\ p.peer = q.peer
      BY <2>1, <2>4 DEF Same, OfPair
    <3>2. <<p.user, p.peer>> \in approved'
      BY <1>6, <2>1, <2>4, <3>1 DEF StoreAnswer
    <3>3. Linked(p)'
      BY <2>1, <2>2, <2>4, <3>2 DEF Linked, LinkedInv
    <3> QED BY <2>1, <2>2, <3>3, LinkedBecomes DEF LinkedInv
  <2> QED BY <2>3, <2>4
<1>7. ASSUME NEW c \in Clients, Assign(c) PROVE LinkedInv'
  <2> DEFINE q == req[c]
             pair == <<q.user, q.peer>>
  <2>1. PICK p : /\ Becomes(c, p) /\ q.at = "assign"
                 /\ \/ p = Idle
                    \/ /\ Same(p, q) /\ p.at = "loaded" /\ p.add = {}
                       /\ p.rel = Connections(q.user, "students") \cup {pair}
    BY <1>7, AssignNext
  <2>2. pair \in approved
    BY <2>1 DEF LinkedInv, Linked
  <2>3. Connections(q.user, "students") \subseteq approved
    BY DEF Connections, LinkedInv
  <2>4. Linked(p)'
    <3>1. CASE p = Idle
      BY <3>1, LinkedIdle
    <3>2. CASE p # Idle
      BY <1>7, <2>1, <2>2, <2>3, <3>2 DEF Linked, Assign
    <3> QED BY <3>1, <3>2
  <2> QED BY <1>7, <2>1, <2>4, LinkedBecomes DEF Assign, LinkedInv
<1>8. ASSUME NEW c \in Clients, FindApproved(c) PROVE LinkedInv'
  <2>1. PICK p : /\ Becomes(c, p)
                 /\ p = Idle \/ (p.at = "reject" /\ p.rel = {} /\ p.add = {})
    BY <1>8, FindNext
  <2> QED BY <1>4, <1>8, <2>1 DEF FindApproved
<1>9. ASSUME NEW c \in Clients, NEW r \in Requests, RejectOne(c, r) PROVE LinkedInv'
  <2>1. PICK p : /\ Becomes(c, p)
                 /\ \/ p = Idle
                    \/ p.at = "reject" /\ p.rel = req[c].rel /\ p.add = req[c].add
    BY <1>9, RejectNext
  <2> QED BY <1>4, <1>9, <2>1 DEF RejectOne
<1>10. ASSUME NEW c \in Clients, Reread(c) PROVE LinkedInv'
  <2> DEFINE q == req[c]
  <2>1. PICK p : /\ Becomes(c, p) /\ p.at = "reread" /\ p.rel = q.rel /\ p.add \subseteq q.rel
    BY <1>10, RereadNext
  <2>2. Linked(p)'
    BY <1>10, <2>1 DEF Linked, LinkedInv, Reread
  <2> QED BY <1>10, <2>1, <2>2, LinkedBecomes DEF Reread, LinkedInv
<1>11. ASSUME NEW c \in Clients, SaveWrite(c) PROVE LinkedInv'
  <2> DEFINE q == req[c]
  <2>1. PICK p : /\ Becomes(c, p) /\ p.rel = {} /\ p.add = {}
                 /\ p = Idle \/ p.at \in {"unlinked", "purge"}
                 /\ UNCHANGED <<user, students, entered>> \/ \E row : Saves(q, row)
    BY <1>11, SaveNext
  <2>2. q.add \subseteq approved
    BY DEF LinkedInv, Linked
  <2>3. students' \subseteq approved
    BY <2>1, <2>2 DEF Saves, LinkedInv
  <2>4. Linked(p)'
    BY <2>1, IdleType DEF Linked
  <2> QED BY <1>11, <2>1, <2>3, <2>4, LinkedBecomes DEF SaveWrite
<1>12. ASSUME NEW c \in Clients, Purge(c) PROVE LinkedInv'
  <2>1. PICK p : /\ Becomes(c, p) /\ p.rel = req[c].rel /\ p.add = req[c].add
                 /\ p.at \in {"purge", "erase"}
    BY <1>12, PurgeNext
  <2> QED BY <1>4, <1>12, <2>1 DEF Purge
<1>13. CASE UNCHANGED vars
  BY <1>13 DEF vars, LinkedInv, Linked
<1> QED
  BY <1>1, <1>2, <1>3, <1>5, <1>6, <1>7, <1>8, <1>9, <1>10, <1>11, <1>12, <1>13, NextCases
     DEF Ends

LEMMA LinkedInit == Init => LinkedInv
BY IdleType DEF Init, LinkedInv, Linked

-----------------------------------------------------------------------------
(* While requests about one user wait for each other: what one request      *)
(* writes leaves the others as they are.                                    *)

\* What q relies on stays.
Undisturbed(q) ==
    /\ \A v \in Key(q) : user'[v] = user[v] /\ (v \in entered => v \in entered')
    /\ q.op # "register" =>
         /\ \A p \in Pairs : q.user \in {p[1], p[2]} => (p \in students' <=> p \in students)
         /\ \A r \in Requests :
              \/ request'[r] = request[r]
              \/ q.user \notin {request[r].student, request[r].mentor,
                                request'[r].student, request'[r].mentor}

\* A step of q writes the row of its user, and connections and requests of users it is about.
Writes(q) ==
    /\ \A v \in Users : v # q.user => user'[v] = user[v] /\ (v \in entered => v \in entered')
    /\ \A p \in Pairs : (p[1] \in q.about /\ p[2] \in q.about) \/ (p \in students' <=> p \in students)
    /\ \A r \in Requests :
         \/ request'[r] = request[r]
         \/ Users \cap {request[r].student, request[r].mentor,
                        request'[r].student, request'[r].mentor} \subseteq q.about
    /\ q.op = "register" => UNCHANGED <<students, request>>

LEMMA ClearUndisturbed ==
    ASSUME NEW q \in InFlight, Staged(q), q.at # "idle", Writes(q),
           NEW d \in InFlight, Staged(d), d.at # "idle",
           Clear(q, d) \/ Clear(d, q)
    PROVE  Undisturbed(d)
<1>1. q.user \in Key(q) /\ Key(q) \subseteq q.about
  BY KeyUsers
<1>2. d.user \in Key(d) /\ Key(d) \subseteq d.about /\ Key(d) \subseteq Users
  BY KeyUsers
<1>3. CASE q.about \cap d.about = {}
  <2>1. d.user \notin q.about /\ d.user \in Users
    BY <1>2, <1>3
  <2>2. \A v \in Key(d) : user'[v] = user[v] /\ (v \in entered => v \in entered')
    BY <1>1, <1>2, <1>3 DEF Writes
  <2>3. \A p \in Pairs : d.user \in {p[1], p[2]} => (p \in students' <=> p \in students)
    BY <2>1 DEF Writes
  <2>4. \A r \in Requests :
          \/ request'[r] = request[r]
          \/ d.user \notin {request[r].student, request[r].mentor,
                            request'[r].student, request'[r].mentor}
    BY <2>1 DEF Writes
  <2> QED BY <2>2, <2>3, <2>4 DEF Undisturbed
<1>4. CASE q.op = "register" /\ d.op \in {"unlink", "delete"} /\ q.user # d.user
  <2>1. Key(d) = {d.user}
    BY <1>4 DEF Key
  <2>2. \A v \in Key(d) : user'[v] = user[v] /\ (v \in entered => v \in entered')
    BY <1>2, <1>4, <2>1 DEF Writes
  <2> QED BY <1>4, <2>2 DEF Writes, Undisturbed
<1>5. CASE d.op = "register" /\ q.op \in {"unlink", "delete"} /\ q.user # d.user
  <2>1. Key(d) = {d.user}
    BY <1>5 DEF Key
  <2>2. \A v \in Key(d) : user'[v] = user[v] /\ (v \in entered => v \in entered')
    BY <1>2, <1>5, <2>1 DEF Writes
  <2> QED BY <1>5, <2>2 DEF Undisturbed
<1> QED BY <1>3, <1>4, <1>5 DEF Clear

LEMMA AheadKept ==
    ASSUME NEW q, user'[q.user] = user[q.user], Ahead(q)
    PROVE  Ahead(q)'
BY DEF Ahead

LEMMA ConnectionsKept ==
    ASSUME Typed, Typed', NEW u,
           \A p \in Pairs : u \in {p[1], p[2]} => (p \in students' <=> p \in students)
    PROVE  \A side : Connections(u, side)' = Connections(u, side)
<1>1. students \subseteq Pairs /\ students' \subseteq Pairs
  BY DEF Typed
<1> QED BY <1>1 DEF Connections

LEMMA ApprovedKept ==
    ASSUME Typed, Typed', NEW u,
           \A r \in Requests :
              \/ request'[r] = request[r]
              \/ u \notin {request[r].student, request[r].mentor,
                           request'[r].student, request'[r].mentor}
    PROVE  \A s : ApprovedOf(u, s)' = ApprovedOf(u, s)
<1>1. ASSUME NEW s, NEW r \in Requests
      PROVE  (request'[r] = [status |-> "APPROVED", student |-> s, mentor |-> u])
               <=> (request[r] = [status |-> "APPROVED", student |-> s, mentor |-> u])
  OBVIOUS
<1> QED BY <1>1 DEF ApprovedOf

LEMMA CurrentKept ==
    ASSUME Typed, Typed', NEW q \in InFlight, Staged(q), q.at # "idle", Current(q), Undisturbed(q)
    PROVE  Current(q)'
<1>1. q.user \in Key(q) /\ user'[q.user] = user[q.user] /\ (q.user \in entered => q.user \in entered')
  BY KeyUsers DEF Undisturbed
<1>2. \A v \in Key(q) : Exists(v)'
  BY DEF Current, Undisturbed, Exists
<1>3. CASE q.op = "register"
  <2>1. q.at \in {"enter", "issue"}
    BY <1>3 DEF Staged, Entering, Saving, Revoking, InFlight, Ats
  <2> QED BY <1>1, <1>2, <1>3, <2>1 DEF Current, Key
<1>4. CASE q.op # "register"
  <2>1. \A side : Connections(q.user, side)' = Connections(q.user, side)
    BY <1>4, ConnectionsKept DEF Undisturbed
  <2>2. \A s : ApprovedOf(q.user, s)' = ApprovedOf(q.user, s)
    BY <1>4, ApprovedKept DEF Undisturbed
  <2>3. Wanted(q)' = Wanted(q)
    BY <2>1 DEF Wanted
  <2>4. \A p \in Pairs : q.user \in {p[1], p[2]} => (p \in students' <=> p \in students)
    BY <1>4 DEF Undisturbed
  <2>5. \A r \in Requests :
              \/ request'[r] = request[r]
              \/ q.user \notin {request[r].student, request[r].mentor,
                                request'[r].student, request'[r].mentor}
    BY <1>4 DEF Undisturbed
  <2>6. q.at \in {"enter", "issue"} => q.user \in entered'
    BY <1>1 DEF Current
  <2>7. q.at = "issue" => q.ent.version = user'[q.user].version
    BY <1>1 DEF Current
  <2>8. q.at \in {"loaded", "reread"} =>
          /\ Ahead(q)' /\ q.rel = Wanted(q)'
          /\ q.op \in {"respond", "unlink"} => q.side = "students"
          /\ q.op = "delete" => q.side = "both"
    BY <1>1, <2>3, AheadKept DEF Current
  <2>9. q.at = "reread" =>
          /\ ~q.insert
          /\ q.cols = {f \in Columns : q.ent[f] # user'[q.user][f]}
          /\ q.add = q.rel \ Connections(q.user, q.side)'
          /\ q.del = Connections(q.user, q.side)' \ q.rel
    BY <1>1, <2>1 DEF Current
  <2>10. q.at = "answer" =>
           request'[q.row] = [status |-> "PENDING", student |-> q.peer, mentor |-> q.user]
    BY <2>5 DEF Current, Staged
  <2>11. q.op = "respond" /\ q.at \in {"assign", "loaded", "reread"} =>
           ApprovedOf(q.user, q.peer)' # {}
    BY <2>2 DEF Current
  <2>12. q.at \in {"unlinked", "reject"} => <<q.user, q.peer>> \notin students'
    BY <2>4 DEF Current, Staged, Pairs, OfPair
  <2>13. q.at = "reject" => q.rows = ApprovedOf(q.user, q.peer)'
    BY <2>2 DEF Current
  <2>14. q.at \in {"purge", "erase"} => \A p \in students' : q.user \notin {p[1], p[2]}
    BY <2>4 DEF Current, Typed
  <2>15. q.at = "purge" /\ q.side # "none" => \A r \in Requests : request'[r].student # q.user
    BY <2>5 DEF Current
  <2>16. q.at = "erase" =>
           \A r \in Requests : q.user \notin {request'[r].student, request'[r].mentor}
    BY <2>5 DEF Current
  <2>17. q.at # "idle" => \A v \in Key(q)' : Exists(v)'
    BY <1>2 DEF Key
  <2> QED BY <2>6, <2>7, <2>8, <2>9, <2>10, <2>11, <2>12, <2>13, <2>14, <2>15, <2>16, <2>17
          DEF Current
<1> QED BY <1>3, <1>4

\* Nothing is written, but that a user may have given the password.
Reads ==
    UNCHANGED <<user, students, request, issued>> /\ entered \subseteq entered'

LEMMA ReadsUndisturbed == ASSUME Reads, NEW q PROVE Undisturbed(q)
BY DEF Reads, Undisturbed

\* An approved request has its connection after the step, or one request makes it, or none
\* of this client did.
Accounted(c, p) ==
    \A m, s \in Users : ApprovedOf(m, s)' # {} /\ ~mix.tears =>
        \/ <<m, s>> \in students'
        \/ Makes(p, m, s)
        \/ ApprovedOf(m, s) # {} /\ <<m, s>> \notin students /\ ~Makes(req[c], m, s)

Tables == Versioned /\ NoSessionWithoutPassword /\ OfUsers /\ Backed

LEMMA CurrentIdle == Current(Idle)'
BY IdleType DEF Current

LEMMA SerialBecomes ==
    ASSUME Typed, Typed', SerialInv, mix' = mix, NEW c \in Clients, NEW p, Becomes(c, p),
           \A d \in Clients : d # c /\ req[d].at # "idle" => Undisturbed(req[d]),
           Current(p)', Tables', Accounted(c, p)
    PROVE  SerialInv'
<1>1. \A d \in Clients : req'[d] = IF d = c THEN p ELSE req[d]
  BY DEF Typed, Becomes
<1>2. ASSUME NEW d \in Clients PROVE Current(req[d])'
  <2>1. CASE d = c
    <3>1. req'[d] = p
      BY <1>1, <2>1
    <3> QED BY <3>1 DEF Current, Key, Ahead, Wanted
  <2>2. CASE d # c
    <3>1. PICK q \in InFlight : q = req[d] /\ Staged(q) /\ Current(q)
      BY RequestType DEF SerialInv
    <3>2. CASE q.at = "idle"
      <4>1. q = Idle
        BY <3>1, <3>2 DEF Staged
      <4>2. req'[d] = Idle
        BY <1>1, <2>2, <3>1, <4>1
      <4> QED BY <4>2, IdleType DEF Current
    <3>3. CASE q.at # "idle"
      <4>1. Undisturbed(q)
        BY <2>2, <3>1, <3>3
      <4>2. Current(q)'
        BY <3>1, <3>3, <4>1, CurrentKept
      <4>3. req'[d] = q
        BY <1>1, <2>2, <3>1
      <4> QED BY <4>2, <4>3 DEF Current, Key, Ahead, Wanted
    <3> QED BY <3>2, <3>3
  <2> QED BY <2>1, <2>2
<1>3. Answered'
  <2>1. ASSUME NEW m \in Users, NEW s \in Users, ApprovedOf(m, s)' # {}, ~mix.tears
        PROVE  <<m, s>> \in students' \/ \E d \in Clients : Makes(req'[d], m, s)
    <3>1. CASE <<m, s>> \in students'
      BY <3>1
    <3>2. CASE Makes(p, m, s)
      BY <1>1, <3>2
    <3>3. CASE ApprovedOf(m, s) # {} /\ <<m, s>> \notin students /\ ~Makes(req[c], m, s)
      <4>1. PICK d \in Clients : Makes(req[d], m, s)
        BY <2>1, <3>3 DEF SerialInv, Answered
      <4>2. d # c
        BY <3>3, <4>1
      <4> QED BY <1>1, <4>1, <4>2
    <3> QED BY <2>1, <3>1, <3>2, <3>3 DEF Accounted
  <2>2. \A m, s \in Users : ApprovedOf(m, s)' # {} /\ ~mix'.tears =>
          <<m, s>> \in students' \/ \E d \in Clients : Makes(req'[d], m, s)
    BY <2>1
  <2> QED BY <2>2 DEF Answered, Makes
<1> QED BY <1>2, <1>3 DEF SerialInv, Tables

\* A step that only reads.
LEMMA SerialReads ==
    ASSUME Typed, Typed', SerialInv, mix' = mix, NEW c \in Clients, NEW p, Becomes(c, p),
           Reads, Current(p)',
           \A m, s \in Users : /\ ApprovedOf(m, s) # {} /\ ~mix.tears
                               /\ <<m, s>> \notin students /\ Makes(req[c], m, s)
                               => Makes(p, m, s)
    PROVE  SerialInv'
<1>1. Tables'
  BY DEF Reads, SerialInv, Tables, Versioned, NoSessionWithoutPassword, OfUsers, Backed, Exists,
         ApprovedOf
<1>2. \A m, s : ApprovedOf(m, s)' = ApprovedOf(m, s)
  BY DEF Reads, ApprovedOf
<1>3. Accounted(c, p)
  BY <1>2 DEF Accounted, Reads
<1> QED BY <1>1, <1>3, ReadsUndisturbed, SerialBecomes

\* Several requests wait for each other, so the one that writes leaves the others alone.
LEMMA SerialOthers ==
    ASSUME Typed, Apart, mix.serial, NEW c \in Clients, req[c].at # "idle", Writes(req[c])
    PROVE  \A d \in Clients : d # c /\ req[d].at # "idle" => Undisturbed(req[d])
<1> SUFFICES ASSUME NEW d \in Clients, d # c, req[d].at # "idle" PROVE Undisturbed(req[d])
  OBVIOUS
<1>1. Clear(req[c], req[d]) \/ Clear(req[d], req[c])
  BY DEF Apart
<1>2. PICK q \in InFlight : q = req[c] /\ Staged(q)
  BY RequestType
<1>3. PICK e \in InFlight : e = req[d] /\ Staged(e)
  BY RequestType
<1> QED BY <1>1, <1>2, <1>3, ClearUndisturbed

\* What the steps below start from.
Serially == Typed /\ KnownInv /\ Apart /\ mix.serial /\ SerialInv

LEMMA SerialRequest ==
    ASSUME Serially, NEW c \in Clients
    PROVE  req[c] \in InFlight /\ Staged(req[c]) /\ Current(req[c])
BY RequestType DEF Serially, SerialInv

LEMMA SerialStarting ==
    ASSUME Serially, Typed', NEW c \in Clients, Starting(c)
    PROVE  SerialInv'
<1>1. PICK q : Begins(c, q)
  BY StartingBegins DEF Serially
<1>2. /\ Becomes(c, q) /\ Begun(q) /\ Reads /\ mix' = mix /\ req[c] = Idle
      /\ q \in InFlight /\ Staged(q) /\ q.user \in Users
  BY <1>1 DEF Begins, Becomes, Begun, Reads, Staged, Entering
<1>3. \A v \in Key(q) : Exists(v)'
  <2>1. \A v : Exists(v)' <=> Exists(v)
    BY <1>2 DEF Reads, Exists
  <2>2. Exists(q.user)
    BY <1>2 DEF Begun
  <2>3. ASSUME q.op \in {"request", "respond"} PROVE Exists(q.peer)
    <3>1. q.at \in {"insert", "answer"}
      BY <1>2, <2>3 DEF Begun, Staged, Entering, Saving, Revoking
    <3>2. CASE q.at = "insert"
      BY <1>2, <3>2 DEF Begun
    <3>3. CASE q.at = "answer"
      <4>1. /\ request[q.row] = [status |-> "PENDING", student |-> q.peer, mentor |-> q.user]
            /\ q.row \in Requests
        BY <1>2, <3>3 DEF Begun, Staged
      <4> QED BY <4>1 DEF Serially, SerialInv, OfUsers
    <3> QED BY <3>1, <3>2, <3>3
  <2> QED BY <2>1, <2>2, <2>3 DEF Key
<1>4. q.at = "enter" => q.user \in entered'
  <2>1. CASE q.op = "login"
    BY <1>1, <2>1 DEF Begins
  <2>2. CASE q.op # "login" /\ q.at = "enter"
    <3>1. <<q.user, user[q.user].version>> \in issued /\ Exists(q.user)
      BY <1>2, <2>2 DEF Begun
    <3> QED BY <1>2, <3>1 DEF Serially, SerialInv, NoSessionWithoutPassword, Reads
  <2> QED BY <2>1, <2>2
<1>5. q.at = "loaded" => /\ Ahead(q)' /\ q.rel = Wanted(q)' /\ q.op # "respond"
                         /\ q.op = "unlink" => q.side = "students"
                         /\ q.op = "delete" => q.side = "both"
  <2>1. user' = user /\ students' = students
    BY <1>2 DEF Reads
  <2>2. Wanted(q)' = Wanted(q)
    BY <2>1 DEF Wanted, Connections
  <2> QED BY <1>2, <2>1, <2>2, AheadKept DEF Begun
<1>6. q.at = "answer" =>
        request'[q.row] = [status |-> "PENDING", student |-> q.peer, mentor |-> q.user]
  BY <1>2 DEF Begun, Reads
<1>7. q.at \in {"enter", "loaded", "insert", "answer"}
  BY <1>2 DEF Begun
<1>8. q.at # "idle" => \A v \in Key(q)' : Exists(v)'
  BY <1>3 DEF Key
<1>9. Current(q)'
  BY <1>4, <1>5, <1>6, <1>7, <1>8 DEF Current
<1>10. \A m, s : ~Makes(req[c], m, s)
  BY <1>2, IdleType DEF Makes
<1> QED BY <1>2, <1>9, <1>10, SerialReads DEF Serially

LEMMA SerialRegister ==
    ASSUME Serially, Typed', Apart', NEW c \in Clients, NEW role \in {"STUDENT", "MENTOR"},
           Register(c, role)
    PROVE  SerialInv'
<1> DEFINE u == Me(c)
           new == [NewUser EXCEPT !.role = role, !.code = (role = "MENTOR")]
<1>1. PICK p : /\ Becomes(c, p) /\ p.at = "enter" /\ p.op = "register" /\ p.user = u
               /\ p.about = {u} /\ u \in Users
  BY RegisterNext DEF Serially
<1>2. /\ user[u].role = "NEW" /\ user' = [user EXCEPT ![u] = new]
      /\ entered' = entered \cup {u} /\ req[c] = Idle
      /\ UNCHANGED <<students, request, issued, mix>>
  BY DEF Register
<1>3. \A v \in Users : v # u => user'[v] = user[v]
  BY <1>2 DEF Serially, Typed
<1>4. user'[u].role = role
  BY <1>1, <1>2 DEF Serially, Typed, NewUser
<1>5. \A v \in Users : Exists(v) => v # u /\ Exists(v)' /\ user'[v] = user[v]
  BY <1>2, <1>3 DEF Exists
<1>6. Writes(p)
  BY <1>1, <1>2, <1>3 DEF Writes
<1>7. \A d \in Clients : d # c /\ req[d].at # "idle" => Undisturbed(req[d])
  <2> SUFFICES ASSUME NEW d \in Clients, d # c, req[d].at # "idle" PROVE Undisturbed(req[d])
    OBVIOUS
  <2>1. req'[c] = p /\ req'[d] = req[d]
    BY <1>1 DEF Becomes, Serially, Typed
  <2>2. Clear(req'[c], req'[d]) \/ Clear(req'[d], req'[c])
    BY <1>2 DEF Apart, Serially, Clear
  <2>3. PICK e \in InFlight : e = req[d] /\ Staged(e)
    BY RequestType DEF Serially
  <2>4. Clear(p, e) \/ Clear(e, p)
    BY <2>1, <2>2, <2>3
  <2> QED BY <1>1, <1>6, <2>3, <2>4, ClearUndisturbed DEF Becomes
<1>8. Current(p)'
  <2>1. \A v \in Key(p)' : Exists(v)'
    BY <1>1, <1>4 DEF Key, Exists
  <2> QED BY <1>1, <1>2, <2>1 DEF Current
<1>9. Versioned' /\ NoSessionWithoutPassword'
  <2>1. \A v \in Versions : <<u, v>> \notin issued
    BY <1>1, <1>2 DEF Serially, KnownInv
  <2>2. ASSUME NEW w \in Users, NEW v \in Versions, <<w, v>> \in issued', Exists(w)'
        PROVE  v <= user'[w].version /\ (v = user'[w].version => w \in entered')
    BY <1>2, <1>3, <2>1, <2>2 DEF Serially, SerialInv, Versioned, NoSessionWithoutPassword, Exists
  <2>3. \A w \in Users : user'[w].version \in Versions
    BY DEF Typed, UserRows
  <2> QED BY <2>2, <2>3 DEF Versioned, NoSessionWithoutPassword
<1>10. OfUsers'
  <2>1. \A r \in Requests : request'[r] = request[r]
    BY <1>2
  <2> QED BY <1>5, <2>1 DEF OfUsers, Serially, SerialInv
<1>11. \A m, s : ApprovedOf(m, s)' = ApprovedOf(m, s)
  BY <1>2 DEF ApprovedOf
<1>12. Backed'
  BY <1>2, <1>11 DEF Serially, SerialInv, Backed
<1>13. Accounted(c, p)
  BY <1>2, <1>11, IdleType DEF Accounted, Makes
<1> QED BY <1>1, <1>2, <1>7, <1>8, <1>9, <1>10, <1>12, <1>13, SerialBecomes DEF Serially, Tables

LEMMA SerialSign ==
    ASSUME Serially, Typed', NEW c \in Clients, Sign(c)
    PROVE  SerialInv'
<1>1. PICK q \in InFlight : q = req[c] /\ Staged(q) /\ Current(q)
  BY SerialRequest
<1>2. PICK p : /\ Becomes(c, p) /\ Same(p, q) /\ p.at = "issue" /\ q.at = "enter"
               /\ Exists(q.user) => p.ent = user[q.user]
  BY <1>1, SignNext DEF Serially
<1>3. Reads /\ mix' = mix
  BY DEF Sign, Reads
<1>4. q.user \in Key(q) /\ Exists(q.user) /\ q.user \in entered
  BY <1>1, <1>2, KeyUsers DEF Current
<1>5. Current(p)'
  <2>1. \A v \in Key(p) : Exists(v)'
    BY <1>1, <1>2, <1>3, SameKey DEF Current, Reads, Exists
  <2>2. \A v \in Key(p)' : Exists(v)'
    BY <2>1 DEF Key
  <2>3. p.user = q.user /\ p.user \in entered' /\ p.ent.version = user'[p.user].version
    BY <1>2, <1>3, <1>4 DEF Same, Reads
  <2> QED BY <1>2, <2>2, <2>3 DEF Current
<1>6. \A m, s : ~Makes(req[c], m, s)
  BY <1>1, <1>2 DEF Makes
<1> QED BY <1>2, <1>3, <1>5, <1>6, SerialReads DEF Serially

LEMMA SerialAbort ==
    ASSUME Serially, Typed', NEW c \in Clients, Abort(c)
    PROVE  SerialInv'
<1>1. Becomes(c, Idle)
  BY EndsNext DEF Ends, Serially
<1>2. Reads /\ mix' = mix
  BY DEF Abort, Reads
<1>3. ~mix.tears => \A m, s : ~Makes(req[c], m, s)
  BY DEF Abort, Torn, Makes
<1> QED BY <1>1, <1>2, <1>3, CurrentIdle, SerialReads DEF Serially

LEMMA SerialFind ==
    ASSUME Serially, Typed', NEW c \in Clients, FindApproved(c)
    PROVE  SerialInv'
<1>1. PICK q \in InFlight : q = req[c] /\ Staged(q) /\ Current(q)
  BY SerialRequest
<1>2. PICK p : /\ Becomes(c, p) /\ q.at = "unlinked"
               /\ \/ p = Idle /\ ApprovedOf(q.user, q.peer) = {}
                  \/ /\ Same(p, q) /\ p.at = "reject" /\ q.op = "unlink"
                     /\ p.rows = ApprovedOf(q.user, q.peer)
  BY <1>1, FindNext DEF Serially
<1>3. Reads /\ mix' = mix
  BY DEF FindApproved, Reads
<1>4. Makes(q, q.user, q.peer) /\ \A m, s : Makes(q, m, s) => m = q.user /\ s = q.peer
  BY <1>1, <1>2 DEF Makes, Staged
<1>5. CASE p = Idle
  BY <1>1, <1>2, <1>3, <1>4, <1>5, IdleType, CurrentIdle, SerialReads DEF Serially
<1>6. CASE p # Idle
  <2>1. p.user = q.user /\ p.peer = q.peer /\ p.at = "reject" /\ p.op = "unlink"
    BY <1>2, <1>6 DEF Same, OfPair
  <2>2. \A v \in Key(p)' : Exists(v)'
    <3>1. \A v \in Key(p) : Exists(v)'
      BY <1>1, <1>2, <1>3, <1>6, SameKey DEF Current, Reads, Exists
    <3> QED BY <3>1 DEF Key
  <2>3. <<p.user, p.peer>> \notin students' /\ p.rows = ApprovedOf(p.user, p.peer)'
    BY <1>1, <1>2, <1>3, <1>6, <2>1 DEF Current, Reads, ApprovedOf
  <2>4. Current(p)'
    BY <2>1, <2>2, <2>3 DEF Current
  <2>5. \A m, s : Makes(q, m, s) => Makes(p, m, s)
    BY <1>4, <2>1 DEF Makes
  <2> QED BY <1>1, <1>2, <1>3, <2>4, <2>5, SerialReads DEF Serially
<1> QED BY <1>5, <1>6

LEMMA SerialReread ==
    ASSUME Serially, Typed', NEW c \in Clients, Reread(c)
    PROVE  SerialInv'
<1>1. PICK q \in InFlight : q = req[c] /\ Staged(q) /\ Current(q)
  BY SerialRequest
<1> DEFINE now == Connections(q.user, q.side)
<1>2. PICK p : /\ Becomes(c, p) /\ Same(p, q) /\ p.at = "reread" /\ q.at = "loaded"
               /\ p.ent = q.ent /\ p.side = q.side /\ p.rel = q.rel
               /\ p.insert = ~Exists(q.user)
               /\ p.cols = {f \in Columns : q.ent[f] # user[q.user][f]}
               /\ p.add = q.rel \ now /\ p.del = now \ q.rel
  BY <1>1, RereadNext DEF Serially
<1>3. Reads /\ mix' = mix
  BY DEF Reread, Reads
<1>4. p.user = q.user /\ p.op = q.op /\ (q.op \in OfPair => p.peer = q.peer)
  BY <1>2 DEF Same
<1>5. Ahead(p) /\ p.rel = Wanted(p)
  <2>1. Ahead(q) /\ q.rel = Wanted(q)
    BY <1>1, <1>2 DEF Current
  <2>2. Ahead(p)
    BY <1>2, <1>4, <2>1 DEF Ahead
  <2>3. Wanted(p) = Wanted(q)
    BY <1>2, <1>4 DEF Wanted, OfPair
  <2> QED BY <1>2, <2>1, <2>2, <2>3
<1>6. Exists(q.user) /\ \A v \in Key(p) : Exists(v)
  BY <1>1, <1>2, KeyUsers, SameKey DEF Current
<1>7. user' = user /\ students' = students /\ request' = request
  BY <1>3 DEF Reads
<1>8. Current(p)'
  <2>1. \A v \in Key(p)' : Exists(v)'
    BY <1>6, <1>7 DEF Key, Exists
  <2>2. Ahead(p)' /\ p.rel = Wanted(p)'
    BY <1>5, <1>7 DEF Ahead, Wanted, Connections
  <2>3. /\ p.op \in {"respond", "unlink"} => p.side = "students"
        /\ p.op = "delete" => p.side = "both"
    BY <1>1, <1>2, <1>4 DEF Current
  <2>4. /\ ~p.insert /\ p.cols = {f \in Columns : p.ent[f] # user'[p.user][f]}
        /\ p.add = p.rel \ Connections(p.user, p.side)'
        /\ p.del = Connections(p.user, p.side)' \ p.rel
    BY <1>2, <1>4, <1>6, <1>7 DEF Connections
  <2>5. p.op = "respond" => ApprovedOf(p.user, p.peer)' # {}
    BY <1>1, <1>2, <1>4, <1>7 DEF Current, ApprovedOf, OfPair
  <2> QED BY <1>2, <2>1, <2>2, <2>3, <2>4, <2>5 DEF Current
<1>9. \A m, s : Makes(q, m, s) => Makes(p, m, s)
  BY <1>2, <1>4 DEF Makes, OfPair
<1> QED BY <1>1, <1>2, <1>3, <1>8, <1>9, SerialReads DEF Serially

LEMMA SerialAssign ==
    ASSUME Serially, Typed', NEW c \in Clients, Assign(c)
    PROVE  SerialInv'
<1>1. PICK q \in InFlight : q = req[c] /\ Staged(q) /\ Current(q)
  BY SerialRequest
<1> DEFINE pair == <<q.user, q.peer>>
<1>2. /\ q.at = "assign" /\ q.op = "respond" /\ q.user \in Users /\ q.peer \in Users
      /\ \E p : /\ Becomes(c, p)
                /\ \/ p = Idle /\ ~(Exists(q.user) /\ Exists(q.peer) /\ pair \notin students)
                   \/ /\ Same(p, q) /\ p.at = "loaded"
                      /\ p.ent = user[q.user] /\ p.side = "students"
                      /\ p.rel = Connections(q.user, "students") \cup {pair}
  BY <1>1, AssignNext DEF Serially
<1>3. PICK p : /\ Becomes(c, p)
               /\ \/ p = Idle /\ ~(Exists(q.user) /\ Exists(q.peer) /\ pair \notin students)
                  \/ /\ Same(p, q) /\ p.at = "loaded"
                     /\ p.ent = user[q.user] /\ p.side = "students"
                     /\ p.rel = Connections(q.user, "students") \cup {pair}
  BY <1>2
<1>4. Reads /\ mix' = mix
  BY DEF Assign, Reads
<1>5. Exists(q.user) /\ Exists(q.peer) /\ ApprovedOf(q.user, q.peer) # {}
  BY <1>1, <1>2 DEF Current, Key
<1>6. \A m, s : Makes(q, m, s) => m = q.user /\ s = q.peer
  BY <1>2 DEF Makes
<1>7. CASE p = Idle
  <2>1. pair \in students
    <3>1. Idle.at = "idle"
      BY IdleType
    <3> QED BY <1>3, <1>5, <1>7, <3>1
  <2> QED BY <1>1, <1>3, <1>4, <1>6, <1>7, <2>1, CurrentIdle, SerialReads DEF Serially
<1>8. CASE p # Idle
  <2>1. /\ p.user = q.user /\ p.peer = q.peer /\ p.at = "loaded" /\ p.op = "respond"
        /\ p.side = "students" /\ p.ent = user[q.user]
        /\ p.rel = Connections(q.user, "students") \cup {pair}
    BY <1>2, <1>3, <1>8 DEF Same, OfPair
  <2>2. user' = user /\ students' = students /\ request' = request
    BY <1>4 DEF Reads
  <2>3. \A v \in Key(p)' : Exists(v)'
    BY <1>5, <2>1, <2>2 DEF Key, Exists
  <2>4. Ahead(p)
    BY <1>2, <1>5, <2>1, EntityAhead DEF Serially, Revoking
  <2>5. p.rel = Wanted(p)
    BY <2>1 DEF Wanted
  <2>6. Ahead(p)' /\ p.rel = Wanted(p)' /\ ApprovedOf(p.user, p.peer)' # {}
    BY <1>5, <2>1, <2>2, <2>4, <2>5 DEF Ahead, Wanted, Connections, ApprovedOf
  <2>7. Current(p)'
    BY <2>1, <2>3, <2>6 DEF Current
  <2>8. \A m, s : Makes(q, m, s) => Makes(p, m, s)
    BY <1>6, <2>1 DEF Makes
  <2> QED BY <1>1, <1>3, <1>4, <2>7, <2>8, SerialReads DEF Serially
<1> QED BY <1>7, <1>8

LEMMA SerialHash ==
    ASSUME Serially, Typed', NEW c \in Clients, StoreHash(c)
    PROVE  SerialInv'
<1>1. PICK q \in InFlight : q = req[c] /\ Staged(q) /\ Current(q)
  BY SerialRequest
<1> DEFINE u == q.user
<1>2. /\ q.at = "issue" /\ user' = [user EXCEPT ![u].hash = @ \/ Exists(u)]
      /\ issued' = issued \cup {<<u, q.ent.version>>}
      /\ UNCHANGED <<students, request, entered, approved, mix>>
  BY <1>1 DEF StoreHash
<1>3. u \in Users /\ Exists(u) /\ u \in entered /\ q.ent.version = user[u].version
  BY <1>1, <1>2, KeyUsers DEF Current
<1>4. Becomes(c, Idle)
  BY EndsNext DEF Ends, Serially
<1>5. \A v \in Users : /\ user'[v].role = user[v].role /\ user'[v].version = user[v].version
                       /\ v # u => user'[v] = user[v]
  BY <1>2 DEF Serially, Typed, UserRows
<1>6. \A v \in Users : Exists(v)' <=> Exists(v)
  BY <1>5 DEF Exists
<1>7. Writes(q)
  BY <1>2, <1>5 DEF Writes
<1>8. Versioned' /\ NoSessionWithoutPassword'
  <2>1. ASSUME NEW w \in Users, NEW v \in Versions, <<w, v>> \in issued', Exists(w)'
        PROVE  v <= user'[w].version /\ (v = user'[w].version => w \in entered')
    <3>1. CASE <<w, v>> \in issued
      BY <1>2, <1>5, <1>6, <2>1, <3>1 DEF Serially, SerialInv, Versioned, NoSessionWithoutPassword
    <3>2. CASE w = u /\ v = q.ent.version
      <4>1. user[u].version \in Nat
        BY <1>3 DEF Serially, Typed, UserRows, Versions
      <4> QED BY <1>2, <1>3, <1>5, <3>2, <4>1
    <3> QED BY <1>2, <2>1, <3>1, <3>2
  <2>2. \A w \in Users : user'[w].version \in Versions
    BY DEF Typed, UserRows
  <2> QED BY <2>1, <2>2 DEF Versioned, NoSessionWithoutPassword
<1>9. OfUsers'
  <2>1. \A r \in Requests : request'[r] = request[r]
    BY <1>2
  <2> QED BY <1>6, <2>1 DEF OfUsers, Serially, SerialInv
<1>10. \A m, s : ApprovedOf(m, s)' = ApprovedOf(m, s)
  BY <1>2 DEF ApprovedOf
<1>11. Backed'
  BY <1>2, <1>10 DEF Serially, SerialInv, Backed
<1>12. Accounted(c, Idle)
  BY <1>1, <1>2, <1>10 DEF Accounted, Makes
<1>13. \A d \in Clients : d # c /\ req[d].at # "idle" => Undisturbed(req[d])
  BY <1>1, <1>2, <1>7, SerialOthers DEF Serially
<1> QED BY <1>2, <1>4, <1>8, <1>9, <1>11, <1>12, <1>13, CurrentIdle, SerialBecomes
        DEF Serially, Tables

\* The users stay as they are.
LEMMA TablesKept ==
    ASSUME Serially, UNCHANGED <<user, issued, entered>>, OfUsers', Backed'
    PROVE  Tables'
BY DEF Tables, Serially, SerialInv, Versioned, NoSessionWithoutPassword, Exists

LEMMA SerialInsert ==
    ASSUME Serially, Typed', NEW c \in Clients, InsertRequest(c)
    PROVE  SerialInv'
<1>1. PICK q \in InFlight : q = req[c] /\ Staged(q) /\ Current(q)
  BY SerialRequest
<1> DEFINE new == [status |-> "PENDING", student |-> q.peer, mentor |-> q.user]
<1>2. /\ q.at = "insert" /\ Exists(q.user) /\ Exists(q.peer)
      /\ UNCHANGED <<user, students, issued, entered, approved, mix>>
  BY <1>1 DEF InsertRequest
<1>3. PICK r \in Requests : request[r].status = "NONE" /\ request' = [request EXCEPT ![r] = new]
  BY <1>1 DEF InsertRequest
<1>4. q.user \in Users /\ q.peer \in Users /\ q.about = {q.user, q.peer} /\ q.op = "request"
  BY <1>1, <1>2 DEF Staged, OfPair
<1>5. Becomes(c, Idle)
  BY EndsNext DEF Ends, Serially
<1>6. request'[r] = new /\ \A i \in Requests : i # r => request'[i] = request[i]
  BY <1>3 DEF Serially, Typed
<1>7. request[r].student = NULL /\ request[r].mentor = NULL
  BY <1>3 DEF Serially, Typed, NoRequest
<1>8. Writes(q)
  <2>1. Users \cap {request[r].student, request[r].mentor, request'[r].student,
                    request'[r].mentor} \subseteq q.about
    BY <1>4, <1>6, <1>7
  <2> QED BY <1>2, <1>4, <1>6, <2>1 DEF Writes
<1>9. \A m, s : ApprovedOf(m, s)' = ApprovedOf(m, s)
  <2>1. ASSUME NEW m, NEW s, NEW i \in Requests
        PROVE  (request'[i] = [status |-> "APPROVED", student |-> s, mentor |-> m])
                 <=> (request[i] = [status |-> "APPROVED", student |-> s, mentor |-> m])
    BY <1>3, <1>6
  <2> QED BY <2>1 DEF ApprovedOf
<1>10. OfUsers'
  <2>1. ASSUME NEW i \in Requests, request'[i].status # "NONE"
        PROVE  /\ request'[i].student \in Users /\ request'[i].mentor \in Users
               /\ Exists(request'[i].student) /\ Exists(request'[i].mentor)
    <3>1. CASE i = r
      BY <1>2, <1>4, <1>6, <3>1
    <3>2. CASE i # r
      BY <1>6, <2>1, <3>2 DEF Serially, SerialInv, OfUsers
    <3> QED BY <3>1, <3>2
  <2> QED BY <1>2, <2>1 DEF OfUsers, Exists
<1>11. Backed'
  BY <1>2, <1>9 DEF Serially, SerialInv, Backed
<1>12. Accounted(c, Idle)
  BY <1>1, <1>2, <1>4, <1>9 DEF Accounted, Makes
<1>13. \A d \in Clients : d # c /\ req[d].at # "idle" => Undisturbed(req[d])
  BY <1>1, <1>2, <1>8, SerialOthers DEF Serially
<1>14. Tables'
  BY <1>2, <1>10, <1>11, TablesKept
<1> QED BY <1>2, <1>5, <1>12, <1>13, <1>14, CurrentIdle, SerialBecomes DEF Serially

LEMMA SerialAnswer ==
    ASSUME Serially, Typed', NEW c \in Clients, StoreAnswer(c)
    PROVE  SerialInv'
<1>1. PICK q \in InFlight : q = req[c] /\ Staged(q) /\ Current(q)
  BY SerialRequest
<1> DEFINE new == [status |-> q.status, student |-> q.peer, mentor |-> q.user]
           r == q.row
<1>2. PICK p : /\ Becomes(c, p) /\ q.at = "answer" /\ q.op = "respond" /\ r \in Requests
               /\ q.status \in {"APPROVED", "REJECTED"}
               /\ \/ p = Idle /\ q.status # "APPROVED"
                  \/ Same(p, q) /\ p.at = "assign" /\ q.status = "APPROVED"
  BY <1>1, AnswerNext DEF Serially
<1>3. request[r] = [status |-> "PENDING", student |-> q.peer, mentor |-> q.user]
  BY <1>1, <1>2 DEF Current
<1>4. /\ request' = [request EXCEPT ![r] = new]
      /\ UNCHANGED <<user, students, issued, entered, mix>>
  BY <1>1, <1>3 DEF StoreAnswer
<1>5. q.user \in Users /\ q.peer \in Users /\ q.about = {q.user, q.peer}
  BY <1>1, <1>2 DEF Staged, OfPair
<1>6. request'[r] = new /\ \A i \in Requests : i # r => request'[i] = request[i]
  BY <1>2, <1>4 DEF Serially, Typed
<1>7. Exists(q.user) /\ Exists(q.peer)
  BY <1>1, <1>2 DEF Current, Key
<1>8. Writes(q)
  <2>1. Users \cap {request[r].student, request[r].mentor, request'[r].student,
                    request'[r].mentor} \subseteq q.about
    BY <1>3, <1>5, <1>6
  <2> QED BY <1>2, <1>4, <1>6, <2>1 DEF Writes
<1>9. ASSUME NEW m, NEW s, m # q.user \/ s # q.peer \/ q.status # "APPROVED"
      PROVE  ApprovedOf(m, s)' = ApprovedOf(m, s)
  <2>1. ASSUME NEW i \in Requests
        PROVE  (request'[i] = [status |-> "APPROVED", student |-> s, mentor |-> m])
                 <=> (request[i] = [status |-> "APPROVED", student |-> s, mentor |-> m])
    BY <1>3, <1>6, <1>9
  <2> QED BY <2>1 DEF ApprovedOf
<1>10. q.status = "APPROVED" => ApprovedOf(q.user, q.peer)' # {}
  BY <1>2, <1>6 DEF ApprovedOf
<1>11. OfUsers'
  <2>1. ASSUME NEW i \in Requests, request'[i].status # "NONE"
        PROVE  /\ request'[i].student \in Users /\ request'[i].mentor \in Users
               /\ Exists(request'[i].student) /\ Exists(request'[i].mentor)
    <3>1. CASE i = r
      BY <1>5, <1>6, <1>7, <3>1
    <3>2. CASE i # r
      BY <1>6, <2>1, <3>2 DEF Serially, SerialInv, OfUsers
    <3> QED BY <3>1, <3>2
  <2> QED BY <1>4, <2>1 DEF OfUsers, Exists
<1>12. \A m, s : ApprovedOf(m, s) # {} => ApprovedOf(m, s)' # {}
  BY <1>9, <1>10
<1>13. Backed'
  BY <1>4, <1>12 DEF Serially, SerialInv, Backed
<1>14. Tables'
  BY <1>4, <1>11, <1>13, TablesKept
<1>15. Current(p)'
  <2>1. CASE p = Idle
    BY <2>1, CurrentIdle
  <2>2. CASE p # Idle
    <3>1. p.at = "assign" /\ p.op = "respond" /\ p.user = q.user /\ p.peer = q.peer
      BY <1>2, <2>2 DEF Same, OfPair
    <3>2. \A v \in Key(p)' : Exists(v)'
      BY <1>4, <1>7, <3>1 DEF Key, Exists
    <3>3. ApprovedOf(p.user, p.peer)' # {}
      BY <1>2, <1>10, <2>2, <3>1
    <3> QED BY <3>1, <3>2, <3>3 DEF Current
  <2> QED BY <2>1, <2>2
<1>16. Accounted(c, p)
  <2> SUFFICES ASSUME NEW m \in Users, NEW s \in Users, ApprovedOf(m, s)' # {}
               PROVE  \/ <<m, s>> \in students'
                      \/ Makes(p, m, s)
                      \/ ApprovedOf(m, s) # {} /\ <<m, s>> \notin students /\ ~Makes(q, m, s)
    BY <1>1 DEF Accounted
  <2>1. ~Makes(q, m, s)
    BY <1>2 DEF Makes
  <2>2. CASE m = q.user /\ s = q.peer /\ q.status = "APPROVED"
    <3>1. p.at = "assign" /\ p.op = "respond" /\ p.user = q.user /\ p.peer = q.peer
      BY <1>2, <2>2 DEF Same, OfPair
    <3> QED BY <2>2, <3>1 DEF Makes
  <2>3. CASE ~(m = q.user /\ s = q.peer /\ q.status = "APPROVED")
    BY <1>4, <1>9, <2>1, <2>3
  <2> QED BY <2>2, <2>3
<1>17. \A d \in Clients : d # c /\ req[d].at # "idle" => Undisturbed(req[d])
  BY <1>1, <1>2, <1>8, SerialOthers DEF Serially
<1> QED BY <1>2, <1>4, <1>14, <1>15, <1>16, <1>17, SerialBecomes DEF Serially

LEMMA SerialReject ==
    ASSUME Serially, Typed', NEW c \in Clients, NEW r \in Requests, RejectOne(c, r)
    PROVE  SerialInv'
<1>1. PICK q \in InFlight : q = req[c] /\ Staged(q) /\ Current(q)
  BY SerialRequest
<1>2. PICK p : /\ Becomes(c, p) /\ q.at = "reject" /\ q.op = "unlink" /\ r \in q.rows
               /\ \/ p = Idle /\ q.rows = {r}
                  \/ Same(p, q) /\ p.at = "reject" /\ p.rows = q.rows \ {r}
  BY <1>1, RejectNext DEF Serially
<1>3. /\ q.rows = ApprovedOf(q.user, q.peer) /\ <<q.user, q.peer>> \notin students
      /\ Exists(q.user)
  BY <1>1, <1>2, KeyUsers DEF Current
<1>4. request[r] = [status |-> "APPROVED", student |-> q.peer, mentor |-> q.user]
  BY <1>2, <1>3 DEF ApprovedOf
<1> DEFINE new == [status |-> "REJECTED", student |-> q.peer, mentor |-> q.user]
<1>5. /\ request' = [request EXCEPT ![r] = new]
      /\ UNCHANGED <<user, students, issued, entered, mix>>
  <2>1. [request[r] EXCEPT !.status = "REJECTED"] = new
    BY <1>4
  <2>2. request' = [request EXCEPT ![r] = [request[r] EXCEPT !.status = "REJECTED"]]
    BY <1>4 DEF RejectOne
  <2> QED BY <2>1, <2>2 DEF RejectOne
<1>6. q.user \in Users /\ q.peer \in Users /\ q.about = {q.user, q.peer}
  BY <1>1, <1>2 DEF Staged, OfPair
<1>7. request'[r] = new /\ \A i \in Requests : i # r => request'[i] = request[i]
  BY <1>5 DEF Serially, Typed
<1>8. Writes(q)
  <2>1. Users \cap {request[r].student, request[r].mentor, request'[r].student,
                    request'[r].mentor} \subseteq q.about
    BY <1>4, <1>6, <1>7
  <2> QED BY <1>2, <1>5, <1>7, <2>1 DEF Writes
<1>9. ASSUME NEW m, NEW s, m # q.user \/ s # q.peer
      PROVE  ApprovedOf(m, s)' = ApprovedOf(m, s)
  <2>1. ASSUME NEW i \in Requests
        PROVE  (request'[i] = [status |-> "APPROVED", student |-> s, mentor |-> m])
                 <=> (request[i] = [status |-> "APPROVED", student |-> s, mentor |-> m])
    BY <1>4, <1>7, <1>9
  <2> QED BY <2>1 DEF ApprovedOf
<1>10. ApprovedOf(q.user, q.peer)' = q.rows \ {r}
  <2>1. ASSUME NEW i \in Requests
        PROVE  (request'[i] = [status |-> "APPROVED", student |-> q.peer, mentor |-> q.user])
                 <=> (i # r /\ request[i] = [status |-> "APPROVED", student |-> q.peer,
                                             mentor |-> q.user])
    BY <1>7
  <2> QED BY <1>3, <2>1 DEF ApprovedOf
<1>11. OfUsers'
  <2>1. ASSUME NEW i \in Requests, request'[i].status # "NONE"
        PROVE  /\ request'[i].student \in Users /\ request'[i].mentor \in Users
               /\ Exists(request'[i].student) /\ Exists(request'[i].mentor)
    <3>1. CASE i = r
      <4>1. Exists(q.peer)
        BY <1>4 DEF Serially, SerialInv, OfUsers
      <4> QED BY <1>3, <1>6, <1>7, <3>1, <4>1
    <3>2. CASE i # r
      BY <1>7, <2>1, <3>2 DEF Serially, SerialInv, OfUsers
    <3> QED BY <3>1, <3>2
  <2> QED BY <1>5, <2>1 DEF OfUsers, Exists
<1>12. Backed'
  <2>1. ASSUME NEW m \in Users, NEW s \in Users, <<m, s>> \in students
        PROVE  ApprovedOf(m, s)' # {}
    <3>1. m # q.user \/ s # q.peer
      BY <1>3, <2>1
    <3> QED BY <1>9, <2>1, <3>1 DEF Serially, SerialInv, Backed
  <2> QED BY <1>5, <2>1 DEF Backed
<1>13. Tables'
  BY <1>5, <1>11, <1>12, TablesKept
<1>14. p = Idle \/ /\ p.at = "reject" /\ p.op = "unlink" /\ p.user = q.user /\ p.peer = q.peer
                   /\ p.rows = q.rows \ {r}
  BY <1>2 DEF Same, OfPair
<1>15. Current(p)'
  <2>1. CASE p = Idle
    BY <2>1, CurrentIdle
  <2>2. CASE p # Idle
    <3>1. \A v \in Key(p)' : Exists(v)'
      BY <1>3, <1>5, <1>14, <2>2 DEF Key, Exists
    <3>2. <<p.user, p.peer>> \notin students' /\ p.rows = ApprovedOf(p.user, p.peer)'
      BY <1>3, <1>5, <1>10, <1>14, <2>2
    <3> QED BY <1>14, <2>2, <3>1, <3>2 DEF Current
  <2> QED BY <2>1, <2>2
<1>16. Accounted(c, p)
  <2> SUFFICES ASSUME NEW m \in Users, NEW s \in Users, ApprovedOf(m, s)' # {}
               PROVE  \/ <<m, s>> \in students'
                      \/ Makes(p, m, s)
                      \/ ApprovedOf(m, s) # {} /\ <<m, s>> \notin students /\ ~Makes(q, m, s)
    BY <1>1 DEF Accounted
  <2>1. CASE m = q.user /\ s = q.peer
    <3>1. p # Idle
      BY <1>2, <1>10, <2>1, IdleType
    <3> QED BY <1>14, <2>1, <3>1 DEF Makes
  <2>2. CASE m # q.user \/ s # q.peer
    BY <1>2, <1>5, <1>9, <2>2 DEF Makes
  <2> QED BY <2>1, <2>2
<1>17. \A d \in Clients : d # c /\ req[d].at # "idle" => Undisturbed(req[d])
  BY <1>1, <1>2, <1>8, SerialOthers DEF Serially
<1> QED BY <1>2, <1>5, <1>13, <1>15, <1>16, <1>17, SerialBecomes DEF Serially

LEMMA SerialPurge ==
    ASSUME Serially, Typed', NEW c \in Clients, Purge(c)
    PROVE  SerialInv'
<1>1. PICK q \in InFlight : q = req[c] /\ Staged(q) /\ Current(q)
  BY SerialRequest
<1>2. PICK p : /\ Becomes(c, p) /\ Same(p, q) /\ q.at = "purge" /\ q.op = "delete"
               /\ \/ p.at = "purge" /\ p.side = "students" /\ q.side = "none"
                  \/ p.at = "erase" /\ q.side # "none"
  BY <1>1, PurgeNext DEF Serially
<1>3. /\ p.user = q.user /\ p.op = "delete" /\ p.user \in Users /\ q.about = Users
      /\ \A x \in students : q.user \notin {x[1], x[2]}
      /\ Exists(q.user) /\ p.user # NULL
  BY <1>1, <1>2, KeyUsers DEF Same, Staged, Current
<1>4. UNCHANGED <<user, students, issued, entered, mix>>
  BY DEF Purge
<1>5. \A r \in Requests :
        \/ request'[r] = request[r]
        \/ /\ request'[r] = NoRequest
           /\ q.user \in {request[r].student, request[r].mentor}
  BY <1>1 DEF Purge
<1>6. /\ q.side = "none" => \A r \in Requests : request'[r].student # q.user
      /\ q.side # "none" => \A r \in Requests : request'[r].mentor # q.user
  BY <1>1, <1>3 DEF Purge, NoRequest
<1>7. NoRequest.student = NULL /\ NoRequest.mentor = NULL /\ NoRequest.status = "NONE"
  BY DEF NoRequest
<1>8. Current(p)'
  <2>1. \A v \in Key(p)' : Exists(v)'
    BY <1>3, <1>4 DEF Key, Exists
  <2>2. \A x \in students' : p.user \notin {x[1], x[2]}
    BY <1>3, <1>4
  <2>3. CASE p.at = "purge"
    <3>1. \A r \in Requests : request'[r].student # p.user
      BY <1>2, <1>3, <1>6, <2>3
    <3> QED BY <1>3, <2>1, <2>2, <2>3, <3>1 DEF Current
  <2>4. CASE p.at = "erase"
    <3>1. \A r \in Requests : request[r].student # q.user
      BY <1>1, <1>2, <2>4 DEF Current
    <3>2. \A r \in Requests : p.user \notin {request'[r].student, request'[r].mentor}
      BY <1>2, <1>3, <1>5, <1>6, <1>7, <2>4, <3>1
    <3> QED BY <1>3, <2>1, <2>2, <2>4, <3>2 DEF Current
  <2> QED BY <1>2, <2>3, <2>4
<1>9. Writes(q)
  BY <1>2, <1>3, <1>4 DEF Writes
<1>10. ASSUME NEW m \in Users, NEW s \in Users, q.user \notin {m, s}
       PROVE  ApprovedOf(m, s)' = ApprovedOf(m, s)
  <2>1. ASSUME NEW i \in Requests
        PROVE  (request'[i] = [status |-> "APPROVED", student |-> s, mentor |-> m])
                 <=> (request[i] = [status |-> "APPROVED", student |-> s, mentor |-> m])
    BY <1>5, <1>7, <1>10
  <2> QED BY <2>1 DEF ApprovedOf
<1>11. OfUsers'
  <2>1. ASSUME NEW i \in Requests, request'[i].status # "NONE"
        PROVE  /\ request'[i].student \in Users /\ request'[i].mentor \in Users
               /\ Exists(request'[i].student) /\ Exists(request'[i].mentor)
    BY <1>5, <1>7, <2>1 DEF Serially, SerialInv, OfUsers
  <2> QED BY <1>4, <2>1 DEF OfUsers, Exists
<1>12. Backed'
  BY <1>3, <1>4, <1>10 DEF Serially, SerialInv, Backed
<1>13. Tables'
  BY <1>4, <1>11, <1>12, TablesKept
<1>14. Accounted(c, p)
  <2> SUFFICES ASSUME NEW m \in Users, NEW s \in Users, ApprovedOf(m, s)' # {}
               PROVE  \/ <<m, s>> \in students'
                      \/ Makes(p, m, s)
                      \/ ApprovedOf(m, s) # {} /\ <<m, s>> \notin students /\ ~Makes(q, m, s)
    BY <1>1 DEF Accounted
  <2>1. CASE q.user \in {m, s}
    BY <1>2, <1>3, <2>1 DEF Makes
  <2>2. CASE q.user \notin {m, s}
    BY <1>2, <1>4, <1>10, <2>2 DEF Makes
  <2> QED BY <2>1, <2>2
<1>15. \A d \in Clients : d # c /\ req[d].at # "idle" => Undisturbed(req[d])
  BY <1>1, <1>2, <1>9, SerialOthers DEF Serially
<1> QED BY <1>2, <1>4, <1>8, <1>13, <1>14, <1>15, SerialBecomes DEF Serially

LEMMA SerialErase ==
    ASSUME Serially, Typed', NEW c \in Clients, Erase(c)
    PROVE  SerialInv'
<1>1. PICK q \in InFlight : q = req[c] /\ Staged(q) /\ Current(q)
  BY SerialRequest
<1> DEFINE u == q.user
           new == [NewUser EXCEPT !.role = "DELETED"]
<1>2. q.at = "erase" /\ q.op = "delete" /\ u \in Users /\ q.about = Users /\ Exists(u)
  BY <1>1, KeyUsers DEF Erase, Staged, Current
<1>3. /\ \A x \in students : u \notin {x[1], x[2]}
      /\ \A r \in Requests : u \notin {request[r].student, request[r].mentor}
  BY <1>1, <1>2 DEF Current
<1>4. UNCHANGED <<issued, entered, approved, mix>>
  BY DEF Erase
<1>5. students' = students /\ \A r \in Requests : request'[r] = request[r]
  BY <1>1, <1>3 DEF Erase, Serially, Typed
<1>6. user' = user \/ user' = [user EXCEPT ![u] = new]
  BY <1>1 DEF Erase
<1>7. \A v \in Users : v # u => user'[v] = user[v] /\ (Exists(v)' <=> Exists(v))
  BY <1>6 DEF Serially, Typed, Exists
<1>8. user'[u] = user[u] \/ ~Exists(u)'
  BY <1>2, <1>6 DEF Serially, Typed, Exists, NewUser
<1>9. Becomes(c, Idle)
  BY EndsNext DEF Ends, Serially
<1>10. Writes(q)
  BY <1>2, <1>4, <1>5, <1>7 DEF Writes
<1>11. \A m, s : ApprovedOf(m, s)' = ApprovedOf(m, s)
  BY <1>5 DEF ApprovedOf
<1>12. Versioned' /\ NoSessionWithoutPassword'
  <2>1. \A v \in Users : Exists(v)' => Exists(v) /\ user'[v] = user[v]
    BY <1>2, <1>7, <1>8
  <2>2. ASSUME NEW w \in Users, NEW v \in Versions, <<w, v>> \in issued', Exists(w)'
        PROVE  v <= user'[w].version
    BY <1>4, <2>1, <2>2 DEF Serially, SerialInv, Versioned
  <2>3. ASSUME NEW w \in Users, Exists(w)', <<w, user'[w].version>> \in issued'
        PROVE  w \in entered'
    BY <1>4, <2>1, <2>3 DEF Serially, SerialInv, NoSessionWithoutPassword
  <2> QED BY <2>2, <2>3 DEF Versioned, NoSessionWithoutPassword
<1>13. OfUsers'
  <2>1. ASSUME NEW i \in Requests, request'[i].status # "NONE"
        PROVE  /\ request'[i].student \in Users /\ request'[i].mentor \in Users
               /\ user'[request'[i].student].role \in {"STUDENT", "MENTOR"}
               /\ user'[request'[i].mentor].role \in {"STUDENT", "MENTOR"}
    <3>1. PICK a, b : a = request[i].student /\ b = request[i].mentor
      OBVIOUS
    <3>2. a \in Users /\ b \in Users /\ Exists(a) /\ Exists(b) /\ a # u /\ b # u
      BY <1>3, <1>5, <2>1, <3>1 DEF Serially, SerialInv, OfUsers
    <3>3. user'[a] = user[a] /\ user'[b] = user[b]
      BY <1>7, <3>2
    <3>4. request'[i].student = a /\ request'[i].mentor = b
      BY <1>5, <3>1
    <3> QED BY <3>2, <3>3, <3>4 DEF Exists
  <2> QED BY <2>1 DEF OfUsers, Exists
<1>14. Backed'
  BY <1>5, <1>11 DEF Serially, SerialInv, Backed
<1>15. Accounted(c, Idle)
  <2> SUFFICES ASSUME NEW m \in Users, NEW s \in Users, ApprovedOf(m, s)' # {}
               PROVE  \/ <<m, s>> \in students'
                      \/ ApprovedOf(m, s) # {} /\ <<m, s>> \notin students /\ ~Makes(q, m, s)
    BY <1>1 DEF Accounted
  <2>1. PICK r \in Requests : request[r] = [status |-> "APPROVED", student |-> s, mentor |-> m]
    BY <1>11 DEF ApprovedOf
  <2>2. u \notin {m, s}
    BY <1>3, <2>1
  <2> QED BY <1>2, <1>5, <1>11, <2>2 DEF Makes
<1>16. \A d \in Clients : d # c /\ req[d].at # "idle" => Undisturbed(req[d])
  BY <1>1, <1>2, <1>10, SerialOthers DEF Serially
<1> QED BY <1>4, <1>9, <1>12, <1>13, <1>14, <1>15, <1>16, CurrentIdle, SerialBecomes
        DEF Serially, Tables

\* The connections after a save: those that were wanted.
Left(q) ==
    CASE q.op = "respond" -> students \cup {<<q.user, q.peer>>}
      [] q.op = "unlink"  -> students \ {<<q.user, q.peer>>}
      [] q.op = "delete"  -> {p \in students : q.user \notin {p[1], p[2]}}
      [] OTHER            -> students

\* While requests about one user wait for each other a save never fails, never inserts a
\* row, and writes what the endpoint wanted.
LEMMA SavesWanted ==
    ASSUME Serially, NEW c \in Clients, NEW q \in InFlight, q = req[c], SaveWrite(c)
    PROVE  /\ Insertable(q) /\ ~q.insert
           /\ students' = Left(q)
           /\ entered' = IF q.op \in Revoking THEN entered \ {q.user} ELSE entered
           /\ \E row \in UserRows :
                /\ user' = [user EXCEPT ![q.user] = row]
                /\ row.role = q.ent.role /\ row.switched = q.ent.switched
                /\ row.version = q.ent.version
<1> DEFINE now == Connections(q.user, q.side)
           pair == <<q.user, q.peer>>
<1>1. Staged(q) /\ Current(q)
  BY SerialRequest
<1>2. /\ q.at = "reread" /\ q.op \in Saving /\ q.user \in Users
      /\ \/ ~Insertable(q) \/ (q.insert /\ Exists(q.user))
         \/ \E row : Saves(q, row)
  BY SaveNext DEF Serially
<1>3. /\ ~q.insert /\ q.cols = {f \in Columns : q.ent[f] # user[q.user][f]}
      /\ q.add = q.rel \ now /\ q.del = now \ q.rel /\ q.rel = Wanted(q)
      /\ q.op \in {"respond", "unlink"} => q.side = "students"
      /\ q.op = "delete" => q.side = "both"
      /\ Exists(q.user) /\ (q.op = "respond" => Exists(q.peer))
  BY <1>1, <1>2, KeyUsers DEF Current, Key
<1>4. students \subseteq Pairs /\ now \subseteq students
  BY DEF Serially, Typed, Connections
<1>5. q.op \in {"respond", "unlink"} => /\ q.peer \in Users
                                        /\ now = {p \in students : p[1] = q.user}
  BY <1>1, <1>2, <1>3 DEF Staged, OfPair, Connections
<1>6. q.op = "delete" => now = {p \in students : q.user \in {p[1], p[2]}}
  BY <1>3 DEF Connections
<1>7. /\ q.op # "respond" => q.add = {}
      /\ q.op = "respond" => q.add = {pair} \ students /\ q.del = {}
      /\ q.op = "unlink" => q.del = {pair} \cap students
      /\ q.op = "delete" => q.del = {p \in students : q.user \in {p[1], p[2]}}
      /\ q.op \notin {"respond", "unlink", "delete"} => q.del = {}
  <2>1. CASE q.op = "respond"
    <3>1. q.rel = now \cup {pair}
      BY <1>3, <2>1 DEF Wanted
    <3>2. pair \in now <=> pair \in students
      BY <1>5, <2>1
    <3> QED BY <1>3, <2>1, <3>1, <3>2
  <2>2. CASE q.op = "unlink"
    <3>1. q.rel = now \ {pair}
      BY <1>3, <2>2 DEF Wanted
    <3>2. pair \in now <=> pair \in students
      BY <1>5, <2>2
    <3> QED BY <1>3, <2>2, <3>1, <3>2
  <2>3. CASE q.op = "delete"
    <3>1. q.rel = {}
      BY <1>3, <2>3 DEF Wanted
    <3> QED BY <1>3, <1>6, <2>3, <3>1
  <2>4. CASE q.op \notin {"respond", "unlink", "delete"}
    <3>1. q.rel = now
      BY <1>3, <2>4 DEF Wanted
    <3> QED BY <1>3, <2>4, <3>1
  <2> QED BY <2>1, <2>2, <2>3, <2>4
<1>8. Insertable(q)
  <2>1. q.add \cap students = {}
    BY <1>7
  <2>2. ASSUME NEW p \in q.add PROVE Exists(p[1]) /\ Exists(p[2])
    BY <1>3, <1>7, <2>2
  <2> QED BY <2>1, <2>2 DEF Insertable
<1>9. PICK row : Saves(q, row)
  BY <1>2, <1>3, <1>8
<1>10. students' = Left(q)
  <2>1. students' = (students \cup q.add) \ q.del
    BY <1>9 DEF Saves
  <2>2. CASE q.op = "respond"
    BY <1>7, <2>1, <2>2 DEF Left
  <2>3. CASE q.op = "unlink"
    BY <1>7, <2>1, <2>3 DEF Left
  <2>4. CASE q.op = "delete"
    BY <1>7, <2>1, <2>4 DEF Left
  <2>5. CASE q.op \notin {"respond", "unlink", "delete"}
    BY <1>7, <2>1, <2>5 DEF Left
  <2> QED BY <2>2, <2>3, <2>4, <2>5
<1>11. /\ row \in UserRows /\ user' = [user EXCEPT ![q.user] = row]
       /\ row = Merged(q, user[q.user])
       /\ entered' = IF q.op \in Revoking THEN entered \ {q.user} ELSE entered
  BY <1>3, <1>9 DEF Saves
<1>12. row.role = q.ent.role /\ row.switched = q.ent.switched /\ row.version = q.ent.version
  <2>1. user[q.user] \in UserRows
    BY <1>2 DEF Serially, Typed
  <2> QED BY <1>3, <1>11, <2>1, MergedType
<1> QED BY <1>3, <1>8, <1>10, <1>11, <1>12

LEMMA SerialSave ==
    ASSUME Serially, Typed', NEW c \in Clients, SaveWrite(c)
    PROVE  SerialInv'
<1>1. PICK q \in InFlight : q = req[c] /\ Staged(q) /\ Current(q)
  BY SerialRequest
<1> DEFINE u == q.user
           pair == <<q.user, q.peer>>
<1>2. PICK row \in UserRows :
        /\ user' = [user EXCEPT ![u] = row]
        /\ row.role = q.ent.role /\ row.switched = q.ent.switched /\ row.version = q.ent.version
  BY <1>1, SavesWanted
<1>3. /\ Insertable(q) /\ ~q.insert /\ students' = Left(q)
      /\ entered' = IF q.op \in Revoking THEN entered \ {u} ELSE entered
  BY <1>1, SavesWanted
<1>4. PICK p : /\ Becomes(c, p) /\ q.at = "reread" /\ q.op \in Saving /\ u \in Users
               /\ \/ p = Idle /\ q.op \notin {"unlink", "delete"}
                  \/ Same(p, q) /\ q.op = "unlink" /\ p.at = "unlinked"
                  \/ Same(p, q) /\ q.op = "delete" /\ p.at = "purge" /\ p.side = "none"
  <2>1. PICK p : /\ Becomes(c, p)
                 /\ \/ p = Idle /\ (~Insertable(q) \/ (q.insert /\ Exists(q.user)))
                    \/ p = Idle /\ q.op \notin {"unlink", "delete"}
                    \/ Same(p, q) /\ q.op = "unlink" /\ p.at = "unlinked"
                    \/ Same(p, q) /\ q.op = "delete" /\ p.at = "purge" /\ p.side = "none"
    BY <1>1, SaveNext DEF Serially
  <2>2. q.at = "reread" /\ q.op \in Saving /\ u \in Users
    BY <1>1, SaveNext DEF Serially
  <2> QED BY <1>3, <2>1, <2>2
<1>5. UNCHANGED <<request, issued, approved, mix>>
  BY DEF SaveWrite
<1>6. \A v \in Users : v # u => user'[v] = user[v]
  BY <1>2 DEF Serially, Typed
<1>7. user'[u] = row
  BY <1>2, <1>4 DEF Serially, Typed
<1>8. /\ Ahead(q) /\ Exists(u) /\ Exists(u)' /\ \A v \in Users : Exists(v)' <=> Exists(v)
  <2>1. Ahead(q) /\ Exists(u)
    BY <1>1, <1>4, KeyUsers DEF Current
  <2>2. Exists(u)'
    BY <1>2, <1>7, <2>1 DEF Ahead, Exists
  <2> QED BY <1>6, <2>1, <2>2 DEF Exists
<1>9. q.op \in {"respond", "unlink"} => q.peer \in Users /\ q.about = {q.user, q.peer}
  BY <1>1, <1>4 DEF Staged, OfPair
<1>10. q.op = "delete" => q.about = Users
  BY <1>1, <1>4 DEF Staged
<1>11. students \subseteq Pairs
  BY DEF Serially, Typed
<1>12. Writes(q)
  <2>1. ASSUME NEW x \in Pairs
        PROVE  (x[1] \in q.about /\ x[2] \in q.about) \/ (x \in students' <=> x \in students)
    <3>1. CASE q.op = "delete"
      BY <1>10, <3>1 DEF Pairs
    <3>2. CASE q.op \in {"respond", "unlink"}
      BY <1>3, <1>9, <3>2 DEF Left
    <3>3. CASE q.op \notin {"respond", "unlink", "delete"}
      BY <1>3, <3>3 DEF Left
    <3> QED BY <3>1, <3>2, <3>3
  <2>2. \A v \in Users : v # u => (v \in entered => v \in entered')
    BY <1>3
  <2>3. q.op # "register"
    BY <1>4 DEF Saving, Revoking
  <2> QED BY <1>5, <1>6, <2>1, <2>2, <2>3 DEF Writes
<1>13. \/ p = Idle
       \/ p.user = u /\ p.op = q.op /\ (q.op = "unlink" => p.peer = q.peer)
  BY <1>4 DEF Same, OfPair
<1>14. Current(p)'
  <2>1. CASE p = Idle
    BY <2>1, CurrentIdle
  <2>2. CASE p # Idle
    <3>1. \A v \in Key(p)' : Exists(v)'
      BY <1>4, <1>8, <1>13, <2>2 DEF Key
    <3>2. CASE q.op = "unlink"
      BY <1>3, <1>4, <1>13, <2>2, <3>1, <3>2 DEF Current, Left
    <3>3. CASE q.op = "delete"
      BY <1>3, <1>4, <1>13, <2>2, <3>1, <3>3 DEF Current, Left
    <3> QED BY <1>4, <2>2, <3>2, <3>3
  <2> QED BY <2>1, <2>2
<1>15. Versioned' /\ NoSessionWithoutPassword'
  <2>1. user[u].version \in Nat /\ q.ent.version \in Nat
    BY <1>4 DEF Serially, Typed, InFlight, UserRows, Versions
  <2>2. /\ q.op \in Revoking => user'[u].version = user[u].version + 1
        /\ q.op \notin Revoking => user'[u].version = user[u].version
    BY <1>2, <1>7, <1>8 DEF Ahead
  <2>3. ASSUME NEW w \in Users, NEW v \in Versions, <<w, v>> \in issued', Exists(w)'
        PROVE  v <= user'[w].version /\ (v = user'[w].version => w \in entered')
    <3>1. v <= user[w].version /\ (v = user[w].version => w \in entered)
      BY <1>5, <1>8, <2>3 DEF Serially, SerialInv, Versioned, NoSessionWithoutPassword
    <3>2. CASE w # u
      BY <1>3, <1>6, <3>1, <3>2
    <3>3. CASE w = u /\ q.op \in Revoking
      <4>1. v \in Nat
        BY DEF Versions
      <4> QED BY <2>1, <2>2, <3>1, <3>3, <4>1
    <3>4. CASE w = u /\ q.op \notin Revoking
      BY <1>3, <2>2, <3>1, <3>4
    <3> QED BY <3>2, <3>3, <3>4
  <2>4. \A w \in Users : user'[w].version \in Versions
    BY DEF Typed, UserRows
  <2> QED BY <2>3, <2>4 DEF Versioned, NoSessionWithoutPassword
<1>16. OfUsers'
  <2>1. ASSUME NEW i \in Requests, request'[i].status # "NONE"
        PROVE  /\ request'[i].student \in Users /\ request'[i].mentor \in Users
               /\ user'[request'[i].student].role \in {"STUDENT", "MENTOR"}
               /\ user'[request'[i].mentor].role \in {"STUDENT", "MENTOR"}
    <3>1. /\ request[i].student \in Users /\ request[i].mentor \in Users
          /\ Exists(request[i].student) /\ Exists(request[i].mentor)
      BY <1>5, <2>1 DEF Serially, SerialInv, OfUsers
    <3> QED BY <1>5, <1>8, <3>1 DEF Exists
  <2> QED BY <2>1 DEF OfUsers, Exists
<1>17. \A m, s : ApprovedOf(m, s)' = ApprovedOf(m, s)
  BY <1>5 DEF ApprovedOf
<1>18. Backed'
  <2>1. ASSUME NEW m \in Users, NEW s \in Users, <<m, s>> \in students'
        PROVE  ApprovedOf(m, s) # {}
    <3>1. CASE <<m, s>> \in students
      BY <3>1 DEF Serially, SerialInv, Backed
    <3>2. CASE <<m, s>> \notin students
      <4>1. q.op = "respond" /\ <<m, s>> = pair
        BY <1>3, <2>1, <3>2 DEF Left
      <4>2. m = q.user /\ s = q.peer
        BY <4>1
      <4> QED BY <1>1, <1>4, <4>1, <4>2 DEF Current
    <3> QED BY <3>1, <3>2
  <2> QED BY <1>17, <2>1 DEF Backed
<1>19. Accounted(c, p)
  <2> SUFFICES ASSUME NEW m \in Users, NEW s \in Users, ApprovedOf(m, s)' # {}
               PROVE  \/ <<m, s>> \in students'
                      \/ Makes(p, m, s)
                      \/ ApprovedOf(m, s) # {} /\ <<m, s>> \notin students /\ ~Makes(q, m, s)
    BY <1>1 DEF Accounted
  <2>1. CASE q.op = "respond"
    <3>1. CASE m = q.user /\ s = q.peer
      BY <1>3, <2>1, <3>1 DEF Left
    <3>2. CASE m # q.user \/ s # q.peer
      BY <1>3, <1>4, <1>17, <2>1, <3>2 DEF Left, Makes
    <3> QED BY <3>1, <3>2
  <2>2. CASE q.op = "unlink"
    <3>1. p.user = u /\ p.peer = q.peer /\ p.at = "unlinked"
      BY <1>4, <2>2 DEF Same, OfPair
    <3>2. CASE m = q.user /\ s = q.peer
      BY <3>1, <3>2 DEF Makes
    <3>3. CASE m # q.user \/ s # q.peer
      BY <1>3, <1>4, <1>17, <2>2, <3>3 DEF Left, Makes
    <3> QED BY <3>2, <3>3
  <2>3. CASE q.op = "delete"
    <3>1. p.user = u /\ p.at = "purge"
      BY <1>4, <2>3 DEF Same
    <3>2. CASE u \in {m, s}
      BY <3>1, <3>2 DEF Makes
    <3>3. CASE u \notin {m, s}
      BY <1>3, <1>4, <1>17, <2>3, <3>3 DEF Left, Makes
    <3> QED BY <3>2, <3>3
  <2>4. CASE q.op \notin {"respond", "unlink", "delete"}
    BY <1>3, <1>4, <1>17, <2>4 DEF Left, Makes
  <2> QED BY <2>1, <2>2, <2>3, <2>4
<1>20. \A d \in Clients : d # c /\ req[d].at # "idle" => Undisturbed(req[d])
  BY <1>1, <1>4, <1>12, SerialOthers DEF Serially
<1> QED BY <1>4, <1>5, <1>14, <1>15, <1>16, <1>18, <1>19, <1>20, SerialBecomes
        DEF Serially, Tables

LEMMA SerialStep ==
    Typed /\ KnownInv /\ Apart /\ (mix.serial => SerialInv) /\ [Next]_vars
        => (mix.serial => SerialInv)'
<1> SUFFICES ASSUME Typed, KnownInv, Apart, mix.serial => SerialInv, [Next]_vars, mix'.serial
             PROVE  SerialInv'
  OBVIOUS
<1>1. Serially
  BY StepMoves DEF Serially
<1>2. Typed' /\ Apart'
  BY TypedStep, ApartStep
<1>3. CASE UNCHANGED vars
  <2>1. Reads /\ req' = req /\ mix' = mix
    BY <1>3 DEF vars, Reads
  <2>2. ASSUME NEW c \in Clients PROVE Current(req[c])'
    <3>1. PICK q \in InFlight : q = req[c] /\ Staged(q) /\ Current(q)
      BY <1>1, SerialRequest
    <3>2. Current(q)'
      <4>1. CASE q.at = "idle"
        <5>1. q = Idle
          BY <3>1, <4>1 DEF Staged
        <5> QED BY <5>1, IdleType DEF Current
      <4>2. CASE q.at # "idle"
        BY <1>1, <1>2, <2>1, <3>1, <4>2, CurrentKept, ReadsUndisturbed DEF Serially
      <4> QED BY <4>1, <4>2
    <3>3. req'[c] = q
      BY <2>1, <3>1
    <3> QED BY <3>2, <3>3 DEF Current, Key, Ahead, Wanted
  <2>3. Tables'
    BY <1>1, <2>1 DEF Reads, Serially, SerialInv, Tables, Versioned, NoSessionWithoutPassword,
                      OfUsers, Backed, Exists, ApprovedOf
  <2>4. Answered'
    BY <1>1, <2>1 DEF Reads, Serially, SerialInv, Answered, Makes, ApprovedOf
  <2> QED BY <2>2, <2>3, <2>4 DEF SerialInv, Tables
<1> QED
  BY <1>1, <1>2, <1>3, NextCases, SerialStarting, SerialRegister, SerialSign, SerialHash,
     SerialInsert, SerialAnswer, SerialAssign, SerialFind, SerialReject, SerialReread, SerialSave,
     SerialPurge, SerialErase, SerialAbort

LEMMA SerialInit == Init => SerialInv
<1> SUFFICES ASSUME Init PROVE SerialInv
  OBVIOUS
<1>1. Typed
  BY TypedInit
<1>2. \A c \in Clients : req[c] = Idle
  BY DEF Init
<1>3. \A c \in Clients : Current(req[c])
  BY <1>2, IdleType DEF Current
<1>4. Versioned
  BY <1>1 DEF Init, Versioned, Typed, UserRows, Versions
<1>5. NoSessionWithoutPassword
  BY DEF Init, NoSessionWithoutPassword
<1>6. \A r \in Requests : request[r].status = "NONE"
  BY DEF Init, NoRequest
<1>7. \A m, s : ApprovedOf(m, s) = {}
  BY <1>6 DEF ApprovedOf
<1>8. OfUsers /\ Backed /\ Answered
  BY <1>6, <1>7 DEF Init, OfUsers, Backed, Answered
<1> QED BY <1>3, <1>4, <1>5, <1>8 DEF SerialInv

-----------------------------------------------------------------------------
(* Results.                                                                 *)

LEMMA Inductive == Spec => []AccountsInv
<1>1. Init => AccountsInv
  BY TypedInit, KnownInit, LinkedInit, SerialInit DEF AccountsInv
<1>2. AccountsInv /\ [Next]_vars => AccountsInv'
  BY TypedStep, KnownStep, LinkedStep, ApartStep, SerialStep DEF AccountsInv
<1> QED BY <1>1, <1>2, PTL DEF Spec

\* While the requests about one user do not overlap, no refresh, change of the name, of the
\* role or of the password brings a revoked token back (auth.service 77-108, users.service
\* 64-71, 157-202): the row that a save writes was read when the request began.
THEOREM RevokedStayRevoked == Spec => []RevokedSessionsEnd
<1>1. AccountsInv => RevokedSessionsEnd
  BY DEF AccountsInv, SerialInv, RevokedSessionsEnd
<1> QED BY <1>1, Inductive, PTL

\* A request that makes or ends a connection is one of the two users.
LEMMA MakesIsMaking ==
    ASSUME Typed, NEW c \in Clients, NEW m \in Users, NEW s \in Users, Makes(req[c], m, s)
    PROVE  InTheMaking(m, s)
<1>1. PICK q \in InFlight : q = req[c] /\ Staged(q)
  BY RequestType
<1>2. CASE q.op = "respond" /\ q.user = m /\ q.peer = s /\ q.at \in {"assign", "loaded", "reread"}
  BY <1>1, <1>2 DEF Staged, OfPair, InTheMaking
<1>3. CASE q.user = m /\ q.peer = s /\ q.at \in {"unlinked", "reject"}
  BY <1>1, <1>3 DEF Staged, OfPair, InTheMaking
<1>4. CASE q.user \in {m, s} /\ q.at \in {"purge", "erase"}
  BY <1>1, <1>4 DEF Staged, InTheMaking
<1> QED BY <1>1, <1>2, <1>3, <1>4 DEF Makes

\* A student is connected to a mentor only if the mentor approved a request once, whatever
\* overlaps and fails; while requests about one user do not overlap, exactly the approved
\* requests connect (users.service 115-139, 262-345).
THEOREM ApprovedConnect == Spec => []ConnectedIffApproved
<1>1. ASSUME AccountsInv PROVE ConnectedIffApproved
  <2>1. students \subseteq approved
    BY <1>1 DEF AccountsInv, LinkedInv
  <2>2. ASSUME mix.serial, NEW m \in Users, NEW s \in Users
        PROVE  /\ <<m, s>> \in students => ApprovedOf(m, s) # {}
               /\ ApprovedOf(m, s) # {} /\ ~mix.tears => <<m, s>> \in students \/ InTheMaking(m, s)
    <3>1. Typed /\ Backed /\ Answered
      BY <1>1, <2>2 DEF AccountsInv, SerialInv
    <3> QED BY <3>1, MakesIsMaking DEF Backed, Answered
  <2> QED BY <2>1, <2>2 DEF ConnectedIffApproved
<1> QED BY <1>1, Inductive, PTL

LEMMA Forward == Serially /\ [Next]_vars => ForwardStep
<1> SUFFICES ASSUME Serially, [Next]_vars, NEW u \in Users
             PROVE  LET old == user[u]  new == user'[u] IN
                    /\ Exists(u) /\ new.role # old.role => new.role = "DELETED" \/ ~old.switched
                    /\ Exists(u) /\ new.role # "DELETED" =>
                           new.version >= old.version /\ (old.switched => new.switched)
                    /\ old.role = "DELETED" => new = old
  BY DEF ForwardStep
<1> DEFINE Goal == LET old == user[u]  new == user'[u] IN
                    /\ Exists(u) /\ new.role # old.role => new.role = "DELETED" \/ ~old.switched
                    /\ Exists(u) /\ new.role # "DELETED" =>
                           new.version >= old.version /\ (old.switched => new.switched)
                    /\ old.role = "DELETED" => new = old
<1>0. user[u] \in UserRows /\ user[u].version \in Nat /\ Typed
  BY DEF Serially, Typed, UserRows, Versions
<1>1. CASE user'[u] = user[u]
  BY <1>0, <1>1
<1>2. ASSUME NEW c \in Clients, NEW role \in {"STUDENT", "MENTOR"}, Register(c, role)
      PROVE  Goal
  <2>1. CASE u = Me(c)
    BY <1>2, <2>1 DEF Register, Exists
  <2>2. CASE u # Me(c)
    BY <1>0, <1>1, <1>2, <2>2 DEF Register, Typed
  <2> QED BY <2>1, <2>2
<1>3. ASSUME NEW c \in Clients, StoreHash(c) PROVE Goal
  <2>1. PICK q \in InFlight : q = req[c] /\ Staged(q) /\ Current(q)
    BY SerialRequest
  <2>2. user' = [user EXCEPT ![q.user].hash = @ \/ Exists(q.user)] /\ q.at = "issue"
    BY <1>3, <2>1 DEF StoreHash
  <2>3. q.user \in Users /\ Exists(q.user)
    BY <2>1, <2>2, KeyUsers DEF Current
  <2>4. user'[u] = user[u] \/ (u = q.user /\ user'[u] = [user[u] EXCEPT !.hash = user[u].hash \/ Exists(u)])
    BY <1>0, <2>2 DEF Typed
  <2>5. /\ user'[u].role = user[u].role /\ user'[u].version = user[u].version
        /\ user'[u].switched = user[u].switched
    BY <1>0, <2>4 DEF UserRows
  <2> QED BY <1>0, <1>1, <2>3, <2>4, <2>5 DEF Exists
<1>4. ASSUME NEW c \in Clients, SaveWrite(c) PROVE Goal
  <2>1. PICK q \in InFlight : q = req[c] /\ Staged(q) /\ Current(q)
    BY SerialRequest
  <2>2. PICK row \in UserRows :
          /\ user' = [user EXCEPT ![q.user] = row]
          /\ row.role = q.ent.role /\ row.switched = q.ent.switched
          /\ row.version = q.ent.version
    BY <1>4, <2>1, SavesWanted
  <2>3. q.at = "reread"
    BY <1>4, <2>1 DEF SaveWrite
  <2>4. q.user \in Users /\ Exists(q.user) /\ Ahead(q)
    BY <2>1, <2>3, KeyUsers DEF Current
  <2>5. CASE u = q.user
    <3>1. user'[u] = row
      BY <1>0, <2>2, <2>5 DEF Typed
    <3>2. q.ent.version >= user[u].version
      BY <1>0, <2>4, <2>5 DEF Ahead
    <3> QED BY <2>2, <2>4, <2>5, <3>1, <3>2 DEF Ahead, Exists
  <2>6. CASE u # q.user
    BY <1>0, <1>1, <2>2, <2>6 DEF Typed
  <2> QED BY <2>5, <2>6
<1>5. ASSUME NEW c \in Clients, Erase(c) PROVE Goal
  <2>1. PICK q \in InFlight : q = req[c] /\ Staged(q) /\ Current(q)
    BY SerialRequest
  <2>2. q.user \in Users /\ Exists(q.user)
    BY <1>5, <2>1, KeyUsers DEF Current, Erase
  <2>3. \/ user'[u] = user[u]
        \/ u = q.user /\ user'[u] = [NewUser EXCEPT !.role = "DELETED"]
    BY <1>0, <1>5, <2>1 DEF Erase, Typed
  <2>4. [NewUser EXCEPT !.role = "DELETED"].role = "DELETED"
    BY DEF NewUser
  <2> QED BY <1>1, <2>2, <2>3, <2>4 DEF Exists
<1>6. ASSUME NEW c \in Clients,
             \/ Starting(c) \/ Sign(c) \/ InsertRequest(c) \/ StoreAnswer(c) \/ Assign(c)
             \/ FindApproved(c) \/ (\E r \in Requests : RejectOne(c, r))
             \/ Reread(c) \/ Purge(c) \/ Abort(c)
      PROVE  user' = user
  <2>1. CASE Starting(c)
    BY <1>0, <2>1, StartingBegins DEF Begins
  <2> QED BY <1>6, <2>1 DEF Sign, InsertRequest, StoreAnswer, Assign, FindApproved, RejectOne,
             Reread, Purge, Abort
<1>7. CASE UNCHANGED vars
  BY <1>7, <1>1 DEF vars
<1> QED BY <1>1, <1>2, <1>3, <1>4, <1>5, <1>6, <1>7, NextCases

\* While they do not overlap, however the endpoints follow each other: the role changes
\* once, the token version does not go back, a deleted user does not come back.
THEOREM AccountsGoForward == Spec => AccountForward
<1>1. AccountsInv /\ [Next]_vars => [mix.serial => ForwardStep]_vars
  BY Forward DEF AccountsInv, Serially
<1> QED BY <1>1, Inductive, PTL DEF Spec, AccountForward
=============================================================================
