------------------------- MODULE AccessGrantsProofs -------------------------
(***************************************************************************)
(* Theorems about AccessGrants, for every value of its constants.          *)
(***************************************************************************)
EXTENDS AccessGrants, TLAPS

USE ConstantsAssumption

Entities == [status : Statuses, grantee : Users \cup {NULL}]

\* The requests and rows the handlers build have their types.
LEMMA BuiltTypes ==
    /\ NoRow \in Rows /\ Idle \in Requests
    /\ \A row \in Rows : Inserting(row) \in Requests
    /\ \A g \in Grants, ent \in Entities : Loaded(g, ent.status, ent.grantee) \in Requests
    /\ \A g \in Grants, ent \in Entities : Rereading(g, ent) \in Requests
    /\ \A g \in Grants : Accepted(g) \in Requests
    /\ \A u \in Users, offer \in Offers : Invitation(u, offer) \in Rows
    /\ \A u \in Users, x \in Users \cup {NULL} : GrantBack(u, x) \in Rows
<1>1. NoRow \in Rows /\ Idle \in Requests
  BY DEF NoRow, Rows, Idle, Requests, Statuses
<1>2. \A u \in Users, offer \in Offers : Invitation(u, offer) \in Rows
  BY DEF Invitation, Rows, Statuses
<1>3. \A u \in Users, x \in Users \cup {NULL} : GrantBack(u, x) \in Rows
  BY DEF GrantBack, Rows, Statuses
<1>4. \A row \in Rows : Inserting(row) \in Requests
  BY <1>1 DEF Inserting, Idle, Requests
<1>5. \A g \in Grants, ent \in Entities : Loaded(g, ent.status, ent.grantee) \in Requests
  BY <1>1 DEF Loaded, Idle, Requests, Entities
<1>6. \A g \in Grants, ent \in Entities : Rereading(g, ent) \in Requests
  <2>1. \A ent, row : Diff(ent, row) \subseteq {"status", "grantee"}
    BY DEF Diff
  <2> QED BY <1>1, <2>1 DEF Rereading, Idle, Requests, Entities
<1>7. \A g \in Grants : Accepted(g) \in Requests
  BY <1>1 DEF Accepted, Idle, Requests
<1> QED BY <1>1, <1>2, <1>3, <1>4, <1>5, <1>6, <1>7

\* What these requests say.
LEMMA BuiltFields ==
    /\ Idle.at = "idle" /\ Idle.grant = NULL
    /\ \A row : Inserting(row).at = "insert" /\ Inserting(row).row = row /\ Inserting(row).grant = NULL
    /\ \A g, status, grantee :
          /\ Loaded(g, status, grantee).at = "loaded" /\ Loaded(g, status, grantee).grant = g
          /\ Loaded(g, status, grantee).ent.status = status
          /\ Loaded(g, status, grantee).ent.grantee = grantee
    /\ \A g, ent : /\ Rereading(g, ent).at = "reread" /\ Rereading(g, ent).grant = g
                   /\ Rereading(g, ent).ent = ent
                   /\ Rereading(g, ent).cols = Diff(ent, grant[g])
    /\ \A g : Accepted(g).at = "accepted" /\ Accepted(g).grant = g
BY DEF Idle, Inserting, Loaded, Rereading, Accepted

\* What an UPDATE leaves in a row.
LEMMA WrittenFields ==
    ASSUME NEW row \in Rows, NEW ent \in Entities, NEW cols
    PROVE  LET w == Written(row, ent, cols) IN
           /\ w \in Rows
           /\ w.status = IF "status" \in cols THEN ent.status ELSE row.status
           /\ w.grantee = IF "grantee" \in cols THEN ent.grantee ELSE row.grantee
           /\ w.granter = row.granter /\ w.email = row.email
           /\ w.scope = row.scope /\ w.expires = row.expires
BY DEF Written, Rows, Entities, Statuses

\* What a request in flight is about.
LEMMA RequestIds ==
    ASSUME TypeOK, NEW c \in Clients
    PROVE  /\ req[c] \in Requests
           /\ req[c].at \in {"idle", "insert", "loaded", "reread", "accepted"}
           /\ req[c].at \in {"idle", "insert"} => req[c].grant = NULL
           /\ req[c].at \in {"loaded", "reread", "accepted"} => req[c].grant \in Grants
           /\ req[c].row \in Rows /\ req[c].ent \in Entities
           /\ req[c].ent.status \in Statuses /\ req[c].ent.grantee \in Users \cup {NULL}
BY DEF TypeOK, Requests, Entities

LEMMA RowTypes ==
    ASSUME TypeOK, NEW g \in Grants
    PROVE  /\ grant[g] \in Rows
           /\ grant[g].status \in Statuses \cup {"NONE"}
           /\ grant[g].granter \in Users \cup {NULL} /\ grant[g].grantee \in Users \cup {NULL}
           /\ grant[g].email \in Users \cup {NULL}
BY DEF TypeOK, Rows

-----------------------------------------------------------------------------
(* The steps, as far as the proofs look at them: the row each one writes,   *)
(* and the request it leaves.                                               *)

\* A claim writes nothing but the grantee of open invitations to an address.
ClaimedBy(u, g) ==
    grant[g].email = u /\ grant[g].grantee = NULL /\ grant[g].status = "INVITED"

LEMMA ClaimFields ==
    ASSUME TypeOK, NEW c \in Clients, Claim(c), NEW g \in Grants
    PROVE  /\ grant'[g] \in Rows
           /\ grant'[g].status = grant[g].status /\ grant'[g].granter = grant[g].granter
           /\ grant'[g].email = grant[g].email /\ grant'[g].scope = grant[g].scope
           /\ grant'[g].expires = grant[g].expires
           /\ grant'[g].grantee = IF ClaimedBy(UserOf[c], g) THEN UserOf[c] ELSE grant[g].grantee
           /\ ~ClaimedBy(UserOf[c], g) => grant'[g] = grant[g]
<1>1. grant[g] \in Rows /\ UserOf[c] \in Users
  BY RowTypes
<1>2. CASE ClaimedBy(UserOf[c], g)
  <2>1. grant'[g] = [grant[g] EXCEPT !.grantee = UserOf[c]]
    BY <1>2 DEF Claim, ClaimedBy
  <2> QED BY <1>1, <1>2, <2>1 DEF Rows
<1>3. CASE ~ClaimedBy(UserOf[c], g)
  <2>1. grant'[g] = grant[g]
    BY <1>3 DEF Claim, ClaimedBy
  <2> QED BY <1>1, <1>3, <2>1
<1> QED BY <1>2, <1>3

\* Every step of every handler keeps the types.
LEMMA TypeStep == TypeOK /\ [Next]_vars => TypeOK'
<1> SUFFICES ASSUME TypeOK, [Next]_vars PROVE TypeOK'
  OBVIOUS
<1>c. calm' \in BOOLEAN
  BY DEF Next, vars, TypeOK
<1>1. ASSUME NEW c \in Clients, NEW offer \in Offers, InviteCheck(c, offer) PROVE TypeOK'
  <2>1. Inserting(Invitation(UserOf[c], offer)) \in Requests
    BY BuiltTypes
  <2> QED BY <1>c, <1>1, <2>1 DEF InviteCheck, TypeOK
<1>2. ASSUME NEW c \in Clients, Insert(c) PROVE TypeOK'
  <2>1. req[c].row \in Rows
    BY RequestIds
  <2>2. PICK g \in Grants : grant' = [grant EXCEPT ![g] = req[c].row]
    BY <1>2 DEF Insert, Free
  <2> QED BY <1>c, <1>2, <2>1, <2>2, BuiltTypes DEF Insert, TypeOK
<1>3. ASSUME NEW c \in Clients, NEW g \in Grants, AcceptLoad(c, g) PROVE TypeOK'
  <2>1. \A s \in Statuses, x \in Users \cup {NULL} : Loaded(g, s, x) \in Requests
    <3> SUFFICES ASSUME NEW s \in Statuses, NEW x \in Users \cup {NULL}
                 PROVE  Loaded(g, s, x) \in Requests
      OBVIOUS
    <3>1. [status |-> s, grantee |-> x] \in Entities
      BY DEF Entities
    <3> QED BY <3>1, BuiltTypes
  <2>2. grant[g].grantee \in Users \cup {NULL}
    BY RowTypes
  <2> QED BY <1>c, <1>3, <2>1, <2>2 DEF AcceptLoad, TypeOK, Statuses
<1>4. ASSUME NEW c \in Clients, NEW g \in Grants, RevokeLoad(c, g) PROVE TypeOK'
  <2>1. [status |-> "REVOKED", grantee |-> grant[g].grantee] \in Entities
    BY RowTypes DEF Entities, Statuses
  <2>2. Loaded(g, "REVOKED", grant[g].grantee) \in Requests
    BY <2>1, BuiltTypes
  <2> QED BY <1>c, <1>4, <2>2 DEF RevokeLoad, TypeOK
<1>5. ASSUME NEW c \in Clients, Reciprocate(c) PROVE TypeOK'
  <2>1. req[c].grant \in Grants
    BY <1>5, RequestIds DEF Reciprocate
  <2>2. Inserting(GrantBack(UserOf[c], grant[req[c].grant].granter)) \in Requests
    BY <2>1, RowTypes, BuiltTypes
  <2>3. Idle \in Requests
    BY BuiltTypes
  <2>4. \E q \in {Idle, Inserting(GrantBack(UserOf[c], grant[req[c].grant].granter))} :
          req' = [req EXCEPT ![c] = q]
    BY <1>5 DEF Reciprocate
  <2> QED BY <1>c, <1>5, <2>2, <2>3, <2>4 DEF Reciprocate, TypeOK
<1>6. ASSUME NEW c \in Clients, Claim(c) PROVE TypeOK'
  <2>1. grant' \in [Grants -> Rows]
    <3>1. \A g \in Grants : grant'[g] \in Rows
      BY <1>6, ClaimFields
    <3>2. grant' = [g \in Grants |-> grant'[g]]
      BY <1>6 DEF Claim
    <3> QED BY <3>1, <3>2
  <2> QED BY <1>c, <1>6, <2>1 DEF Claim, TypeOK
<1>7. ASSUME NEW c \in Clients, Reread(c) PROVE TypeOK'
  <2>1. Rereading(req[c].grant, req[c].ent) \in Requests
    BY <1>7, RequestIds, BuiltTypes DEF Reread
  <2> QED BY <1>c, <1>7, <2>1 DEF Reread, TypeOK
<1>8. ASSUME NEW c \in Clients, SaveWrite(c) PROVE TypeOK'
  <2> DEFINE g == req[c].grant
  <2>1. g \in Grants /\ req[c].ent \in Entities
    BY <1>8, RequestIds DEF SaveWrite
  <2>2. Written(grant[g], req[c].ent, req[c].cols) \in Rows
    BY <2>1, RowTypes, WrittenFields
  <2>3. Accepted(g) \in Requests /\ Idle \in Requests
    BY <2>1, BuiltTypes
  <2>4. grant' = [grant EXCEPT ![g] = Written(grant[g], req[c].ent, req[c].cols)]
    BY <1>8 DEF SaveWrite
  <2>5. \E q \in {Accepted(g), Idle} : req' = [req EXCEPT ![c] = q]
    BY <1>8 DEF SaveWrite
  <2>6. UNCHANGED <<past, registered, consent, torn>> /\ missed' \subseteq missed \cup Clients
    BY <1>8 DEF SaveWrite, Missing
  <2> HIDE DEF g
  <2>7. grant' \in [Grants -> Rows]
    BY <2>1, <2>2, <2>4 DEF TypeOK
  <2>8. req' \in [Clients -> Requests]
    BY <2>3, <2>5 DEF TypeOK
  <2> QED BY <1>c, <2>6, <2>7, <2>8 DEF TypeOK
<1>9. ASSUME NEW c \in Clients, Abort(c) PROVE TypeOK'
  BY <1>c, <1>9, BuiltTypes DEF Abort, TypeOK, Owed
<1>10. ASSUME NEW u \in Users, Register(u) PROVE TypeOK'
  BY <1>c, <1>10 DEF Register, TypeOK
<1>11. ASSUME NEW g \in Grants, TimePasses(g) PROVE TypeOK'
  BY <1>c, <1>11 DEF TimePasses, TypeOK
<1>12. ASSUME UNCHANGED vars PROVE TypeOK'
  BY <1>12 DEF vars, TypeOK
<1> QED BY <1>1, <1>2, <1>3, <1>4, <1>5, <1>6, <1>7, <1>8, <1>9, <1>10, <1>11, <1>12 DEF Next, Handlers

LEMMA TypeInit == Init => TypeOK
BY BuiltTypes DEF Init, TypeOK

\* The rows and the requests have the columns, enum values and fields that the
\* code gives them (access-grant.entity.ts).
THEOREM TypeCorrect == Spec => []TypeOK
BY TypeInit, TypeStep, PTL DEF Spec

-----------------------------------------------------------------------------
(* Who a grant is for. The invariant follows the grantee through the saves  *)
(* that are in flight: whichever of them is stored last, the grantee is     *)
(* somebody whom the invitation addressed.                                  *)

Addressed(row) ==
    /\ row.email # NULL => row.email # row.granter
    /\ row.grantee # NULL => row.grantee # row.granter /\ row.email \in {NULL, row.grantee}

RowAddressed(g) ==
    /\ grant[g].status = "NONE" => grant[g] = NoRow
    /\ Addressed(grant[g])

\* u may become the grantee of g.
MayHold(g, u) == u # grant[g].granter /\ grant[g].email \in {NULL, u}

RequestAddressed(c) ==
    LET q == req[c]  g == q.grant IN
    /\ q.at = "insert" => q.row.status # "NONE" /\ Addressed(q.row)
    /\ q.at \in {"loaded", "reread", "accepted"} => grant[g].status # "NONE"
    /\ q.at \in {"loaded", "reread"} =>
         /\ q.ent.grantee # NULL => MayHold(g, q.ent.grantee)
         /\ q.ent.status = "ACTIVE" => q.ent.grantee = UserOf[c]
    /\ q.at = "accepted" => grant[g].granter # UserOf[c]

AddressInv ==
    /\ TypeOK
    /\ \A g \in Grants : RowAddressed(g)
    /\ \A c \in Clients : RequestAddressed(c)

\* A stored grant stays stored, and keeps its granter, address and scope.
LEMMA RowsStable ==
    ASSUME TypeOK, [Next]_vars, NEW g \in Grants, grant[g].status # "NONE"
    PROVE  /\ grant'[g].status # "NONE"
           /\ grant'[g].granter = grant[g].granter
           /\ grant'[g].email = grant[g].email /\ grant'[g].scope = grant[g].scope
<1> DEFINE Goal == /\ grant'[g].status # "NONE"
                   /\ grant'[g].granter = grant[g].granter
                   /\ grant'[g].email = grant[g].email /\ grant'[g].scope = grant[g].scope
<1>1. ASSUME NEW c \in Clients, Insert(c) PROVE Goal
  <2>1. PICK h \in Grants : grant[h] = NoRow /\ grant' = [grant EXCEPT ![h] = req[c].row]
    BY <1>1 DEF Insert, Free
  <2>2. h # g
    BY <2>1 DEF NoRow
  <2> QED BY <2>1, <2>2 DEF TypeOK
<1>2. ASSUME NEW c \in Clients, Claim(c) PROVE Goal
  BY <1>2, ClaimFields
<1>3. ASSUME NEW c \in Clients, SaveWrite(c) PROVE Goal
  <2> DEFINE w == Written(grant[g], req[c].ent, req[c].cols)
  <2>1. req[c].ent \in Entities /\ req[c].ent.status # "NONE" /\ req[c].grant \in Grants
    BY <1>3, RequestIds DEF SaveWrite, Statuses
  <2>2. grant'[g] \in {grant[g], w}
    BY <1>3, <2>1 DEF SaveWrite, TypeOK
  <2>3. /\ w.status # "NONE" /\ w.granter = grant[g].granter
        /\ w.email = grant[g].email /\ w.scope = grant[g].scope
    BY <2>1, RowTypes, WrittenFields
  <2> HIDE DEF w
  <2> QED BY <2>2, <2>3
<1>4. ASSUME UNCHANGED grant PROVE Goal
  BY <1>4
<1> HIDE DEF Goal
<1>5. Goal
  BY <1>1, <1>2, <1>3, <1>4
     DEF Next, Handlers, vars, InviteCheck, AcceptLoad, RevokeLoad, Reciprocate, Reread, Abort, Register, TimePasses
<1> QED BY <1>5 DEF Goal

\* A step does not disturb the requests of other clients.
LEMMA AddressQuiet ==
    ASSUME AddressInv, [Next]_vars, NEW c \in Clients, req'[c] = req[c]
    PROVE  RequestAddressed(c)'
<1>1. RequestAddressed(c) /\ TypeOK
  BY DEF AddressInv
<1>2. CASE req[c].at \in {"loaded", "reread", "accepted"}
  <2> DEFINE g == req[c].grant
  <2>1. g \in Grants /\ grant[g].status # "NONE"
    BY <1>1, <1>2, RequestIds DEF RequestAddressed
  <2>2. /\ grant'[g].status # "NONE" /\ grant'[g].granter = grant[g].granter
        /\ grant'[g].email = grant[g].email
    BY <1>1, <2>1, RowsStable
  <2> QED BY <1>1, <1>2, <2>2 DEF RequestAddressed, MayHold
<1>3. CASE req[c].at \in {"idle", "insert"}
  BY <1>1, <1>3 DEF RequestAddressed
<1> QED BY <1>1, <1>2, <1>3, RequestIds

\* A step that stores nothing leaves the rows as they are.
LEMMA AddressRows ==
    ASSUME AddressInv, UNCHANGED grant, NEW g \in Grants
    PROVE  RowAddressed(g)'
BY DEF AddressInv, RowAddressed, Addressed, NoRow

\* Every step of every handler keeps the invariant.
LEMMA AddressStep == AddressInv /\ [Next]_vars => AddressInv'
<1> SUFFICES ASSUME AddressInv, [Next]_vars PROVE AddressInv'
  OBVIOUS
<1>t. TypeOK /\ TypeOK'
  BY TypeStep DEF AddressInv
<1> DEFINE Goal == /\ \A g \in Grants : RowAddressed(g)'
                   /\ \A c \in Clients : RequestAddressed(c)'
\* It is enough to look at the client that takes the step.
<1>q. ASSUME NEW c \in Clients, \A d \in Clients \ {c} : req'[d] = req[d], RequestAddressed(c)'
      PROVE  \A d \in Clients : RequestAddressed(d)'
  BY <1>q, AddressQuiet
<1>1. ASSUME NEW c \in Clients, NEW offer \in Offers, InviteCheck(c, offer) PROVE Goal
  <2> DEFINE row == Invitation(UserOf[c], offer)
  <2>1. req'[c] = Inserting(row) /\ \A d \in Clients \ {c} : req'[d] = req[d]
    BY <1>1, <1>t DEF InviteCheck, TypeOK
  <2>2. offer.email # UserOf[c] /\ UNCHANGED grant /\ UserOf[c] \in Users
    BY <1>1 DEF InviteCheck
  <2>3. row.status # "NONE" /\ Addressed(row)
    BY <2>2 DEF Invitation, Addressed
  <2> HIDE DEF row
  <2>4. RequestAddressed(c)'
    BY <2>1, <2>3, BuiltFields DEF RequestAddressed
  <2> QED BY <2>1, <2>2, <2>4, <1>q, AddressRows
<1>2. ASSUME NEW c \in Clients, Insert(c) PROVE Goal
  <2>1. PICK h \in Grants : grant' = [grant EXCEPT ![h] = req[c].row]
    BY <1>2 DEF Insert, Free
  <2>2. req[c].row.status # "NONE" /\ Addressed(req[c].row)
    BY <1>2 DEF AddressInv, RequestAddressed, Insert
  <2>3. \A g \in Grants : RowAddressed(g)'
    <3> SUFFICES ASSUME NEW g \in Grants PROVE RowAddressed(g)'
      OBVIOUS
    <3>1. CASE g = h
      <4>1. grant'[g] = req[c].row
        BY <2>1, <3>1, <1>t DEF TypeOK
      <4> QED BY <4>1, <2>2 DEF RowAddressed, Addressed
    <3>2. CASE g # h
      <4>1. grant'[g] = grant[g]
        BY <2>1, <3>2, <1>t DEF TypeOK
      <4> QED BY <4>1 DEF AddressInv, RowAddressed, Addressed, NoRow
    <3> QED BY <3>1, <3>2
  <2>4. req'[c] = Idle /\ \A d \in Clients \ {c} : req'[d] = req[d]
    BY <1>2, <1>t DEF Insert, TypeOK
  <2>5. RequestAddressed(c)'
    BY <2>4, BuiltFields DEF RequestAddressed
  <2> QED BY <2>3, <2>4, <2>5, <1>q
<1>3. ASSUME NEW c \in Clients, NEW g \in Grants, AcceptLoad(c, g) PROVE Goal
  <2>1. /\ grant[g].status = "INVITED" /\ MayHold(g, UserOf[c])
        /\ UNCHANGED grant /\ UserOf[c] \in Users
    BY <1>3 DEF AcceptLoad, MayAccept, MayHold
  <2>2. grant[g].grantee # NULL => MayHold(g, grant[g].grantee)
    BY DEF AddressInv, RowAddressed, Addressed, MayHold
  <2>3. \E s \in {"ACTIVE", "EXPIRED"} :
          /\ req' = [req EXCEPT ![c] = Loaded(g, s, IF s = "ACTIVE" THEN UserOf[c]
                                                    ELSE grant[g].grantee)]
    BY <1>3 DEF AcceptLoad
  <2>4. PICK s \in {"ACTIVE", "EXPIRED"}, x \in {UserOf[c], grant[g].grantee} :
          /\ req' = [req EXCEPT ![c] = Loaded(g, s, x)]
          /\ s = "ACTIVE" => x = UserOf[c]
    BY <2>3
  <2>5. req'[c] = Loaded(g, s, x) /\ \A d \in Clients \ {c} : req'[d] = req[d]
    BY <2>4, <1>t DEF TypeOK
  <2>6. RequestAddressed(c)'
    <3>1. /\ req'[c].at = "loaded" /\ req'[c].grant = g
          /\ req'[c].ent.status = s /\ req'[c].ent.grantee = x
      BY <2>5, BuiltFields
    <3>2. x # NULL => MayHold(g, x)
      BY <2>1, <2>2, <2>4
    <3>3. grant'[g].status # "NONE" /\ (x # NULL => MayHold(g, x)')
      BY <2>1, <3>2 DEF MayHold
    <3>4. req'[c].ent.status = "ACTIVE" => req'[c].ent.grantee = UserOf[c]
      BY <2>4, <3>1
    <3> QED BY <3>1, <3>3, <3>4 DEF RequestAddressed
  <2> QED BY <2>1, <2>5, <2>6, <1>q, AddressRows
<1>4. ASSUME NEW c \in Clients, NEW g \in Grants, RevokeLoad(c, g) PROVE Goal
  <2>1. PICK x : x = grant[g].grantee
    OBVIOUS
  <2>2. grant[g].status # "NONE" /\ UNCHANGED grant /\ (x # NULL => MayHold(g, x))
    BY <1>4, <2>1 DEF RevokeLoad, AddressInv, RowAddressed, Addressed, MayHold
  <2>3. req'[c] = Loaded(g, "REVOKED", x) /\ \A d \in Clients \ {c} : req'[d] = req[d]
    BY <1>4, <2>1, <1>t DEF RevokeLoad, TypeOK
  <2>4. RequestAddressed(c)'
    <3>1. /\ req'[c].at = "loaded" /\ req'[c].grant = g
          /\ req'[c].ent.status = "REVOKED" /\ req'[c].ent.grantee = x
      BY <2>3, BuiltFields
    <3>2. grant'[g].status # "NONE" /\ (x # NULL => MayHold(g, x)')
      BY <2>2 DEF MayHold
    <3> QED BY <3>1, <3>2 DEF RequestAddressed
  <2> QED BY <2>2, <2>3, <2>4, <1>q, AddressRows
<1>5. ASSUME NEW c \in Clients, Reciprocate(c) PROVE Goal
  <2> DEFINE row == GrantBack(UserOf[c], grant[req[c].grant].granter)
  <2>1. \A d \in Clients \ {c} : req'[d] = req[d]
    BY <1>5, <1>t DEF Reciprocate, TypeOK
  <2>2. req'[c] = Idle \/ req'[c] = Inserting(row)
    BY <1>5, <1>t DEF Reciprocate, TypeOK
  <2>3. UNCHANGED grant /\ grant[req[c].grant].granter # UserOf[c]
    BY <1>5 DEF Reciprocate, AddressInv, RequestAddressed
  <2>4. row.status # "NONE" /\ Addressed(row)
    BY <2>3 DEF GrantBack, Addressed
  <2> HIDE DEF row
  <2>5. RequestAddressed(c)'
    BY <2>2, <2>4, BuiltFields DEF RequestAddressed
  <2> QED BY <2>1, <2>3, <2>5, <1>q, AddressRows
<1>6. ASSUME NEW c \in Clients, Claim(c) PROVE Goal
  <2>1. \A g \in Grants : RowAddressed(g)'
    <3> SUFFICES ASSUME NEW g \in Grants PROVE RowAddressed(g)'
      OBVIOUS
    <3>1. RowAddressed(g) /\ UserOf[c] \in Users
      BY DEF AddressInv
    <3>2. CASE ClaimedBy(UserOf[c], g)
      <4>1. /\ grant'[g].status = "INVITED" /\ grant'[g].granter = grant[g].granter
            /\ grant'[g].email = UserOf[c] /\ grant'[g].grantee = UserOf[c]
            /\ grant[g].email = UserOf[c]
        BY <1>6, <1>t, <3>2, ClaimFields DEF ClaimedBy
      <4> QED BY <4>1, <3>1 DEF RowAddressed, Addressed
    <3>3. CASE ~ClaimedBy(UserOf[c], g)
      <4>1. grant'[g] = grant[g]
        BY <1>6, <1>t, <3>3, ClaimFields
      <4> QED BY <4>1, <3>1 DEF RowAddressed, Addressed, NoRow
    <3> QED BY <3>2, <3>3
  <2>2. \A d \in Clients : req'[d] = req[d]
    BY <1>6 DEF Claim
  <2> QED BY <2>1, <2>2, AddressQuiet
<1>7. ASSUME NEW c \in Clients, Reread(c) PROVE Goal
  <2>1. req'[c] = Rereading(req[c].grant, req[c].ent) /\ \A d \in Clients \ {c} : req'[d] = req[d]
    BY <1>7, <1>t DEF Reread, TypeOK
  <2>2. UNCHANGED grant /\ RequestAddressed(c) /\ req[c].at = "loaded"
    BY <1>7 DEF Reread, AddressInv
  <2>3. RequestAddressed(c)'
    <3>1. /\ req'[c].at = "reread" /\ req'[c].grant = req[c].grant
          /\ req'[c].ent = req[c].ent
      BY <2>1, BuiltFields
    <3> QED BY <3>1, <2>2 DEF RequestAddressed, MayHold
  <2> QED BY <2>1, <2>2, <2>3, <1>q, AddressRows
<1>8. ASSUME NEW c \in Clients, SaveWrite(c) PROVE Goal
  <2> DEFINE g == req[c].grant
             w == Written(grant[g], req[c].ent, req[c].cols)
  <2>1. g \in Grants /\ req[c].ent \in Entities /\ grant[g] \in Rows /\ req[c].at = "reread"
    BY <1>8, <1>t, RequestIds, RowTypes DEF SaveWrite
  <2>2. /\ w.granter = grant[g].granter /\ w.email = grant[g].email
        /\ w.status \in {grant[g].status, req[c].ent.status}
        /\ w.grantee \in {grant[g].grantee, req[c].ent.grantee}
    BY <2>1, WrittenFields
  <2>3. /\ grant[g].status # "NONE" /\ Addressed(grant[g])
        /\ req[c].ent.grantee # NULL => MayHold(g, req[c].ent.grantee)
        /\ req[c].ent.status = "ACTIVE" => req[c].ent.grantee = UserOf[c]
        /\ req[c].ent.status # "NONE" /\ UserOf[c] \in Users
    BY <2>1 DEF AddressInv, RequestAddressed, RowAddressed, Entities, Statuses
  <2>4. Addressed(w) /\ w.status # "NONE"
    BY <2>2, <2>3 DEF Addressed, MayHold
  <2>5. grant' = [grant EXCEPT ![g] = w]
    BY <1>8 DEF SaveWrite
  <2>6. \A h \in Grants : grant'[h] = IF h = g THEN w ELSE grant[h]
    BY <2>1, <2>5, <1>t DEF TypeOK
  <2>7. \A d \in Clients \ {c} : req'[d] = req[d]
    BY <1>8, <1>t DEF SaveWrite, TypeOK
  <2>8. req'[c] = Idle \/ (req'[c] = Accepted(g) /\ req[c].ent.status = "ACTIVE")
    BY <1>8, <1>t DEF SaveWrite, TypeOK
  <2> HIDE DEF g, w
  <2>9. \A h \in Grants : RowAddressed(h)'
    <3> SUFFICES ASSUME NEW h \in Grants PROVE RowAddressed(h)'
      OBVIOUS
    <3>1. CASE h = g
      BY <3>1, <2>4, <2>6 DEF RowAddressed, Addressed
    <3>2. CASE h # g
      <4>1. grant'[h] = grant[h]
        BY <3>2, <2>6
      <4> QED BY <4>1 DEF AddressInv, RowAddressed, Addressed, NoRow
    <3> QED BY <3>1, <3>2
  <2>10. RequestAddressed(c)'
    <3>1. CASE req'[c] = Idle
      BY <3>1, BuiltFields DEF RequestAddressed
    <3>2. CASE req'[c] = Accepted(g) /\ req[c].ent.status = "ACTIVE"
      <4>1. req'[c].at = "accepted" /\ req'[c].grant = g
        BY <3>2, BuiltFields
      <4>2. grant'[g].granter = grant[g].granter /\ grant'[g].status # "NONE"
        BY <2>1, <2>2, <2>4, <2>6
      <4>3. grant[g].granter # UserOf[c]
        BY <3>2, <2>3 DEF MayHold
      <4> QED BY <4>1, <4>2, <4>3 DEF RequestAddressed
    <3> QED BY <3>1, <3>2, <2>8
  <2> QED BY <2>7, <2>9, <2>10, <1>q
<1>9. ASSUME NEW c \in Clients, Abort(c) PROVE Goal
  <2>1. req'[c] = Idle /\ UNCHANGED grant /\ \A d \in Clients \ {c} : req'[d] = req[d]
    BY <1>9, <1>t DEF Abort, TypeOK
  <2>2. RequestAddressed(c)'
    BY <2>1, BuiltFields DEF RequestAddressed
  <2> QED BY <2>1, <2>2, <1>q, AddressRows
<1>10. ASSUME UNCHANGED <<grant, req>> PROVE Goal
  BY <1>10, AddressQuiet, AddressRows
<1> HIDE DEF Goal
<1>11. Goal
  BY <1>1, <1>2, <1>3, <1>4, <1>5, <1>6, <1>7, <1>8, <1>9, <1>10 DEF Next, Handlers, vars, Register, TimePasses
<1> QED BY <1>11, <1>t DEF Goal, AddressInv

LEMMA AddressInit == Init => AddressInv
<1> SUFFICES ASSUME Init PROVE AddressInv
  OBVIOUS
<1>1. \A g \in Grants : RowAddressed(g)
  BY DEF Init, RowAddressed, Addressed, NoRow
<1>2. \A c \in Clients : RequestAddressed(c)
  BY BuiltFields DEF Init, RequestAddressed
<1> QED BY <1>1, <1>2, TypeInit DEF AddressInv

\* Whatever overlaps, nobody gets a grant that is addressed to somebody else, or
\* a grant of their own (acceptInvite 167-182).
THEOREM DesignatedTheorem == Spec => []Designated
<1>1. AddressInv => Designated
  BY DEF AddressInv, RowAddressed, Addressed, Designated
<1> QED BY <1>1, AddressInit, AddressStep, PTL DEF Spec

-----------------------------------------------------------------------------
(* Who agreed. The invariant follows the acceptance from the read to the    *)
(* rows: the grantee that a save in flight may write back was addressed, or *)
(* accepted, or is the partner of somebody who did.                         *)

Due(g, x) ==
    grant[g].email = x \/ <<g, x>> \in consent \/ AcceptedPartner(grant[g].granter, x)

RowAgreed(g) ==
    /\ grant[g].grantee # NULL => Due(g, grant[g].grantee)
    /\ grant[g].status = "ACTIVE" /\ grant[g].email # NULL => <<g, grant[g].email>> \in consent

RequestAgreed(c) ==
    LET q == req[c]  g == q.grant IN
    /\ q.at = "insert" =>
         IF q.row.status = "ACTIVE"
         THEN q.row.email = NULL /\ AcceptedPartner(q.row.granter, q.row.grantee)
         ELSE q.row.grantee # NULL => q.row.email = q.row.grantee
    /\ q.at \in {"loaded", "reread"} =>
         /\ q.ent.grantee # NULL => Due(g, q.ent.grantee)
         /\ q.ent.status = "ACTIVE" =>
              <<g, UserOf[c]>> \in consent /\ grant[g].email \in {NULL, UserOf[c]}
    /\ q.at = "accepted" => <<g, UserOf[c]>> \in consent /\ grant[g].scope = "PARTNER"

AgreedInv ==
    /\ AddressInv
    /\ \A g \in Grants : RowAgreed(g)
    /\ \A c \in Clients : RequestAgreed(c)

\* What was agreed stays agreed.
LEMMA ConsentStable ==
    ASSUME AddressInv, [Next]_vars
    PROVE  /\ consent \subseteq consent'
           /\ \A u, x : AcceptedPartner(u, x) => AcceptedPartner(u, x)'
           /\ \A g \in Grants : \A x : grant[g].status # "NONE" /\ Due(g, x) => Due(g, x)'
<1>1. consent \subseteq consent'
  BY DEF Next, Handlers, vars, InviteCheck, Insert, AcceptLoad, RevokeLoad, Reciprocate, Claim, Reread,
         SaveWrite, Abort, Register, TimePasses
<1>2. ASSUME NEW h \in Grants, grant[h].scope = "PARTNER"
      PROVE  grant'[h].granter = grant[h].granter /\ grant'[h].scope = "PARTNER"
  <2>1. grant[h].status # "NONE"
    BY <1>2 DEF AddressInv, RowAddressed, NoRow
  <2> QED BY <1>2, <2>1, RowsStable DEF AddressInv
<1>3. ASSUME NEW u, NEW x, AcceptedPartner(u, x) PROVE AcceptedPartner(u, x)'
  BY <1>1, <1>2, <1>3 DEF AcceptedPartner
<1>4. ASSUME NEW g \in Grants, NEW x, grant[g].status # "NONE", Due(g, x) PROVE Due(g, x)'
  <2>1. grant'[g].granter = grant[g].granter /\ grant'[g].email = grant[g].email
    BY <1>4, RowsStable DEF AddressInv
  <2> QED BY <1>1, <1>2, <1>4, <2>1 DEF Due, AcceptedPartner
<1> QED BY <1>1, <1>3, <1>4

\* A step does not disturb the requests of other clients, or the rows it does not
\* write.
LEMMA AgreedQuiet ==
    ASSUME AgreedInv, [Next]_vars
    PROVE  /\ \A c \in Clients : req'[c] = req[c] => RequestAgreed(c)'
           /\ \A g \in Grants : grant'[g] = grant[g] => RowAgreed(g)'
<1>1. AddressInv /\ TypeOK
  BY DEF AgreedInv, AddressInv
<1>2. ASSUME NEW c \in Clients, req'[c] = req[c] PROVE RequestAgreed(c)'
  <2>1. PICK x, u, y : x = req[c].ent.grantee /\ u = req[c].row.granter /\ y = req[c].row.grantee
    OBVIOUS
  <2>2. RequestAgreed(c)
    BY DEF AgreedInv
  <2>3. CASE req[c].at \in {"loaded", "reread", "accepted"}
    <3>1. PICK g \in Grants : g = req[c].grant /\ grant[g].status # "NONE"
      BY <1>1, <2>3, RequestIds DEF RequestAddressed, AddressInv
    <3>2. /\ grant'[g].email = grant[g].email /\ grant'[g].scope = grant[g].scope
          /\ consent \subseteq consent' /\ (Due(g, x) => Due(g, x)')
      BY <1>1, <3>1, RowsStable, ConsentStable
    <3>3. req[c].at \in {"loaded", "reread"} /\ x # NULL => Due(g, x)'
      BY <2>1, <2>2, <3>1, <3>2 DEF RequestAgreed
    <3> QED BY <1>2, <2>1, <2>2, <2>3, <3>1, <3>2, <3>3 DEF RequestAgreed
  <2>4. CASE req[c].at = "insert"
    <3>1. req[c].row.status = "ACTIVE" => AcceptedPartner(u, y)
      BY <2>1, <2>2, <2>4 DEF RequestAgreed
    <3>2. req[c].row.status = "ACTIVE" => AcceptedPartner(u, y)'
      BY <1>1, <3>1, ConsentStable
    <3> QED BY <1>2, <2>1, <2>2, <2>4, <3>2 DEF RequestAgreed
  <2>5. CASE req[c].at = "idle"
    BY <1>2, <2>5 DEF RequestAgreed
  <2> QED BY <1>1, <2>3, <2>4, <2>5, RequestIds
<1>3. ASSUME NEW g \in Grants, grant'[g] = grant[g] PROVE RowAgreed(g)'
  <2>1. PICK x : x = grant[g].grantee
    OBVIOUS
  <2>2. RowAgreed(g)
    BY DEF AgreedInv
  <2>3. x # NULL => grant[g].status # "NONE"
    BY <1>1, <2>1 DEF AddressInv, RowAddressed, NoRow
  <2>4. (x # NULL => Due(g, x)') /\ consent \subseteq consent'
    BY <1>1, <2>1, <2>2, <2>3, ConsentStable DEF RowAgreed
  <2> QED BY <1>3, <2>1, <2>2, <2>4 DEF RowAgreed
<1> QED BY <1>2, <1>3

\* Every step of every handler keeps the invariant.
LEMMA AgreedStep == AgreedInv /\ [Next]_vars => AgreedInv'
<1> SUFFICES ASSUME AgreedInv, [Next]_vars PROVE AgreedInv'
  OBVIOUS
<1>t. TypeOK /\ TypeOK' /\ AddressInv /\ AddressInv'
  BY TypeStep, AddressStep DEF AgreedInv, AddressInv
<1> DEFINE Goal == /\ \A g \in Grants : RowAgreed(g)'
                   /\ \A c \in Clients : RequestAgreed(c)'
\* It is enough to look at the client that takes the step, and at the row it writes.
<1>q. ASSUME NEW c \in Clients, \A d \in Clients \ {c} : req'[d] = req[d], RequestAgreed(c)'
      PROVE  \A d \in Clients : RequestAgreed(d)'
  BY <1>q, AgreedQuiet
<1>r. UNCHANGED grant => \A g \in Grants : RowAgreed(g)'
  BY AgreedQuiet
<1>1. ASSUME NEW c \in Clients, NEW offer \in Offers, InviteCheck(c, offer) PROVE Goal
  <2>1. PICK row \in Rows : row = Invitation(UserOf[c], offer)
    BY BuiltTypes
  <2>2. req'[c] = Inserting(row) /\ \A d \in Clients \ {c} : req'[d] = req[d]
    BY <1>1, <1>t, <2>1 DEF InviteCheck, TypeOK
  <2>3. row.status = "INVITED" /\ (row.grantee # NULL => row.email = row.grantee)
    BY <2>1 DEF Invitation
  <2>4. RequestAgreed(c)'
    BY <2>2, <2>3, BuiltFields DEF RequestAgreed
  <2> QED BY <1>1, <2>2, <2>4, <1>q, <1>r DEF InviteCheck
<1>2. ASSUME NEW c \in Clients, Insert(c) PROVE Goal
  <2>1. PICK h \in Grants : grant' = [grant EXCEPT ![h] = req[c].row]
    BY <1>2 DEF Insert, Free
  <2>2. PICK row, u, x : row = req[c].row /\ u = row.granter /\ x = row.grantee
    OBVIOUS
  <2>3. IF row.status = "ACTIVE" THEN row.email = NULL /\ AcceptedPartner(u, x)
        ELSE x # NULL => row.email = x
    BY <1>2, <2>2 DEF AgreedInv, RequestAgreed, Insert
  <2>4. row.status = "ACTIVE" => AcceptedPartner(u, x)'
    BY <1>t, <2>3, ConsentStable
  <2>5. \A g \in Grants : grant'[g] = IF g = h THEN row ELSE grant[g]
    BY <2>1, <2>2, <1>t DEF TypeOK
  <2>6. RowAgreed(h)'
    BY <2>2, <2>3, <2>4, <2>5 DEF RowAgreed, Due
  <2>7. req'[c] = Idle /\ \A d \in Clients \ {c} : req'[d] = req[d]
    BY <1>2, <1>t DEF Insert, TypeOK
  <2>8. RequestAgreed(c)'
    BY <2>7, BuiltFields DEF RequestAgreed
  <2> QED BY <2>5, <2>6, <2>7, <2>8, <1>q, AgreedQuiet
<1>3. ASSUME NEW c \in Clients, NEW g \in Grants, AcceptLoad(c, g) PROVE Goal
  <2>1. PICK y : y = grant[g].grantee
    OBVIOUS
  <2>2. /\ grant[g].status = "INVITED" /\ grant[g].email \in {NULL, UserOf[c]}
        /\ UNCHANGED grant
    BY <1>3 DEF AcceptLoad, MayAccept
  <2>3. y # NULL => Due(g, y)'
    BY <2>1, <2>2, <1>t, ConsentStable DEF AgreedInv, RowAgreed
  <2>4. PICK s \in {"ACTIVE", "EXPIRED"}, x \in {UserOf[c], y} :
          /\ req' = [req EXCEPT ![c] = Loaded(g, s, x)]
          /\ s = "ACTIVE" => x = UserOf[c] /\ <<g, UserOf[c]>> \in consent'
          /\ s = "EXPIRED" => x = y
    <3>1. CASE g \in past
      BY <1>3, <3>1, <2>1 DEF AcceptLoad
    <3>2. CASE g \notin past
      BY <1>3, <3>2, <2>1 DEF AcceptLoad
    <3> QED BY <3>1, <3>2
  <2>5. x # NULL => Due(g, x)'
    BY <2>3, <2>4 DEF Due
  <2>6. req'[c] = Loaded(g, s, x) /\ \A d \in Clients \ {c} : req'[d] = req[d]
    BY <2>4, <1>t DEF TypeOK
  <2>7. RequestAgreed(c)'
    <3>1. /\ req'[c].at = "loaded" /\ req'[c].grant = g
          /\ req'[c].ent.status = s /\ req'[c].ent.grantee = x
      BY <2>6, BuiltFields
    <3>2. grant'[g].email \in {NULL, UserOf[c]}
      BY <2>2
    <3> QED BY <3>1, <3>2, <2>4, <2>5 DEF RequestAgreed
  <2> QED BY <2>2, <2>6, <2>7, <1>q, <1>r
<1>4. ASSUME NEW c \in Clients, NEW g \in Grants, RevokeLoad(c, g) PROVE Goal
  <2>1. PICK x : x = grant[g].grantee
    OBVIOUS
  <2>2. grant[g].status # "NONE" /\ UNCHANGED grant
    BY <1>4 DEF RevokeLoad
  <2>3. x # NULL => Due(g, x)'
    BY <2>1, <2>2, <1>t, ConsentStable DEF AgreedInv, RowAgreed
  <2>4. req'[c] = Loaded(g, "REVOKED", x) /\ \A d \in Clients \ {c} : req'[d] = req[d]
    BY <1>4, <2>1, <1>t DEF RevokeLoad, TypeOK
  <2>5. RequestAgreed(c)'
    <3>1. /\ req'[c].at = "loaded" /\ req'[c].grant = g
          /\ req'[c].ent.status = "REVOKED" /\ req'[c].ent.grantee = x
      BY <2>4, BuiltFields
    <3> QED BY <3>1, <2>3 DEF RequestAgreed
  <2> QED BY <2>2, <2>4, <2>5, <1>q, <1>r
<1>5. ASSUME NEW c \in Clients, Reciprocate(c) PROVE Goal
  <2>1. PICK g \in Grants : g = req[c].grant
    BY <1>5, <1>t, RequestIds DEF Reciprocate
  <2>2. PICK x : x = grant[g].granter
    OBVIOUS
  <2>3. \A d \in Clients \ {c} : req'[d] = req[d]
    BY <1>5, <1>t DEF Reciprocate, TypeOK
  <2>4. req'[c] = Idle \/ req'[c] = Inserting(GrantBack(UserOf[c], x))
    BY <1>5, <2>1, <2>2, <1>t DEF Reciprocate, TypeOK
  <2>5. /\ UNCHANGED <<grant, consent>> /\ <<g, UserOf[c]>> \in consent
        /\ grant[g].scope = "PARTNER"
    BY <1>5, <2>1 DEF Reciprocate, AgreedInv, RequestAgreed
  <2>6. AcceptedPartner(UserOf[c], x)'
    BY <2>1, <2>2, <2>5 DEF AcceptedPartner
  <2>7. RequestAgreed(c)'
    <3>1. CASE req'[c] = Idle
      BY <3>1, BuiltFields DEF RequestAgreed
    <3>2. CASE req'[c] = Inserting(GrantBack(UserOf[c], x))
      <4>1. /\ req'[c].at = "insert" /\ req'[c].row.status = "ACTIVE" /\ req'[c].row.email = NULL
            /\ req'[c].row.granter = UserOf[c] /\ req'[c].row.grantee = x
        BY <3>2, BuiltFields DEF GrantBack
      <4> QED BY <4>1, <2>6 DEF RequestAgreed
    <3> QED BY <3>1, <3>2, <2>4
  <2> QED BY <2>3, <2>5, <2>7, <1>q, <1>r
<1>6. ASSUME NEW c \in Clients, Claim(c) PROVE Goal
  <2>1. \A g \in Grants : RowAgreed(g)'
    <3> SUFFICES ASSUME NEW g \in Grants PROVE RowAgreed(g)'
      OBVIOUS
    <3>1. CASE ClaimedBy(UserOf[c], g)
      <4>1. /\ grant'[g].status = "INVITED"
            /\ grant'[g].email = UserOf[c] /\ grant'[g].grantee = UserOf[c]
        BY <1>6, <1>t, <3>1, ClaimFields DEF ClaimedBy
      <4> QED BY <4>1 DEF RowAgreed, Due
    <3>2. CASE ~ClaimedBy(UserOf[c], g)
      BY <1>6, <1>t, <3>2, ClaimFields, AgreedQuiet
    <3> QED BY <3>1, <3>2
  <2>2. \A d \in Clients : req'[d] = req[d]
    BY <1>6 DEF Claim
  <2> QED BY <2>1, <2>2, AgreedQuiet
<1>7. ASSUME NEW c \in Clients, Reread(c) PROVE Goal
  <2>1. PICK g \in Grants, ent \in Entities, x \in Users \cup {NULL} :
          g = req[c].grant /\ ent = req[c].ent /\ x = ent.grantee
    BY <1>7, <1>t, RequestIds DEF Reread
  <2>2. req'[c] = Rereading(g, ent) /\ \A d \in Clients \ {c} : req'[d] = req[d]
    BY <1>7, <1>t, <2>1 DEF Reread, TypeOK
  <2>3. UNCHANGED <<grant, consent>> /\ RequestAgreed(c) /\ req[c].at = "loaded" /\ grant[g].status # "NONE"
    BY <1>7, <1>t, <2>1 DEF Reread, AgreedInv, AddressInv, RequestAddressed
  <2>4. x # NULL => Due(g, x)'
    BY <2>1, <2>3, <1>t, ConsentStable DEF RequestAgreed
  <2>5. RequestAgreed(c)'
    <3>1. req'[c].at = "reread" /\ req'[c].grant = g /\ req'[c].ent = ent
      BY <2>2, BuiltFields
    <3> QED BY <3>1, <2>1, <2>3, <2>4 DEF RequestAgreed
  <2> QED BY <2>2, <2>3, <2>5, <1>q, <1>r
<1>8. ASSUME NEW c \in Clients, SaveWrite(c) PROVE Goal
  <2>1. PICK g \in Grants, ent \in Entities, w \in Rows,
              x \in Users \cup {NULL}, y \in Users \cup {NULL} :
          /\ g = req[c].grant /\ ent = req[c].ent
          /\ w = Written(grant[g], ent, req[c].cols)
          /\ x = grant[g].grantee /\ y = ent.grantee
    BY <1>8, <1>t, RequestIds, RowTypes, WrittenFields DEF SaveWrite
  <2>2. /\ w.granter = grant[g].granter /\ w.email = grant[g].email
        /\ w.status \in {grant[g].status, ent.status} /\ w.grantee \in {x, y}
    BY <2>1, <1>t, RowTypes, WrittenFields
  <2>3. /\ grant[g].status # "NONE" /\ RowAgreed(g) /\ UNCHANGED consent
        /\ y # NULL => Due(g, y)
        /\ ent.status = "ACTIVE" =>
             <<g, UserOf[c]>> \in consent /\ grant[g].email \in {NULL, UserOf[c]}
    BY <1>8, <1>t, <2>1 DEF SaveWrite, AgreedInv, RequestAgreed, AddressInv, RequestAddressed
  <2>4. \A h \in Grants : grant'[h] = IF h = g THEN w ELSE grant[h]
    BY <1>8, <2>1, <1>t DEF SaveWrite, TypeOK
  <2>5. (x # NULL => Due(g, x)') /\ (y # NULL => Due(g, y)')
    BY <2>1, <2>3, <1>t, ConsentStable DEF RowAgreed
  <2>6. RowAgreed(g)'
    <3>1. grant'[g].grantee # NULL => Due(g, grant[g].grantee)'
      BY <2>2, <2>4, <2>5
    <3>2. w.status = "ACTIVE" /\ w.email # NULL => <<g, w.email>> \in consent'
      BY <2>2, <2>3 DEF RowAgreed
    <3> QED BY <2>4, <3>1, <3>2 DEF RowAgreed
  <2>7. \A d \in Clients \ {c} : req'[d] = req[d]
    BY <1>8, <1>t DEF SaveWrite, TypeOK
  <2>8. \/ req'[c] = Idle
        \/ req'[c] = Accepted(g) /\ ent.status = "ACTIVE" /\ grant[g].scope = "PARTNER"
    BY <1>8, <1>t, <2>1 DEF SaveWrite, TypeOK
  <2>9. RequestAgreed(c)'
    <3>1. CASE req'[c] = Idle
      BY <3>1, BuiltFields DEF RequestAgreed
    <3>2. CASE req'[c] = Accepted(g) /\ ent.status = "ACTIVE" /\ grant[g].scope = "PARTNER"
      <4>1. req'[c].at = "accepted" /\ req'[c].grant = g
        BY <3>2, BuiltFields
      <4>2. grant'[g].scope = "PARTNER"
        BY <3>2, <1>t, <2>3, RowsStable
      <4> QED BY <3>2, <4>1, <4>2, <2>3 DEF RequestAgreed
    <3> QED BY <3>1, <3>2, <2>8
  <2> QED BY <2>4, <2>6, <2>7, <2>9, <1>q, AgreedQuiet
<1>9. ASSUME NEW c \in Clients, Abort(c) PROVE Goal
  <2>1. req'[c] = Idle /\ UNCHANGED grant /\ \A d \in Clients \ {c} : req'[d] = req[d]
    BY <1>9, <1>t DEF Abort, TypeOK
  <2>2. RequestAgreed(c)'
    BY <2>1, BuiltFields DEF RequestAgreed
  <2> QED BY <2>1, <2>2, <1>q, <1>r
<1>10. ASSUME UNCHANGED <<grant, req>> PROVE Goal
  BY <1>10, AgreedQuiet
<1> HIDE DEF Goal
<1>11. Goal
  BY <1>1, <1>2, <1>3, <1>4, <1>5, <1>6, <1>7, <1>8, <1>9, <1>10 DEF Next, Handlers, vars, Register, TimePasses
<1> QED BY <1>11, <1>t DEF Goal, AgreedInv

LEMMA AgreedInit == Init => AgreedInv
<1> SUFFICES ASSUME Init PROVE AgreedInv
  OBVIOUS
<1>1. \A g \in Grants : RowAgreed(g)
  BY DEF Init, RowAgreed, NoRow
<1>2. \A c \in Clients : RequestAgreed(c)
  BY BuiltFields DEF Init, RequestAgreed
<1> QED BY <1>1, <1>2, AddressInit DEF AgreedInv

\* Whatever overlaps, an active grant gives nothing that its two sides did not
\* agree to: the grantee accepted it before it expired (140-200), or it is the grant back of somebody
\* who accepted a partnership of the grantee (202-224).
THEOREM AgreedTheorem == Spec => []Agreed
<1>1. AgreedInv => Agreed
  BY DEF AgreedInv, RowAgreed, Due, Agreed
<1> QED BY <1>1, AgreedInit, AgreedStep, PTL DEF Spec

-----------------------------------------------------------------------------
(* Who revives a revoked grant. Between a revocation and a save that would  *)
(* undo it, the request of that save is one that missed the revocation.     *)

Outdated(c) ==
    /\ req[c].at \in {"loaded", "reread"}
    /\ grant[req[c].grant].status = "REVOKED" /\ req[c].ent.status # "REVOKED"

ReviveInv == AddressInv /\ \A c \in Clients : Outdated(c) => c \in missed

\* The step of a request that writes no grant: the others hold what they held.
LEMMA ReviveQuiet ==
    ASSUME TypeOK, ReviveInv, NEW c \in Clients, NEW q,
           req' = [req EXCEPT ![c] = q], missed \subseteq missed' \cup {c},
           NEW d \in Clients, d # c, UNCHANGED grant
    PROVE  Outdated(d)' => d \in missed'
<1>1. req'[d] = req[d]
  BY DEF TypeOK
<1> QED BY <1>1 DEF ReviveInv, Outdated

\* Every step keeps ReviveInv, and revives nothing but for an outdated request.
LEMMA ReviveStep ==
    ReviveInv /\ [Next]_vars => ReviveInv' /\ (UNCHANGED vars \/ OnlyMissedReviveStep)
<1> SUFFICES ASSUME ReviveInv, [Next]_vars
             PROVE  ReviveInv' /\ (UNCHANGED vars \/ OnlyMissedReviveStep)
  OBVIOUS
<1>t. TypeOK /\ TypeOK' /\ AddressInv /\ AddressInv'
  BY AddressStep, TypeStep DEF ReviveInv, AddressInv
<1> DEFINE Held == \A d \in Clients : Outdated(d)' => d \in missed'
           Goal == Held /\ OnlyMissedReviveStep
<1>s. UNCHANGED grant => OnlyMissedReviveStep
  BY DEF OnlyMissedReviveStep
<1>1. ASSUME NEW c \in Clients, NEW q, req' = [req EXCEPT ![c] = q], missed \subseteq missed' \cup {c},
             UNCHANGED grant,
             q.at \in {"loaded", "reread"} /\ grant[q.grant].status = "REVOKED" =>
                 q.ent.status = "REVOKED" \/ c \in missed'
      PROVE  Goal
  <2>1. req'[c] = q
    BY <1>t, <1>1 DEF TypeOK
  <2>2. Outdated(c)' => c \in missed'
    BY <1>1, <2>1 DEF Outdated
  <2> QED BY <1>t, <1>s, <1>1, <2>2, ReviveQuiet
<1>2. ASSUME NEW c \in Clients, NEW offer \in Offers, InviteCheck(c, offer) PROVE Goal
  BY <1>1, <1>2, BuiltFields DEF InviteCheck
<1>3. ASSUME NEW c \in Clients, Insert(c) PROVE Goal
  <2>1. PICK h \in Grants : grant[h] = NoRow /\ grant' = [grant EXCEPT ![h] = req[c].row]
    BY <1>3 DEF Insert, Free
  <2>2. grant[h].status = "NONE"
    BY <2>1 DEF NoRow
  <2>3. OnlyMissedReviveStep
    BY <1>t, <2>1, <2>2 DEF OnlyMissedReviveStep, TypeOK
  <2>4. ASSUME NEW d \in Clients, Outdated(d)' PROVE d \in missed'
    <3>1. d # c /\ req'[d] = req[d]
      BY <1>t, <1>3, <2>4, BuiltFields DEF Insert, Outdated, TypeOK
    <3>2. req[d].grant \in Grants /\ req[d].grant # h
      BY <1>t, <2>2, <2>4, <3>1, RequestIds DEF Outdated, AddressInv, RequestAddressed
    <3>3. Outdated(d)
      BY <1>t, <2>1, <2>4, <3>1, <3>2 DEF Outdated, TypeOK
    <3> QED BY <1>3, <3>3 DEF ReviveInv, Insert
  <2> QED BY <2>3, <2>4
<1>4. ASSUME NEW c \in Clients, NEW g \in Grants, AcceptLoad(c, g) PROVE Goal
  <2>1. /\ grant[g].status = "INVITED" /\ UNCHANGED <<grant, missed>>
        /\ \E status, x : req' = [req EXCEPT ![c] = Loaded(g, status, x)]
    BY <1>4 DEF AcceptLoad, MayAccept
  <2>2. PICK status, x : req' = [req EXCEPT ![c] = Loaded(g, status, x)]
    BY <2>1
  <2>3. Loaded(g, status, x).grant = g
    BY BuiltFields
  <2> QED BY <1>1, <2>1, <2>2, <2>3
<1>5. ASSUME NEW c \in Clients, NEW g \in Grants, RevokeLoad(c, g) PROVE Goal
  <2>1. /\ UNCHANGED <<grant, missed>>
        /\ \E x : req' = [req EXCEPT ![c] = Loaded(g, "REVOKED", x)]
    BY <1>5 DEF RevokeLoad
  <2>2. PICK x : req' = [req EXCEPT ![c] = Loaded(g, "REVOKED", x)]
    BY <2>1
  <2>3. Loaded(g, "REVOKED", x).ent.status = "REVOKED"
    BY BuiltFields
  <2> QED BY <1>1, <2>1, <2>2, <2>3
<1>6. ASSUME NEW c \in Clients, Reciprocate(c) PROVE Goal
  BY <1>1, <1>6, BuiltFields DEF Reciprocate
<1>7. ASSUME NEW c \in Clients, Claim(c) PROVE Goal
  <2>1. \A g \in Grants : grant'[g].status = grant[g].status
    BY <1>t, <1>7, ClaimFields
  <2>2. UNCHANGED <<req, missed>>
    BY <1>7 DEF Claim
  <2>3. ASSUME NEW d \in Clients, Outdated(d)' PROVE d \in missed'
    <3>1. req[d].grant \in Grants
      BY <1>t, <2>2, <2>3, RequestIds DEF Outdated
    <3> QED BY <2>1, <2>2, <2>3, <3>1 DEF Outdated, ReviveInv
  <2> QED BY <2>1, <2>3 DEF OnlyMissedReviveStep
<1>8. ASSUME NEW c \in Clients, Reread(c) PROVE Goal
  <2>1. /\ UNCHANGED <<grant, missed>> /\ req[c].at = "loaded"
        /\ req' = [req EXCEPT ![c] = Rereading(req[c].grant, req[c].ent)]
    BY <1>8 DEF Reread
  <2>2. grant[req[c].grant].status = "REVOKED" => req[c].ent.status = "REVOKED" \/ c \in missed'
    BY <2>1 DEF ReviveInv, Outdated
  <2>3. /\ Rereading(req[c].grant, req[c].ent).grant = req[c].grant
        /\ Rereading(req[c].grant, req[c].ent).ent = req[c].ent
    BY BuiltFields
  <2> QED BY <1>1, <2>1, <2>2, <2>3
<1>9. ASSUME NEW c \in Clients, SaveWrite(c) PROVE Goal
  <2> DEFINE g == req[c].grant
             w == Written(grant[g], req[c].ent, req[c].cols)
  <2>1. g \in Grants /\ req[c].at = "reread" /\ grant[g] \in Rows /\ req[c].ent \in Entities
    BY <1>t, <1>9, RequestIds, RowTypes DEF SaveWrite
  <2>2. w.status = grant[g].status \/ w.status = req[c].ent.status
    BY <2>1, WrittenFields
  <2>3. /\ grant' = [grant EXCEPT ![g] = w]
        /\ missed' = (missed \cup Missing(g, w)) \ {c}
        /\ req'[c] \in {Accepted(g), Idle} /\ \A d \in Clients \ {c} : req'[d] = req[d]
    BY <1>t, <1>9 DEF SaveWrite, TypeOK
  <2> HIDE DEF w
  <2>4. \A h \in Grants : grant'[h] = IF h = g THEN w ELSE grant[h]
    BY <1>t, <2>1, <2>3 DEF TypeOK
  <2>5. OnlyMissedReviveStep
    <3>1. SUFFICES ASSUME NEW h \in Grants, grant[h].status = "REVOKED", grant'[h].status # "REVOKED"
                   PROVE  c \in missed /\ req[c].grant = h /\ req'[c] # req[c]
      BY <2>1 DEF OnlyMissedReviveStep
    <3>2. h = g /\ req[c].ent.status # "REVOKED"
      BY <2>2, <2>4, <3>1
    <3>3. c \in missed
      BY <2>1, <3>1, <3>2 DEF ReviveInv, Outdated
    <3>4. req'[c] # req[c]
      BY <2>1, <2>3, BuiltFields
    <3> QED BY <3>2, <3>3, <3>4
  <2>6. ASSUME NEW d \in Clients, Outdated(d)' PROVE d \in missed'
    <3>1. d # c
      BY <2>3, <2>6, BuiltFields DEF Outdated
    <3>2. req'[d] = req[d] /\ req[d].grant \in Grants
      BY <1>t, <2>3, <2>6, <3>1, RequestIds DEF Outdated
    <3>3. CASE Outdated(d)
      BY <2>3, <3>1, <3>3 DEF ReviveInv
    <3>4. CASE ~Outdated(d)
      <4>1. req[d].grant = g /\ grant[g].status # "REVOKED" /\ w.status = "REVOKED"
        BY <2>4, <2>6, <3>2, <3>4 DEF Outdated
      <4>2. d \in Missing(g, w)
        BY <2>6, <3>2, <4>1 DEF Missing, Outdated
      <4> QED BY <2>3, <3>1, <4>2
    <3> QED BY <3>3, <3>4
  <2> QED BY <2>5, <2>6
<1>10. ASSUME NEW c \in Clients, Abort(c) PROVE Goal
  BY <1>1, <1>10, BuiltFields DEF Abort
<1>11. ASSUME UNCHANGED <<grant, req, missed>> PROVE Goal
  <2>1. Held
    BY <1>11 DEF ReviveInv, Outdated
  <2> QED BY <1>s, <1>11, <2>1
<1> HIDE DEF Goal
<1>12. Goal
  BY <1>2, <1>3, <1>4, <1>5, <1>6, <1>7, <1>8, <1>9, <1>10, <1>11 DEF Next, Handlers, vars, Register, TimePasses
<1> QED BY <1>t, <1>12 DEF Goal, ReviveInv

\* Whatever overlaps, a revoked grant is revived by nothing but the save of a request
\* that loaded it before the revocation was stored (acceptInvite 184-198, revokeGrant
\* 298-299).
THEOREM ReviveTheorem == Spec => OnlyMissedRevive
<1>1. Init => ReviveInv
  <2> SUFFICES ASSUME Init PROVE ReviveInv
    OBVIOUS
  <2>1. \A c \in Clients : ~Outdated(c)
    BY BuiltFields DEF Init, Outdated
  <2> QED BY <2>1, AddressInit DEF ReviveInv
<1>2. ReviveInv /\ [Next]_vars => ReviveInv' /\ [OnlyMissedReviveStep]_vars
  BY ReviveStep
<1> QED BY <1>1, <1>2, PTL DEF Spec, OnlyMissedRevive

-----------------------------------------------------------------------------
(* The life of a grant when the requests about it do not overlap. What a    *)
(* request loaded is then still true when it saves, but for a claim in      *)
(* between, which has no request in flight.                                 *)

CalmRow(g) ==
    /\ grant[g].status # "NONE" => grant[g].granter \in Users
    /\ grant[g].status = "INVITED" /\ grant[g].email = NULL => grant[g].grantee = NULL

CalmInsert(row) ==
    /\ row.status \in {"INVITED", "ACTIVE"} /\ row.granter \in Users
    /\ row.status = "INVITED" => row.grantee \in {NULL, row.email}
    /\ row.status = "ACTIVE" => row.grantee \in Users /\ PartnerOf(row.granter, row.grantee)

CalmSave(g, ent) ==
    /\ ent.status \in {"ACTIVE", "EXPIRED", "REVOKED"}
    /\ ent.status # "REVOKED" => grant[g].status = "INVITED"
    /\ ent.status # "ACTIVE" =>
         \/ ent.grantee = grant[g].grantee
         \/ ent.grantee = NULL /\ grant[g].status = "INVITED"

CalmColumns(g, ent, cols) ==
    /\ "status" \notin cols => ent.status = grant[g].status
    /\ ent.status = "ACTIVE" /\ "grantee" \notin cols => ent.grantee = grant[g].grantee

CalmRequest(c) ==
    LET q == req[c] IN
    /\ q.at = "insert" => CalmInsert(q.row)
    /\ q.at \in {"loaded", "reread"} => CalmSave(q.grant, q.ent)
    /\ q.at = "reread" => CalmColumns(q.grant, q.ent, q.cols)
    /\ q.at = "accepted" =>
         grant[q.grant].status = "ACTIVE" /\ grant[q.grant].grantee = UserOf[c]

CalmInv ==
    /\ AddressInv
    /\ calm /\ Calm
    /\ \A g \in Grants : CalmRow(g)
    /\ \A c \in Clients : CalmRequest(c)

\* What a calm save stores.
LEMMA CalmWrite ==
    ASSUME CalmInv, NEW c \in Clients, SaveWrite(c)
    PROVE  \E g \in Grants, ent \in Entities, w \in Rows :
             /\ req[c].at = "reread" /\ req[c].grant = g /\ req[c].ent = ent
             /\ grant' = [grant EXCEPT ![g] = w]
             /\ \A h \in Grants : grant'[h] = IF h = g THEN w ELSE grant[h]
             /\ grant[g].status # "NONE" /\ CalmSave(g, ent)
             /\ w.status = ent.status /\ w.granter = grant[g].granter /\ w.email = grant[g].email
             /\ ent.status = "ACTIVE" =>
                  /\ w.grantee = UserOf[c] /\ grant[g].granter # UserOf[c]
                  /\ grant[g].grantee \in {NULL, UserOf[c]}
             /\ ent.status # "ACTIVE" => w.grantee \in {grant[g].grantee, ent.grantee}
<1>1. PICK g \in Grants, ent \in Entities, w \in Rows :
        /\ req[c].at = "reread" /\ req[c].grant = g /\ req[c].ent = ent
        /\ w = Written(grant[g], ent, req[c].cols)
        /\ grant' = [grant EXCEPT ![g] = w]
  BY RequestIds, RowTypes, WrittenFields DEF SaveWrite, CalmInv, AddressInv
<1>2. \A h \in Grants : grant'[h] = IF h = g THEN w ELSE grant[h]
  BY <1>1 DEF CalmInv, AddressInv, TypeOK
<1>3. /\ CalmSave(g, ent) /\ CalmColumns(g, ent, req[c].cols)
      /\ grant[g].status # "NONE" /\ CalmRow(g) /\ Addressed(grant[g])
      /\ ent.grantee # NULL => MayHold(g, ent.grantee)
      /\ ent.status = "ACTIVE" => ent.grantee = UserOf[c]
      /\ UserOf[c] \in Users
  BY <1>1 DEF CalmInv, CalmRequest, AddressInv, RowAddressed, RequestAddressed
<1>4. /\ w.granter = grant[g].granter /\ w.email = grant[g].email
      /\ w.status = IF "status" \in req[c].cols THEN ent.status ELSE grant[g].status
      /\ w.grantee = IF "grantee" \in req[c].cols THEN ent.grantee ELSE grant[g].grantee
  BY <1>1, RowTypes, WrittenFields DEF CalmInv, AddressInv
<1>5. w.status = ent.status
  BY <1>3, <1>4 DEF CalmColumns
<1>6. ASSUME ent.status = "ACTIVE"
      PROVE  /\ w.grantee = UserOf[c] /\ grant[g].granter # UserOf[c]
             /\ grant[g].grantee \in {NULL, UserOf[c]}
  <2>1. w.grantee = UserOf[c]
    BY <1>3, <1>4, <1>6 DEF CalmColumns
  <2>2. grant[g].granter # UserOf[c] /\ grant[g].email \in {NULL, UserOf[c]}
    BY <1>3, <1>6 DEF MayHold
  <2>3. grant[g].status = "INVITED"
    BY <1>3, <1>6 DEF CalmSave
  <2> QED BY <1>3, <2>1, <2>2, <2>3 DEF CalmRow, Addressed
<1> QED BY <1>1, <1>2, <1>3, <1>4, <1>5, <1>6

\* The only change under a request in flight is a claim.
LEMMA CalmKept ==
    ASSUME CalmInv, [Next]_vars, NEW d \in Clients, req'[d] = req[d],
           NEW g \in Grants, req[d].grant = g
    PROVE  \/ grant'[g] = grant[g]
           \/ /\ grant[g].status = "INVITED" /\ grant'[g].status = "INVITED"
              /\ grant[g].grantee = NULL
<1> DEFINE Goal == \/ grant'[g] = grant[g]
                   \/ /\ grant[g].status = "INVITED" /\ grant'[g].status = "INVITED"
                      /\ grant[g].grantee = NULL
<1>t. TypeOK
  BY DEF CalmInv, AddressInv
<1>1. ASSUME NEW c \in Clients, Insert(c) PROVE Goal
  <2>1. PICK h \in Grants : grant[h] = NoRow /\ grant' = [grant EXCEPT ![h] = req[c].row]
    BY <1>1 DEF Insert, Free
  <2>2. req[d].at \in {"loaded", "reread", "accepted"}
    BY <1>t, RequestIds
  <2>3. grant[g].status # "NONE"
    BY <2>2 DEF CalmInv, AddressInv, RequestAddressed
  <2>4. h # g
    BY <2>1, <2>3 DEF NoRow
  <2> QED BY <2>1, <2>4, <1>t DEF TypeOK
<1>2. ASSUME NEW c \in Clients, Claim(c) PROVE Goal
  BY <1>2, <1>t, ClaimFields DEF ClaimedBy
<1>3. ASSUME NEW c \in Clients, SaveWrite(c) PROVE Goal
  <2>1. req'[c] \in {Idle, Accepted(req[c].grant)} /\ req[c].at = "reread"
    BY <1>3, <1>t DEF SaveWrite, TypeOK
  <2>2. req'[c].at # "reread"
    BY <2>1, BuiltFields
  <2>3. c # d
    BY <2>1, <2>2
  <2>4. req[c].grant # g
    BY <2>3 DEF CalmInv, Calm
  <2> QED BY <1>3, <2>4, CalmWrite
<1>4. ASSUME UNCHANGED grant PROVE Goal
  BY <1>4
<1> HIDE DEF Goal
<1>5. Goal
  BY <1>1, <1>2, <1>3, <1>4
     DEF Next, Handlers, vars, InviteCheck, AcceptLoad, RevokeLoad, Reciprocate, Reread, Abort, Register, TimePasses
<1> QED BY <1>5 DEF Goal

\* What a partner accepted stays accepted, revoked or not.
LEMMA PartnerStable ==
    ASSUME CalmInv, [Next]_vars
    PROVE  /\ \A h \in Grants : grant[h].status \in {"ACTIVE", "REVOKED"} =>
                 /\ grant'[h].status \in {"ACTIVE", "REVOKED"}
                 /\ grant'[h].granter = grant[h].granter /\ grant'[h].grantee = grant[h].grantee
           /\ \A u, x : PartnerOf(u, x) => PartnerOf(u, x)'
<1>1. ASSUME NEW h \in Grants, grant[h].status \in {"ACTIVE", "REVOKED"}
      PROVE  /\ grant'[h].status \in {"ACTIVE", "REVOKED"}
             /\ grant'[h].granter = grant[h].granter /\ grant'[h].grantee = grant[h].grantee
  <2> DEFINE Goal == /\ grant'[h].status \in {"ACTIVE", "REVOKED"}
                     /\ grant'[h].granter = grant[h].granter /\ grant'[h].grantee = grant[h].grantee
  <2>1. ASSUME NEW c \in Clients, Insert(c) PROVE Goal
    <3>1. PICK g \in Grants : grant[g] = NoRow /\ grant' = [grant EXCEPT ![g] = req[c].row]
      BY <2>1 DEF Insert, Free
    <3>2. h # g
      BY <1>1, <3>1 DEF NoRow
    <3> QED BY <1>1, <3>1, <3>2 DEF CalmInv, AddressInv, TypeOK
  <2>2. ASSUME NEW c \in Clients, Claim(c) PROVE Goal
    BY <1>1, <2>2, ClaimFields DEF ClaimedBy, CalmInv, AddressInv
  <2>3. ASSUME NEW c \in Clients, SaveWrite(c) PROVE Goal
    <3>1. PICK g \in Grants, ent \in Entities, w \in Rows :
            /\ \A i \in Grants : grant'[i] = IF i = g THEN w ELSE grant[i]
            /\ CalmSave(g, ent)
            /\ w.status = ent.status /\ w.granter = grant[g].granter
            /\ ent.status # "ACTIVE" => w.grantee \in {grant[g].grantee, ent.grantee}
      BY <2>3, CalmWrite
    <3>2. CASE h = g
      <4>1. ent.status = "REVOKED" /\ ent.grantee = grant[g].grantee
        BY <1>1, <3>1, <3>2 DEF CalmSave
      <4> QED BY <3>1, <3>2, <4>1
    <3>3. CASE h # g
      BY <1>1, <3>1, <3>3
    <3> QED BY <3>2, <3>3
  <2>4. ASSUME UNCHANGED grant PROVE Goal
    BY <1>1, <2>4
  <2> HIDE DEF Goal
  <2>5. Goal
    BY <2>1, <2>2, <2>3, <2>4
       DEF Next, Handlers, vars, InviteCheck, AcceptLoad, RevokeLoad, Reciprocate, Reread, Abort, Register, TimePasses
  <2> QED BY <2>5 DEF Goal
<1> QED BY <1>1 DEF PartnerOf

\* A step does not disturb the requests of other clients, or the rows it does not
\* write.
LEMMA CalmQuiet ==
    ASSUME CalmInv, [Next]_vars
    PROVE  /\ \A d \in Clients : req'[d] = req[d] => CalmRequest(d)'
           /\ \A g \in Grants : grant'[g] = grant[g] => CalmRow(g)'
<1>1. ASSUME NEW d \in Clients, req'[d] = req[d] PROVE CalmRequest(d)'
  <2>1. CalmRequest(d) /\ TypeOK /\ RequestAddressed(d) /\ UserOf[d] \in Users
    BY DEF CalmInv, AddressInv
  <2>2. CASE req[d].at \in {"loaded", "reread", "accepted"}
    <3>1. PICK g \in Grants : g = req[d].grant
      BY <2>1, <2>2, RequestIds
    <3>2. \/ grant'[g] = grant[g]
          \/ /\ grant[g].status = "INVITED" /\ grant'[g].status = "INVITED"
             /\ grant[g].grantee = NULL
      BY <1>1, <3>1, CalmKept
    <3> QED BY <1>1, <2>1, <2>2, <3>1, <3>2 DEF CalmRequest, CalmSave, CalmColumns, RequestAddressed
  <2>3. CASE req[d].at = "insert"
    <3>1. PICK row, u, x : row = req[d].row /\ u = row.granter /\ x = row.grantee
      OBVIOUS
    <3>2. row.status = "ACTIVE" => PartnerOf(u, x)'
      BY <2>1, <2>3, <3>1, PartnerStable DEF CalmRequest, CalmInsert
    <3> QED BY <1>1, <2>1, <2>3, <3>1, <3>2 DEF CalmRequest, CalmInsert
  <2>4. CASE req[d].at = "idle"
    BY <1>1, <2>4 DEF CalmRequest
  <2> QED BY <2>1, <2>2, <2>3, <2>4, RequestIds
<1>2. ASSUME NEW g \in Grants, grant'[g] = grant[g] PROVE CalmRow(g)'
  BY <1>2 DEF CalmInv, CalmRow
<1> QED BY <1>1, <1>2

\* The state that GrantLifecycle sees.
Life == [g \in Grants |->
           IF calm THEN [status |-> grant[g].status, granter |-> grant[g].granter,
                         grantee |-> grant[g].grantee]
           ELSE [status |-> "LOST", granter |-> NULL, grantee |-> NULL]]

\* Every step of every handler that leaves the system calm keeps the invariant, and is a
\* step of GrantLifecycle.
CalmGoal ==
    /\ \A g \in Grants : CalmRow(g)'
    /\ \A c \in Clients : CalmRequest(c)'
    /\ [Lifecycle!Next]_Life

LEMMA CalmUnchanged ==
    ASSUME CalmInv, [Next]_vars, calm', UNCHANGED grant, \A c \in Clients : CalmRequest(c)'
    PROVE  CalmGoal
<1>1. \A g \in Grants : CalmRow(g)'
  BY CalmQuiet
<1>2. UNCHANGED Life
  BY DEF Life, CalmInv
<1> QED BY <1>1, <1>2 DEF CalmGoal

LEMMA CalmInsertStep ==
    ASSUME CalmInv, [Next]_vars, calm', NEW c \in Clients, Insert(c)
    PROVE  CalmGoal
<1>t. TypeOK /\ RequestAddressed(c) /\ CalmRequest(c)
  BY DEF CalmInv, AddressInv
<1>1. PICK h \in Grants, row \in Rows, u \in Users \cup {NULL}, x \in Users \cup {NULL} :
        /\ row = req[c].row /\ u = row.granter /\ x = row.grantee
        /\ grant[h] = NoRow /\ grant' = [grant EXCEPT ![h] = row]
  <2>1. /\ req[c].row \in Rows
        /\ \E h \in Grants : grant[h] = NoRow /\ grant' = [grant EXCEPT ![h] = req[c].row]
    BY <1>t, RequestIds DEF Insert, Free
  <2>2. req[c].row.granter \in Users \cup {NULL} /\ req[c].row.grantee \in Users \cup {NULL}
    BY <2>1 DEF Rows
  <2> QED BY <2>1, <2>2
<1>2. \A g \in Grants : grant'[g] = IF g = h THEN row ELSE grant[g]
  BY <1>1, <1>t DEF TypeOK
<1>3. Addressed(row) /\ CalmInsert(row)
  BY <1>1, <1>t DEF RequestAddressed, CalmRequest, Insert
<1>4. CalmRow(h)'
  BY <1>2, <1>3 DEF CalmRow, CalmInsert, Addressed
<1>5. req'[c] = Idle /\ \A d \in Clients \ {c} : req'[d] = req[d]
  BY <1>t DEF Insert, TypeOK
<1>6. CalmRequest(c)'
  BY <1>5, BuiltFields DEF CalmRequest
<1>7. Lifecycle!Next
  <2>1. u \in Users /\ x \in Users \cup {NULL} /\ u # x
    BY <1>1, <1>3 DEF CalmInsert, Addressed, Rows
  <2>2. Life[h] = Lifecycle!Unborn
    BY <1>1 DEF Life, CalmInv, Lifecycle!Unborn, NoRow
  <2>3. Life' = [Life EXCEPT ![h] = [status |-> row.status, granter |-> u, grantee |-> x]]
    BY <1>1, <1>2 DEF Life, CalmInv
  <2>4. CASE row.status = "INVITED"
    <3>1. Lifecycle!Invite(h, u, x)
      BY <2>1, <2>2, <2>3, <2>4 DEF Lifecycle!Invite, Life, CalmInv
    <3> QED BY <2>1, <3>1 DEF Lifecycle!Next
  <2>5. CASE row.status = "ACTIVE"
    <3>1. x \in Users /\ PartnerOf(u, x)
      BY <1>1, <1>3, <2>5 DEF CalmInsert
    <3>2. \E g \in Grants : /\ Life[g].status \in {"ACTIVE", "REVOKED"}
                            /\ Life[g].granter = x /\ Life[g].grantee = u
      BY <3>1 DEF PartnerOf, Life, CalmInv
    <3>3. Lifecycle!Reciprocate(h, u, x)
      BY <2>1, <2>2, <2>3, <2>5, <3>2 DEF Lifecycle!Reciprocate, Life, CalmInv
    <3> QED BY <2>1, <3>1, <3>3 DEF Lifecycle!Next
  <2> QED BY <1>3, <2>4, <2>5 DEF CalmInsert
<1> QED BY <1>2, <1>4, <1>5, <1>6, <1>7, CalmQuiet DEF CalmGoal

LEMMA CalmClaimStep ==
    ASSUME CalmInv, [Next]_vars, calm', NEW c \in Clients, Claim(c)
    PROVE  CalmGoal
<1>t. TypeOK /\ UserOf[c] \in Users
  BY DEF CalmInv, AddressInv
<1>c. PICK claimed \in SUBSET Grants : claimed = {g \in Grants : ClaimedBy(UserOf[c], g)}
  OBVIOUS
<1>1. \A g \in Grants :
        /\ grant'[g].status = grant[g].status /\ grant'[g].granter = grant[g].granter
        /\ grant'[g].email = grant[g].email
        /\ grant'[g].grantee = IF g \in claimed THEN UserOf[c] ELSE grant[g].grantee
  BY <1>t, <1>c, ClaimFields
<1>2. \A g \in claimed : /\ grant[g].status = "INVITED" /\ grant[g].grantee = NULL
                         /\ grant[g].email = UserOf[c] /\ grant[g].granter # UserOf[c]
  BY <1>t, <1>c DEF ClaimedBy, CalmInv, AddressInv, RowAddressed, Addressed
<1>3. \A g \in Grants : CalmRow(g)'
  BY <1>1, <1>2, <1>t DEF CalmInv, CalmRow
<1>4. \A d \in Clients : CalmRequest(d)'
  BY CalmQuiet DEF Claim
<1>5. Lifecycle!Claim(UserOf[c], claimed)
  <2>1. \A g \in claimed : /\ Life[g].status = "INVITED"
                           /\ Life[g].grantee = NULL /\ Life[g].granter # UserOf[c]
    BY <1>2, <1>c DEF Life, CalmInv
  <2>2. Life' = [g \in Grants |-> IF g \in claimed THEN [Life[g] EXCEPT !.grantee = UserOf[c]]
                                  ELSE Life[g]]
    BY <1>1 DEF Life, CalmInv
  <2> QED BY <2>1, <2>2 DEF Lifecycle!Claim, Life, CalmInv
<1>6. Lifecycle!Next
  BY <1>5, <1>t DEF Lifecycle!Next
<1> QED BY <1>3, <1>4, <1>6 DEF CalmGoal

LEMMA CalmSaveStep ==
    ASSUME CalmInv, [Next]_vars, calm', NEW c \in Clients, SaveWrite(c)
    PROVE  CalmGoal
<1>t. TypeOK /\ UserOf[c] \in Users
  BY DEF CalmInv, AddressInv
<1>1. PICK g \in Grants, ent \in Entities, w \in Rows :
        /\ req[c].at = "reread" /\ req[c].grant = g /\ req[c].ent = ent
        /\ \A h \in Grants : grant'[h] = IF h = g THEN w ELSE grant[h]
        /\ grant[g].status # "NONE" /\ CalmSave(g, ent)
        /\ w.status = ent.status /\ w.granter = grant[g].granter /\ w.email = grant[g].email
        /\ ent.status = "ACTIVE" =>
             /\ w.grantee = UserOf[c] /\ grant[g].granter # UserOf[c]
             /\ grant[g].grantee \in {NULL, UserOf[c]}
        /\ ent.status # "ACTIVE" => w.grantee \in {grant[g].grantee, ent.grantee}
  BY CalmWrite
<1>2. CalmRow(g)'
  BY <1>1 DEF CalmInv, CalmRow, CalmSave
<1>3. \A d \in Clients \ {c} : req'[d] = req[d]
  BY <1>t DEF SaveWrite, TypeOK
<1>4. req'[c] = Idle \/ (req'[c] = Accepted(g) /\ ent.status = "ACTIVE")
  BY <1>1, <1>t DEF SaveWrite, TypeOK
<1>5. CalmRequest(c)'
  <2>1. CASE req'[c] = Idle
    BY <2>1, BuiltFields DEF CalmRequest
  <2>2. CASE req'[c] = Accepted(g) /\ ent.status = "ACTIVE"
    <3>1. req'[c].at = "accepted" /\ req'[c].grant = g
      BY <2>2, BuiltFields
    <3> QED BY <1>1, <2>2, <3>1 DEF CalmRequest
  <2> QED BY <1>4, <2>1, <2>2
<1>6. Lifecycle!Next
  <2>1. Life' = [Life EXCEPT ![g].status = ent.status, ![g].grantee = w.grantee]
    BY <1>1 DEF Life, CalmInv
  <2>2. /\ Life[g].status = grant[g].status /\ Life[g].granter = grant[g].granter
        /\ Life[g].grantee = grant[g].grantee
    BY DEF Life, CalmInv
  <2>3. ent.status # "ACTIVE" => w.grantee \in {Life[g].grantee, NULL}
    BY <1>1, <2>2 DEF CalmSave
  <2>4. CASE ent.status = "ACTIVE"
    <3>1. Lifecycle!Accept(g, UserOf[c])
      BY <1>1, <2>1, <2>2, <2>4 DEF Lifecycle!Accept, CalmSave, Life, CalmInv
    <3> QED BY <1>t, <3>1 DEF Lifecycle!Next
  <2>5. CASE ent.status = "EXPIRED"
    <3>1. Lifecycle!Expire(g)
      BY <1>1, <2>1, <2>2, <2>3, <2>5 DEF Lifecycle!Expire, Lifecycle!End, CalmSave, Life, CalmInv
    <3> QED BY <3>1 DEF Lifecycle!Next
  <2>6. CASE ent.status = "REVOKED"
    <3>1. Lifecycle!Revoke(g)
      BY <1>1, <2>1, <2>2, <2>3, <2>6 DEF Lifecycle!Revoke, Lifecycle!End, Life, CalmInv
    <3> QED BY <3>1 DEF Lifecycle!Next
  <2> QED BY <1>1, <2>4, <2>5, <2>6 DEF CalmSave
<1> QED BY <1>1, <1>2, <1>3, <1>5, <1>6, CalmQuiet DEF CalmGoal

LEMMA CalmStep == CalmInv /\ [Next]_vars /\ calm' => CalmInv' /\ CalmGoal
<1> SUFFICES ASSUME CalmInv, [Next]_vars, calm' PROVE CalmInv' /\ CalmGoal
  OBVIOUS
<1>t. /\ [Next]_vars /\ AddressInv' /\ TypeOK
      /\ \A c \in Clients : UserOf[c] \in Users
  BY AddressStep DEF CalmInv, AddressInv
<1>c. Calm'
  <2>1. CASE UNCHANGED vars
    BY <2>1 DEF CalmInv, Calm, vars
  <2> QED BY <2>1 DEF Next
\* It is enough to look at the client that takes the step.
<1>q. ASSUME NEW c \in Clients, \A d \in Clients \ {c} : req'[d] = req[d], CalmRequest(c)',
             UNCHANGED grant
      PROVE  CalmGoal
  <2>1. \A d \in Clients : CalmRequest(d)'
    BY <1>q, <1>t, CalmQuiet
  <2> QED BY <1>q, <1>t, <2>1, CalmUnchanged
<1>1. ASSUME NEW c \in Clients, NEW offer \in Offers, InviteCheck(c, offer) PROVE CalmGoal
  <2>1. PICK row \in Rows : row = Invitation(UserOf[c], offer)
    BY BuiltTypes
  <2>2. req'[c] = Inserting(row) /\ \A d \in Clients \ {c} : req'[d] = req[d]
    BY <1>1, <1>t, <2>1 DEF InviteCheck, TypeOK
  <2>3. CalmInsert(row)'
    BY <1>t, <2>1 DEF Invitation, CalmInsert
  <2>4. CalmRequest(c)'
    BY <2>2, <2>3, BuiltFields DEF CalmRequest
  <2> QED BY <1>1, <2>2, <2>4, <1>q DEF InviteCheck
<1>2. ASSUME NEW c \in Clients, Insert(c) PROVE CalmGoal
  BY <1>2, <1>t, CalmInsertStep
<1>3. ASSUME NEW c \in Clients, NEW g \in Grants, AcceptLoad(c, g) PROVE CalmGoal
  <2>1. grant[g].status = "INVITED" /\ UNCHANGED grant
    BY <1>3 DEF AcceptLoad, MayAccept
  <2>2. PICK s \in {"ACTIVE", "EXPIRED"}, x \in Users \cup {NULL} :
          /\ req' = [req EXCEPT ![c] = Loaded(g, s, x)]
          /\ s = "EXPIRED" => x = grant[g].grantee
    BY <1>3, <1>t, RowTypes, ConstantsAssumption DEF AcceptLoad
  <2>3. req'[c] = Loaded(g, s, x) /\ \A d \in Clients \ {c} : req'[d] = req[d]
    BY <2>2, <1>t DEF TypeOK
  <2>4. CalmRequest(c)'
    <3>1. /\ req'[c].at = "loaded" /\ req'[c].grant = g
          /\ req'[c].ent.status = s /\ req'[c].ent.grantee = x
      BY <2>3, BuiltFields
    <3> QED BY <3>1, <2>1, <2>2 DEF CalmRequest, CalmSave
  <2> QED BY <2>1, <2>3, <2>4, <1>q
<1>4. ASSUME NEW c \in Clients, NEW g \in Grants, RevokeLoad(c, g) PROVE CalmGoal
  <2>1. PICK x : x = grant[g].grantee
    OBVIOUS
  <2>2. UNCHANGED grant
    BY <1>4 DEF RevokeLoad
  <2>3. req'[c] = Loaded(g, "REVOKED", x) /\ \A d \in Clients \ {c} : req'[d] = req[d]
    BY <1>4, <2>1, <1>t DEF RevokeLoad, TypeOK
  <2>4. CalmRequest(c)'
    <3>1. /\ req'[c].at = "loaded" /\ req'[c].grant = g
          /\ req'[c].ent.status = "REVOKED" /\ req'[c].ent.grantee = x
      BY <2>3, BuiltFields
    <3> QED BY <3>1, <2>1, <2>2 DEF CalmRequest, CalmSave
  <2> QED BY <2>2, <2>3, <2>4, <1>q
<1>5. ASSUME NEW c \in Clients, Reciprocate(c) PROVE CalmGoal
  <2>1. PICK g \in Grants, x \in Users \cup {NULL} : g = req[c].grant /\ x = grant[g].granter
    BY <1>5, <1>t, RequestIds, RowTypes DEF Reciprocate
  <2>2. /\ grant[g].status = "ACTIVE" /\ grant[g].grantee = UserOf[c] /\ UNCHANGED grant
        /\ x \in Users
    BY <1>5, <2>1 DEF Reciprocate, CalmInv, CalmRequest, CalmRow
  <2>3. /\ \A d \in Clients \ {c} : req'[d] = req[d]
        /\ req'[c] = Idle \/ req'[c] = Inserting(GrantBack(UserOf[c], x))
    BY <1>5, <2>1, <1>t DEF Reciprocate, TypeOK
  <2>4. PartnerOf(UserOf[c], x)'
    BY <2>1, <2>2 DEF PartnerOf
  <2>5. CalmRequest(c)'
    <3>1. CASE req'[c] = Idle
      BY <3>1, BuiltFields DEF CalmRequest
    <3>2. CASE req'[c] = Inserting(GrantBack(UserOf[c], x))
      <4>1. /\ req'[c].at = "insert" /\ req'[c].row.status = "ACTIVE"
            /\ req'[c].row.granter = UserOf[c] /\ req'[c].row.grantee = x
        BY <3>2, BuiltFields DEF GrantBack
      <4> QED BY <4>1, <1>t, <2>2, <2>4 DEF CalmRequest, CalmInsert
    <3> QED BY <3>1, <3>2, <2>3
  <2> QED BY <2>2, <2>3, <2>5, <1>q
<1>6. ASSUME NEW c \in Clients, Claim(c) PROVE CalmGoal
  BY <1>6, <1>t, CalmClaimStep
<1>7. ASSUME NEW c \in Clients, Reread(c) PROVE CalmGoal
  <2>1. PICK g \in Grants, ent \in Entities : g = req[c].grant /\ ent = req[c].ent
    BY <1>7, <1>t, RequestIds DEF Reread
  <2>2. UNCHANGED grant /\ CalmSave(g, ent)
    BY <1>7, <2>1 DEF Reread, CalmInv, CalmRequest
  <2>3. req'[c] = Rereading(g, ent) /\ \A d \in Clients \ {c} : req'[d] = req[d]
    BY <1>7, <1>t, <2>1 DEF Reread, TypeOK
  <2>4. PICK cols : cols = Diff(ent, grant[g])
    OBVIOUS
  <2>5. CalmSave(g, ent)' /\ CalmColumns(g, ent, cols)'
    BY <2>2, <2>4 DEF CalmSave, CalmColumns, Diff
  <2>6. CalmRequest(c)'
    <3>1. /\ req'[c].at = "reread" /\ req'[c].grant = g
          /\ req'[c].ent = ent /\ req'[c].cols = cols
      BY <2>3, <2>4, BuiltFields
    <3> QED BY <3>1, <2>5 DEF CalmRequest
  <2> QED BY <2>2, <2>3, <2>6, <1>q
<1>8. ASSUME NEW c \in Clients, SaveWrite(c) PROVE CalmGoal
  BY <1>8, <1>t, CalmSaveStep
<1>9. ASSUME NEW c \in Clients, Abort(c) PROVE CalmGoal
  <2>1. req'[c] = Idle /\ UNCHANGED grant /\ \A d \in Clients \ {c} : req'[d] = req[d]
    BY <1>9, <1>t DEF Abort, TypeOK
  <2>2. CalmRequest(c)'
    BY <2>1, BuiltFields DEF CalmRequest
  <2> QED BY <2>1, <2>2, <1>q
<1>10. ASSUME UNCHANGED <<grant, req>> PROVE CalmGoal
  BY <1>10, <1>t, CalmQuiet, CalmUnchanged
<1>11. CalmGoal
  BY <1>1, <1>2, <1>3, <1>4, <1>5, <1>6, <1>7, <1>8, <1>9, <1>10 DEF Next, Handlers, vars, Register, TimePasses
<1> QED BY <1>11, <1>t, <1>c DEF CalmGoal, CalmInv

LEMMA CalmInit == Init => CalmInv
<1> SUFFICES ASSUME Init PROVE CalmInv
  OBVIOUS
<1>1. \A g \in Grants : CalmRow(g)
  BY DEF Init, CalmRow, NoRow
<1>2. \A c \in Clients : CalmRequest(c)
  BY BuiltFields DEF Init, CalmRequest
<1>3. Calm
  BY BuiltFields DEF Init, Calm
<1> QED BY <1>1, <1>2, <1>3, AddressInit DEF Init, CalmInv

\* The system is calm for as long as it has been.
LEMMA CalmWhile == Spec => [](calm => CalmInv)
<1>1. Init => (calm => CalmInv)
  BY CalmInit
<1>2. (calm => CalmInv) /\ [Next]_vars => (calm => CalmInv)'
  <2>1. [Next]_vars /\ calm' => calm
    BY DEF Next, vars
  <2> QED BY <2>1, CalmStep
<1> QED BY <1>1, <1>2, PTL DEF Spec

\* Until two requests about one grant overlap, the endpoints implement the life cycle of
\* a grant (createInvite, acceptInvite, getReceivedAccessList, revokeGrant).
THEOREM LifecycleTheorem == Spec => ImplementsLifecycle
<1>1. Init => Lifecycle!Init
  BY DEF Init, Lifecycle!Init, Lifecycle!Unborn, NoRow
<1>2. (calm => CalmInv) /\ [Next]_vars => [Lifecycle!Next]_Life
  <2> SUFFICES ASSUME calm => CalmInv, [Next]_vars PROVE [Lifecycle!Next]_Life
    OBVIOUS
  <2>1. CASE calm'
    <3>1. calm
      BY <2>1 DEF Next, vars
    <3> QED BY <2>1, <3>1, CalmStep DEF CalmGoal
  <2>2. CASE ~calm' /\ calm
    <3>1. Life' = [g \in Grants |-> [status |-> "LOST", granter |-> NULL, grantee |-> NULL]]
      BY <2>2 DEF Life
    <3>2. Lifecycle!Lose
      BY <3>1 DEF Lifecycle!Lose, Lifecycle!Lost, Life
    <3> QED BY <3>2 DEF Lifecycle!Next
  <2>3. CASE ~calm' /\ ~calm
    BY <2>3 DEF Life
  <2> QED BY <2>1, <2>2, <2>3
<1>3. (calm => CalmInv) /\ [Next]_vars =>
        [Lifecycle!Next]_[g \in Grants |->
            IF calm THEN [status |-> grant[g].status, granter |-> grant[g].granter,
                          grantee |-> grant[g].grantee]
            ELSE [status |-> "LOST", granter |-> NULL, grantee |-> NULL]]
  BY <1>2 DEF Life
<1> QED BY <1>1, <1>3, CalmWhile, PTL DEF Spec, ImplementsLifecycle, Lifecycle!Spec

\* An accepted partnership goes on to its grant back, or dies owing it.
LEMMA AcceptanceGoesOn ==
    ASSUME TypeOK, [Next]_vars, NEW c \in Clients, req[c].at \in {"accepted", "insert"}
    PROVE  \/ req'[c] = req[c]
           \/ req[c].at = "accepted" /\ Reciprocate(c)
           \/ req[c].at = "insert" /\ Insert(c)
           \/ torn' = torn \cup Owed(c)
<1> DEFINE Goal == \/ req'[c] = req[c]
                   \/ req[c].at = "accepted" /\ Reciprocate(c)
                   \/ req[c].at = "insert" /\ Insert(c)
                   \/ torn' = torn \cup Owed(c)
<1>1. req[c].at \in {"accepted", "insert"} /\ req[c] # Idle
  BY BuiltFields
<1>2. ASSUME NEW d \in Clients, NEW q, req' = [req EXCEPT ![d] = q], d # c PROVE Goal
  BY <1>2 DEF TypeOK
<1>3. ASSUME NEW d \in Clients,
             \/ \E offer \in Offers : InviteCheck(d, offer)
             \/ \E g \in Grants : AcceptLoad(d, g) \/ RevokeLoad(d, g)
             \/ Reread(d) \/ SaveWrite(d) \/ Abort(d) \/ Reciprocate(d) \/ Insert(d)
      PROVE  Goal
  <2>1. CASE d = c
    BY <1>1, <1>3, <2>1
       DEF InviteCheck, AcceptLoad, RevokeLoad, Reread, SaveWrite, Abort, Reciprocate, Insert
  <2>2. CASE d # c
    <3>1. \E q : req' = [req EXCEPT ![d] = q]
      BY <1>3 DEF InviteCheck, AcceptLoad, RevokeLoad, Reread, SaveWrite, Abort, Reciprocate, Insert
    <3> QED BY <1>2, <2>2, <3>1
  <2> QED BY <2>1, <2>2
<1>4. ASSUME UNCHANGED req PROVE Goal
  BY <1>4
<1> HIDE DEF Goal
<1>5. Goal
  BY <1>3, <1>4 DEF Next, Handlers, vars, Claim, Register, TimePasses
<1> QED BY <1>5 DEF Goal

\* What a request owes is told by its two sides.
LEMMA OwedPair ==
    ASSUME TypeOK, NEW c \in Clients, NEW x, NEW u,
           \/ req[c].at = "accepted" /\ UserOf[c] = x /\ grant[req[c].grant].granter = u
           \/ req[c].at = "insert" /\ req[c].row = GrantBack(x, u)
    PROVE  <<x, u>> \in Owed(c)
<1>1. CASE req[c].at = "accepted" /\ UserOf[c] = x /\ grant[req[c].grant].granter = u
  <2>1. req[c].grant \in Grants
    BY <1>1 DEF TypeOK, Requests
  <2>2. x \in Users /\ u \in Users \cup {NULL}
    BY <1>1, <2>1, ConstantsAssumption DEF TypeOK, Rows
  <2> QED BY <1>1, <2>2 DEF Owed
<1>2. CASE req[c].at = "insert" /\ req[c].row = GrantBack(x, u)
  <2>1. req[c].row \in Rows
    BY <1>2 DEF TypeOK, Requests
  <2>2. x \in Users \cup {NULL} /\ u \in Users \cup {NULL}
    BY <1>2, <2>1 DEF Rows, GrantBack
  <2> QED BY <1>2, <2>2 DEF Owed, GrantBack
<1> QED BY <1>1, <1>2

\* Until two requests about one grant overlap, a partnership is mutual once its acceptance
\* has ended, unless that died between its two saves, and only a revocation takes one side
\* away (acceptInvite 202-224).
THEOREM PartnersTheorem == Spec => []PartnersMutual
<1> DEFINE PartnersInv == calm => CalmInv /\ PartnersMutual
<1>1. Init => PartnersInv
  BY CalmInit DEF Init, PartnersMutual, NoRow
<1>2. PartnersInv /\ [Next]_vars => PartnersInv'
  <2> SUFFICES ASSUME PartnersInv, [Next]_vars, calm' PROVE PartnersInv'
    OBVIOUS
  <2>c. calm /\ CalmInv /\ PartnersMutual
    BY DEF Next, vars
  <2>t. CalmInv /\ CalmInv' /\ TypeOK /\ [Next]_vars
    BY <2>c, CalmStep DEF CalmInv, AddressInv
  <2> SUFFICES ASSUME NEW g \in Grants, NEW u, NEW x, u = grant'[g].granter, x = grant'[g].grantee,
                      grant'[g].status = "ACTIVE", grant'[g].scope = "PARTNER"
               PROVE  \/ PartnerOf(u, x)'
                      \/ <<x, u>> \in torn'
                      \/ \E c \in Clients :
                           \/ req'[c].at = "accepted" /\ req'[c].grant = g
                           \/ req'[c].at = "insert" /\ req'[c].row = GrantBack(x, u)
    BY <2>t DEF PartnersMutual, GrantBack
  <2> DEFINE Goal == \/ PartnerOf(u, x)'
                     \/ <<x, u>> \in torn'
                     \/ \E c \in Clients :
                          \/ req'[c].at = "accepted" /\ req'[c].grant = g
                          \/ req'[c].at = "insert" /\ req'[c].row = GrantBack(x, u)
  \* A grant that was active and a partner's before the step.
  <2>1. CASE grant[g].status = "ACTIVE"
    <3>1. grant[g].granter = u /\ grant[g].grantee = x /\ grant[g].scope = "PARTNER"
      BY <2>t, <2>1, PartnerStable, RowsStable
    <3>2. \/ PartnerOf(u, x)
          \/ <<x, u>> \in torn
          \/ \E c \in Clients : \/ req[c].at = "accepted" /\ req[c].grant = g
                                \/ req[c].at = "insert" /\ req[c].row = GrantBack(x, u)
      BY <2>c, <2>1, <3>1 DEF PartnersMutual
    <3>3. CASE PartnerOf(u, x)
      BY <2>t, <3>3, PartnerStable
    <3>4. ASSUME NEW c \in Clients, req[c].at = "accepted", req[c].grant = g PROVE Goal
      <4>1. UserOf[c] = x
        BY <2>t, <3>1, <3>4 DEF CalmInv, CalmRequest
      <4>2. CASE req'[c] = req[c]
        BY <3>4, <4>2
      <4>3. CASE Reciprocate(c)
        <5>1. CASE Reciprocal(g, x) # {}
          <6>1. PartnerOf(u, x)
            BY <3>1, <5>1 DEF Reciprocal, PartnerOf
          <6> QED BY <2>t, <6>1, PartnerStable
        <5>2. CASE Reciprocal(g, x) = {}
          <6>1. req'[c] = Inserting(GrantBack(x, u))
            BY <2>t, <3>1, <3>4, <4>1, <4>3, <5>2 DEF Reciprocate, TypeOK
          <6> QED BY <6>1, BuiltFields
        <5> QED BY <5>1, <5>2
      <4>4. CASE torn' = torn \cup Owed(c)
        BY <2>t, <3>1, <3>4, <4>1, <4>4, OwedPair
      <4> QED BY <2>t, <3>4, <4>2, <4>3, <4>4, AcceptanceGoesOn
    <3>5. ASSUME NEW c \in Clients, req[c].at = "insert", req[c].row = GrantBack(x, u) PROVE Goal
      <4>1. CASE req'[c] = req[c]
        BY <3>5, <4>1
      <4>2. CASE Insert(c)
        <5>1. PICK h \in Grants : grant' = [grant EXCEPT ![h] = GrantBack(x, u)]
          BY <3>5, <4>2 DEF Insert, Free
        <5>2. grant'[h] = GrantBack(x, u)
          BY <2>t, <5>1 DEF TypeOK
        <5>3. grant'[h].status = "ACTIVE" /\ grant'[h].granter = x /\ grant'[h].grantee = u
          BY <5>2 DEF GrantBack
        <5> QED BY <5>3 DEF PartnerOf
      <4>3. CASE torn' = torn \cup Owed(c)
        BY <2>t, <3>5, <4>3, OwedPair
      <4> QED BY <2>t, <3>5, <4>1, <4>2, <4>3, AcceptanceGoesOn
    <3>6. CASE <<x, u>> \in torn
      <4>1. torn \subseteq torn'
        BY <2>t DEF Next, Handlers, vars, InviteCheck, AcceptLoad, RevokeLoad, Reciprocate, Reread, Abort,
                    Insert, Claim, SaveWrite, Register, TimePasses
      <4> QED BY <3>6, <4>1
    <3> QED BY <3>2, <3>3, <3>4, <3>5, <3>6
  \* A grant that the step makes active.
  <2>2. CASE grant[g].status # "ACTIVE"
    <3>1. ASSUME NEW c \in Clients, Insert(c) PROVE Goal
      <4>1. PICK h \in Grants : grant' = [grant EXCEPT ![h] = req[c].row]
        BY <3>1 DEF Insert, Free
      <4>2. grant'[g] = req[c].row
        BY <2>t, <2>2, <4>1 DEF TypeOK
      <4>3. PartnerOf(u, x)
        BY <2>t, <3>1, <4>2 DEF Insert, CalmInv, CalmRequest, CalmInsert
      <4> QED BY <2>t, <4>3, PartnerStable
    <3>2. ASSUME NEW c \in Clients, Claim(c) PROVE FALSE
      BY <2>t, <2>2, <3>2, ClaimFields
    <3>3. ASSUME NEW c \in Clients, SaveWrite(c) PROVE Goal
      <4>1. PICK h \in Grants, ent \in Entities, w \in Rows :
              /\ req[c].grant = h /\ req[c].ent = ent
              /\ \A i \in Grants : grant'[i] = IF i = h THEN w ELSE grant[i]
              /\ grant[h].status # "NONE" /\ w.status = ent.status
        BY <2>t, <3>3, CalmWrite
      <4>2. h = g /\ ent.status = "ACTIVE"
        BY <2>2, <4>1
      <4>3. grant[g].scope = "PARTNER"
        BY <2>t, <4>1, <4>2, RowsStable
      <4>4. req'[c] = Accepted(g)
        BY <2>t, <3>3, <4>1, <4>2, <4>3 DEF SaveWrite, TypeOK
      <4>5. req'[c].at = "accepted" /\ req'[c].grant = g
        BY <4>4, BuiltFields
      <4> QED BY <4>5
    <3>4. ASSUME UNCHANGED grant PROVE FALSE
      BY <2>2, <3>4
    <3> HIDE DEF Goal
    <3>5. \/ \E c \in Clients : Insert(c) \/ Claim(c) \/ SaveWrite(c)
          \/ UNCHANGED grant
      BY <2>t DEF Next, Handlers, vars, InviteCheck, AcceptLoad, RevokeLoad, Reciprocate, Reread, Abort,
                  Register, TimePasses
    <3>6. Goal
      BY <3>1, <3>2, <3>3, <3>4, <3>5
    <3> QED BY <3>6 DEF Goal
  <2> QED BY <2>1, <2>2
<1>3. PartnersInv => PartnersMutual
  BY DEF PartnersMutual
<1> HIDE DEF PartnersInv
<1> QED BY <1>1, <1>2, <1>3, PTL DEF Spec
=============================================================================
