---------------------------- MODULE AccessGrants ----------------------------
(***************************************************************************)
(* The access grants of AccountabilityService: createInvite, acceptInvite, *)
(* getReceivedAccessList (which claims invitations) and revokeGrant, over  *)
(* table access_grant.                                                     *)
(*                                                                         *)
(* Every await is a point where other requests interleave. save(grant)     *)
(* reads the row again, and then updates the loaded columns that differ;   *)
(* of the columns of a stored grant only status and grantee_id change.     *)
(*                                                                         *)
(* Abstractions: a user is identified with the user's e-mail address, which*)
(* does not change; codes and ids are unguessable or not, but any user may *)
(* try any grant; what a grant permits is decided when it is created and   *)
(* left out; of the scopes only PARTNER is told apart. An expires_at that  *)
(* is set lies in the future or in the past, and moves to the past at any  *)
(* time.                                                                   *)
(***************************************************************************)
EXTENDS Naturals

CONSTANTS
    Users,
    Newcomers,  \* users who register while the system runs
    Clients,    \* connections: each has at most one request in flight
    UserOf,     \* the account a client is authenticated as
    Grants,     \* bound: ids of access_grant rows
    Offers,     \* the invitations that the clients of this instance make
    Ops,        \* the endpoints the clients of this instance call
    NULL

ASSUME ConstantsAssumption ==
    /\ Newcomers \subseteq Users
    /\ UserOf \in [Clients -> Users]
    /\ Offers \subseteq [email : Users \cup {NULL}, scope : {"PARTNER", "MENTOR"},
                         expires : BOOLEAN]
    /\ Ops \subseteq {"invite", "accept", "claim", "revoke"}
    /\ NULL \notin Users \cup Grants

VARIABLES
    grant,      \* table access_grant
    past,       \* the grants whose expires_at is over
    registered, \* table user
    req,        \* per client, the request in flight
    consent,    \* history: <<g, u>> if u sent an acceptance of g before it expired
    torn,       \* history: <<x, u>> if a request that owed u a grant of x has died
    missed,     \* history: the clients whose request loaded a grant before its revocation
    calm        \* history: no two requests about one grant have overlapped so far

vars == <<grant, past, registered, req, consent, torn, missed, calm>>

Statuses == {"INVITED", "ACTIVE", "REVOKED", "EXPIRED"}
Live == {"INVITED", "ACTIVE"}

Rows == [status : Statuses \cup {"NONE"}, granter : Users \cup {NULL},
         grantee : Users \cup {NULL}, email : Users \cup {NULL},
         scope : {"PARTNER", "MENTOR"}, expires : BOOLEAN]

NoRow == [status |-> "NONE", granter |-> NULL, grantee |-> NULL, email |-> NULL,
          scope |-> "MENTOR", expires |-> FALSE]

(***************************************************************************)
(* A request in flight: it is about to insert `row'; or it loaded `grant'  *)
(* and its save() has to read the row again, or to write the columns `cols'*)
(* of `ent'; or it accepted `grant', and looks for a reciprocal one.       *)
(***************************************************************************)
Requests ==
    LET Fields(ats, grants) ==
            [at : ats, grant : grants, row : Rows, cols : SUBSET {"status", "grantee"},
             ent : [status : Statuses, grantee : Users \cup {NULL}]]
    IN  Fields({"idle", "insert"}, {NULL}) \cup Fields({"loaded", "reread", "accepted"}, Grants)

Idle == [at |-> "idle", grant |-> NULL, row |-> NoRow, cols |-> {},
         ent |-> [status |-> "INVITED", grantee |-> NULL]]

Inserting(row) == [Idle EXCEPT !.at = "insert", !.row = row]
Loaded(g, status, grantee) ==
    [Idle EXCEPT !.at = "loaded", !.grant = g, !.ent = [status |-> status, grantee |-> grantee]]
Accepted(g) == [Idle EXCEPT !.at = "accepted", !.grant = g]

TypeOK ==
    /\ grant \in [Grants -> Rows]
    /\ past \subseteq Grants
    /\ registered \subseteq Users
    /\ req \in [Clients -> Requests]
    /\ consent \subseteq Grants \X Users
    /\ torn \subseteq (Users \cup {NULL}) \X (Users \cup {NULL})
    /\ missed \subseteq Clients
    /\ calm \in BOOLEAN

Init ==
    /\ grant = [g \in Grants |-> NoRow]
    /\ past = {}
    /\ registered = Users \ Newcomers
    /\ req = [c \in Clients |-> Idle]
    /\ consent = {}
    /\ torn = {}
    /\ missed = {}
    /\ calm = TRUE

-----------------------------------------------------------------------------
(* Reads.                                                                   *)

Free == {g \in Grants : grant[g] = NoRow}

\* A grant between two users, in either direction, that is INVITED or ACTIVE.
LiveBetween(u, x) ==
    {g \in Grants : /\ grant[g].status \in Live
                    /\ <<grant[g].granter, grant[g].grantee>> \in {<<u, x>>, <<x, u>>}}

\* Fault: the two sides are swapped.
SameSide(g, u) ==
    {h \in Grants : /\ grant[h].status = "ACTIVE"
                    /\ grant[h].granter = grant[g].granter /\ grant[h].grantee = u}

\* An active grant of u to the granter of g.
Reciprocal(g, u) ==
    {h \in Grants : /\ grant[h].status = "ACTIVE"
                    /\ grant[h].granter = u /\ grant[h].grantee = grant[g].granter}

-----------------------------------------------------------------------------
(* createInvite.                                                            *)

\* The invitation is for whoever has its code, or for an e-mail address.
Invitation(u, offer) ==
    [status |-> "INVITED", granter |-> u,
     grantee |-> IF offer.email \in registered THEN offer.email ELSE NULL,
     email |-> offer.email, scope |-> offer.scope, expires |-> offer.expires]

\* If the address is that of a user there must be no live grant between the two.
InviteCheck(c, offer) ==
    /\ "invite" \in Ops
    /\ req[c] = Idle /\ UserOf[c] \in registered
    /\ offer.email # UserOf[c]
    /\ offer.email \in registered => LiveBetween(UserOf[c], offer.email) = {}
    /\ req' = [req EXCEPT ![c] = Inserting(Invitation(UserOf[c], offer))]
    /\ UNCHANGED <<grant, past, registered, consent, torn, missed>>

\* The insertion of a new grant: an invitation or a reciprocal grant.
Insert(c) ==
    /\ req[c].at = "insert"
    /\ \E g \in Free : grant' = [grant EXCEPT ![g] = req[c].row]
    /\ req' = [req EXCEPT ![c] = Idle]
    /\ UNCHANGED <<past, registered, consent, torn, missed>>

-----------------------------------------------------------------------------
(* acceptInvite.                                                            *)

\* Fault: one's own invitation may be accepted as well.
MayAcceptOwn(u, g) ==
    grant[g].status = "INVITED" /\ grant[g].email \in {NULL, u}

\* Fault: a grant that is no longer an open invitation is accepted again.
MayAcceptAgain(u, g) ==
    grant[g].status # "NONE" /\ grant[g].granter # u /\ grant[g].email \in {NULL, u}

\* It is an open invitation of another user, to anybody or to this one.
MayAccept(u, g) ==
    /\ grant[g].status = "INVITED"
    /\ grant[g].granter # u
    /\ grant[g].email \in {NULL, u}

\* Fault: an invitation is accepted although it has expired.
AcceptLoadNoExpiry(c, g) ==
    /\ "accept" \in Ops
    /\ req[c] = Idle /\ UserOf[c] \in registered
    /\ MayAccept(UserOf[c], g)
    /\ req' = [req EXCEPT ![c] = Loaded(g, "ACTIVE", UserOf[c])]
    /\ consent' = IF g \in past THEN consent ELSE consent \cup {<<g, UserOf[c]>>}
    /\ UNCHANGED <<grant, past, registered, torn, missed>>

\* The grant is loaded, by its code or its id. An expired one is to be saved as
\* such (and the request refused), another one as accepted.
AcceptLoad(c, g) ==
    /\ "accept" \in Ops
    /\ req[c] = Idle /\ UserOf[c] \in registered
    /\ MayAccept(UserOf[c], g)
    /\ \/ /\ g \in past
          /\ req' = [req EXCEPT ![c] = Loaded(g, "EXPIRED", grant[g].grantee)]
          /\ UNCHANGED consent
       \/ /\ g \notin past
          /\ req' = [req EXCEPT ![c] = Loaded(g, "ACTIVE", UserOf[c])]
          /\ consent' = consent \cup {<<g, UserOf[c]>>}
    /\ UNCHANGED <<grant, past, registered, torn, missed>>

GrantBack(u, x) ==
    [status |-> "ACTIVE", granter |-> u, grantee |-> x, email |-> NULL,
     scope |-> "PARTNER", expires |-> FALSE]

\* A partnership goes both ways: the acceptance of a PARTNER grant looks for an
\* active grant back, and makes one if there is none.
Reciprocate(c) ==
    LET g == req[c].grant IN
    /\ req[c].at = "accepted"
    /\ req' = [req EXCEPT ![c] =
                 IF Reciprocal(g, UserOf[c]) # {} THEN Idle
                 ELSE Inserting(GrantBack(UserOf[c], grant[g].granter))]
    /\ UNCHANGED <<grant, past, registered, consent, torn, missed>>

-----------------------------------------------------------------------------
(* getReceivedAccessList.                                                   *)

\* Fault: invitations that are no longer open are claimed as well.
ClaimAnyStatus(c) ==
    /\ "claim" \in Ops
    /\ req[c] = Idle /\ UserOf[c] \in registered
    /\ grant' = [g \in Grants |->
                   IF grant[g].email = UserOf[c] /\ grant[g].grantee = NULL
                   THEN [grant[g] EXCEPT !.grantee = UserOf[c]]
                   ELSE grant[g]]
    /\ UNCHANGED <<past, registered, req, consent, torn, missed>>

\* One UPDATE makes the user the grantee of the invitations to the user's
\* address that were sent before there was an account.
Claim(c) ==
    /\ "claim" \in Ops
    /\ req[c] = Idle /\ UserOf[c] \in registered
    /\ grant' = [g \in Grants |->
                   IF /\ grant[g].email = UserOf[c]
                      /\ grant[g].grantee = NULL /\ grant[g].status = "INVITED"
                   THEN [grant[g] EXCEPT !.grantee = UserOf[c]]
                   ELSE grant[g]]
    /\ UNCHANGED <<past, registered, req, consent, torn, missed>>

-----------------------------------------------------------------------------
(* revokeGrant.                                                             *)

\* Either side may revoke, an addressee included, whatever the status is.
RevokeLoad(c, g) ==
    /\ "revoke" \in Ops
    /\ req[c] = Idle /\ UserOf[c] \in registered
    /\ grant[g].status # "NONE"
    /\ UserOf[c] \in {grant[g].granter, grant[g].grantee, grant[g].email}
    /\ req' = [req EXCEPT ![c] = Loaded(g, "REVOKED", grant[g].grantee)]
    /\ UNCHANGED <<grant, past, registered, consent, torn, missed>>

-----------------------------------------------------------------------------
(* save().                                                                  *)

Diff(ent, row) ==
    {f \in {"status", "grantee"} : \/ f = "status" /\ ent.status # row.status
                                   \/ f = "grantee" /\ ent.grantee # row.grantee}

Written(row, ent, cols) ==
    [row EXCEPT !.status = IF "status" \in cols THEN ent.status ELSE @,
                !.grantee = IF "grantee" \in cols THEN ent.grantee ELSE @]

Rereading(g, ent) ==
    [Idle EXCEPT !.at = "reread", !.grant = g, !.ent = ent, !.cols = Diff(ent, grant[g])]

\* It reads the row again and computes what differs ...
Reread(c) ==
    LET q == req[c] IN
    /\ q.at = "loaded"
    /\ req' = [req EXCEPT ![c] = Rereading(q.grant, q.ent)]
    /\ UNCHANGED <<grant, past, registered, consent, torn, missed>>

\* Those who hold the grant as it was, when it becomes revoked.
Missing(g, row) ==
    {d \in Clients : /\ req[d].at \in {"loaded", "reread"} /\ req[d].grant = g
                     /\ grant[g].status # "REVOKED" /\ row.status = "REVOKED"}

\* ... and updates these columns. The acceptance of a partnership goes on.
SaveWrite(c) ==
    LET q == req[c]
        row == Written(grant[q.grant], q.ent, q.cols)
    IN
    /\ q.at = "reread"
    /\ grant' = [grant EXCEPT ![q.grant] = row]
    /\ missed' = (missed \cup Missing(q.grant, row)) \ {c}
    /\ req' = [req EXCEPT ![c] =
                 IF q.ent.status = "ACTIVE" /\ grant[q.grant].scope = "PARTNER"
                 THEN Accepted(q.grant) ELSE Idle]
    /\ UNCHANGED <<past, registered, consent, torn>>

-----------------------------------------------------------------------------
(* The environment.                                                         *)

\* The user registers (UsersService.create).
Register(u) ==
    /\ u \notin registered
    /\ registered' = registered \cup {u}
    /\ UNCHANGED <<grant, past, req, consent, torn, missed>>

\* The time at which a grant expires passes; nothing is stored.
TimePasses(g) ==
    /\ grant[g].expires /\ g \notin past
    /\ past' = past \cup {g}
    /\ UNCHANGED <<grant, registered, req, consent, torn, missed>>

\* The grant back that a request owes: the acceptance of the partnership is stored,
\* this one is not.
Owed(c) ==
    {p \in (Users \cup {NULL}) \X (Users \cup {NULL}) :
        \/ req[c].at = "accepted" /\ p = <<UserOf[c], grant[req[c].grant].granter>>
        \/ /\ req[c].at = "insert" /\ req[c].row.status = "ACTIVE"
           /\ p = <<req[c].row.granter, req[c].row.grantee>>}

\* A request ends early: a statement fails, the process or the connection dies.
Abort(c) ==
    /\ req[c] # Idle
    /\ req' = [req EXCEPT ![c] = Idle]
    /\ torn' = torn \cup Owed(c)
    /\ missed' = missed \ {c}
    /\ UNCHANGED <<grant, past, registered, consent>>

Handlers ==
    \/ \E c \in Clients :
         \/ \E offer \in Offers : InviteCheck(c, offer)
         \/ Insert(c)
         \/ \E g \in Grants : AcceptLoad(c, g) \/ RevokeLoad(c, g)
         \/ Reciprocate(c)
         \/ Claim(c)
         \/ Reread(c)
         \/ SaveWrite(c)
         \/ Abort(c)
    \/ \E u \in Users : Register(u)
    \/ \E g \in Grants : TimePasses(g)

\* The requests in flight are about different grants.
Calm ==
    \A c, d \in Clients : req[c].grant = req[d].grant /\ req[c].grant # NULL => c = d

Next == Handlers /\ calm' = (calm /\ Calm')

Spec == Init /\ [][Next]_vars

-----------------------------------------------------------------------------
(* Properties.                                                              *)

\* Whatever overlaps, nobody gets a grant that is addressed to somebody else, or
\* a grant of their own (acceptInvite 167-182).
Designated ==
    \A g \in Grants : grant[g].grantee # NULL =>
        /\ grant[g].grantee # grant[g].granter
        /\ grant[g].email \in {NULL, grant[g].grantee}

\* u accepted a partnership of x.
AcceptedPartner(u, x) ==
    \E h \in Grants : /\ <<h, u>> \in consent
                      /\ grant[h].granter = x /\ grant[h].scope = "PARTNER"

\* Whatever overlaps, an active grant gives nothing that its two sides did not
\* agree to: the grantee accepted it before it expired (140-200), or it is the grant
\* back of somebody who accepted a partnership of the grantee (202-224).
Agreed ==
    \A g \in Grants :
        LET u == grant[g].granter  x == grant[g].grantee IN
        grant[g].status = "ACTIVE" /\ x # NULL =>
            <<g, x>> \in consent \/ AcceptedPartner(u, x)

\* Whatever overlaps, a revoked grant is revived by nothing but the save of a request
\* that loaded it before the revocation was stored; whoever comes later is refused
\* (acceptInvite 184-188, revokeGrant 298-299).
OnlyMissedReviveStep ==
    \A g \in Grants :
        grant[g].status = "REVOKED" /\ grant'[g].status # "REVOKED" =>
            \E c \in missed : req[c].at = "reread" /\ req[c].grant = g /\ req'[c] # req[c]

OnlyMissedRevive == [][OnlyMissedReviveStep]_vars

\* u accepted an invitation of x, which may be revoked by now.
PartnerOf(u, x) ==
    \E h \in Grants : /\ grant[h].status \in {"ACTIVE", "REVOKED"}
                      /\ grant[h].granter = x /\ grant[h].grantee = u

\* Until two requests about one grant overlap, a partnership is mutual once its acceptance
\* has ended, unless that died between its two saves, and only a revocation takes one side
\* away (202-224).
PartnersMutual ==
    calm => \A g \in Grants :
        LET u == grant[g].granter  x == grant[g].grantee IN
        grant[g].status = "ACTIVE" /\ grant[g].scope = "PARTNER" =>
            \/ PartnerOf(u, x)
            \/ <<x, u>> \in torn
            \/ \E c \in Clients : \/ req[c].at = "accepted" /\ req[c].grant = g
                                  \/ req[c].at = "insert" /\ req[c].row = GrantBack(x, u)

\* Until two requests about one grant overlap, grants live as GrantLifecycle says.
Lifecycle == INSTANCE GrantLifecycle WITH
    life <- [g \in Grants |->
               IF calm THEN [status |-> grant[g].status, granter |-> grant[g].granter,
                             grantee |-> grant[g].grantee]
               ELSE [status |-> "LOST", granter |-> NULL, grantee |-> NULL]]

ImplementsLifecycle == Lifecycle!Spec
=============================================================================
