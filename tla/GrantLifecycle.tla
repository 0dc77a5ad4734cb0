--------------------------- MODULE GrantLifecycle ---------------------------
(***************************************************************************)
(* What the grant endpoints promise: an invitation is made by its granter, *)
(* is addressed to at most one other user, and is accepted at most once, by*)
(* that user; it ends when it is revoked, or when it expires before it is  *)
(* accepted; a revoked grant never gives anything again. A partner's grant *)
(* back is accepted from the start. Grants are lost when nothing is        *)
(* promised of them any more: AccessGrants promises this until two requests*)
(* about one grant overlap.                                                *)
(***************************************************************************)
CONSTANTS Users, Grants, NULL

VARIABLE life   \* grant -> its status and both sides

Unborn == [status |-> "NONE", granter |-> NULL, grantee |-> NULL]

Init == life = [g \in Grants |-> Unborn]

Invite(g, u, x) ==
    /\ life[g] = Unborn /\ u # x
    /\ life' = [life EXCEPT ![g] = [status |-> "INVITED", granter |-> u, grantee |-> x]]

\* A grant back for one that was accepted, and may be revoked by now.
Reciprocate(g, u, x) ==
    /\ life[g] = Unborn /\ u # x
    /\ \E h \in Grants : /\ life[h].status \in {"ACTIVE", "REVOKED"}
                         /\ life[h].granter = x /\ life[h].grantee = u
    /\ life' = [life EXCEPT ![g] = [status |-> "ACTIVE", granter |-> u, grantee |-> x]]

\* Invitations that were sent to an address find the user who has it.
Claim(u, claimed) ==
    /\ \A g \in claimed : /\ life[g].status = "INVITED"
                          /\ life[g].grantee = NULL /\ life[g].granter # u
    /\ life' = [g \in Grants |-> IF g \in claimed THEN [life[g] EXCEPT !.grantee = u] ELSE life[g]]

Accept(g, u) ==
    /\ life[g].status = "INVITED" /\ life[g].granter # u /\ life[g].grantee \in {NULL, u}
    /\ life' = [life EXCEPT ![g].status = "ACTIVE", ![g].grantee = u]

\* A grant that ends may forget that it was claimed.
End(g, status) ==
    \E x \in {life[g].grantee, NULL} :
        life' = [life EXCEPT ![g].status = status, ![g].grantee = x]

Expire(g) == life[g].status = "INVITED" /\ End(g, "EXPIRED")

Revoke(g) == life[g].status # "NONE" /\ End(g, "REVOKED")

Lost == [status |-> "LOST", granter |-> NULL, grantee |-> NULL]

Lose == life' = [g \in Grants |-> Lost]

Next ==
    \/ \E g \in Grants :
         \/ \E u \in Users, x \in Users \cup {NULL} : Invite(g, u, x)
         \/ \E u, x \in Users : Reciprocate(g, u, x)
         \/ \E u \in Users : Accept(g, u)
         \/ Expire(g)
         \/ Revoke(g)
    \/ \E u \in Users, claimed \in SUBSET Grants : Claim(u, claimed)
    \/ Lose

Spec == Init /\ [][Next]_life
=============================================================================
