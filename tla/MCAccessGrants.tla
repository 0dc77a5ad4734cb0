--------------------------- MODULE MCAccessGrants ---------------------------
(* Small instances of AccessGrants for TLC.                                 *)
EXTENDS AccessGrants, TLC

CONSTANTS u1, u2, c1, c2, c3

Offer(email, scope, expires) == [email |-> email, scope |-> scope, expires |-> expires]

\* A partnership for anybody with the code, for some time, and an address that is
\* not registered yet.
MixedOffers == {Offer(NULL, "PARTNER", TRUE), Offer(u2, "MENTOR", FALSE)}

\* Two users, the second of whom registers late and has two devices.
LateUser == {u2}
TwoUsers == {u1, u2}
TwoDevices == (c1 :> u1) @@ (c2 :> u2) @@ (c3 :> u2)

\* The two devices are alike, and so are the ids of rows.
Alike == Permutations({c2, c3}) \cup Permutations(Grants)
=============================================================================
