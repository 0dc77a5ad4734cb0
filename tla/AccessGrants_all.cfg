\* A user and another one who registers late and has two devices: invitations of both kinds,
\* acceptances, claims and revocations, in any overlap, with requests that die.
CONSTANTS
    NULL = NULL
    u1 = u1  u2 = u2  c1 = c1  c2 = c2  c3 = c3
    Users <- TwoUsers
    Newcomers <- LateUser
    Clients = {c1, c2, c3}
    UserOf <- TwoDevices
    Grants = {g1, g2}
    Offers <- MixedOffers
    Ops = {"invite", "accept", "claim", "revoke"}
SPECIFICATION Spec
SYMMETRY Alike
INVARIANTS PartnersMutual Designated Agreed
PROPERTIES ImplementsLifecycle OnlyMissedRevive
