\* Two devices of one student and two mentors, one of whom may verify: starts, finishes,
\* cancellations and verifications overlap.
CONSTANTS
    NULL = NULL
    u1 = u1  u2 = u2  u3 = u3  c1 = c1  c2 = c2  c3 = c3  c4 = c4  t1 = t1
    Users = {u1, u2, u3}
    Clients = {c1, c2, c3, c4}
    UserOf <- TwoDevicesAndMentors
    CanVerify <- MentorVerifies
    Keys = {k1}
    Sessions = {s1, s2, s3, s4}
    Results = {r1, r2}
    Tasks = {t1}
    SeedAccess <- NoTasks
    Ops <- OpsByDevice
    Given = {"VERIFIED"}
SPECIFICATION Spec
SYMMETRY SessionSymmetry
INVARIANTS TypeOK VerifierAuthorised ActiveBounded RowConsistent
PROPERTIES OnlyLateReopen ImplementsLifecycle
