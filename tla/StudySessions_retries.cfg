\* Three overlapping requests of one student, retries included; nobody cancels or verifies.
CONSTANTS
    NULL = NULL
    u1 = u1  u2 = u2  u3 = u3  c1 = c1  c2 = c2  c3 = c3  c4 = c4  t1 = t1
    Users = {u1, u2}
    Clients = {c1, c2, c3}
    UserOf <- ThreeDevices
    CanVerify <- NobodyVerifies
    Keys = {k1, k2}
    Sessions = {s1, s2, s3}
    Results = {r1, r2, r3}
    Tasks = {t1}
    SeedAccess <- SeededTask
    Ops <- StartsAndFinishes
    Given = {"VERIFIED"}
SPECIFICATION Spec
SYMMETRY SessionSymmetry
INVARIANTS ResultsKept RowConsistent
PROPERTY AckedFinish
