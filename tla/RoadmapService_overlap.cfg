\* Two devices of one user: generations, replannings and completions overlap.
CONSTANTS
    NULL = NULL
    u1 = u1  c1 = c1  c2 = c2
    Users = {u1}
    Clients = {c1, c2}
    UserOf <- TwoDevices
    Roadmaps = {m1, m2, m3}
    Versions = {v1, v2, v3, v4}
    Lessons = {l1, l2}
    Tasks = {t1}
    ClientStatuses = {"COMPLETED"}
    Ops <- OneCompletesItems
SPECIFICATION Spec
SYMMETRY RoadmapSymmetry
INVARIANTS HasCurrentVersion ActiveBounded VersionTree
PROPERTY OnlyMissedReopen
