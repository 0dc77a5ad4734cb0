\* One device of one user, every endpoint.
CONSTANTS
    NULL = NULL
    u1 = u1  c1 = c1  c2 = c2
    Users = {u1}
    Clients = {c1}
    UserOf <- OneDevice
    Roadmaps = {m1, m2}
    Versions = {v1, v2, v3}
    Lessons = {l1, l2}
    Tasks = {t1}
    ClientStatuses = {"PENDING", "COMPLETED"}
    Ops <- EveryEndpoint
SPECIFICATION Spec
SYMMETRY RoadmapSymmetry
PROPERTY ImplementsPlan
