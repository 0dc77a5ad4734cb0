SPECIFICATION Spec
CONSTANTS
    m = m
    s = s
    n = n
    c1 = c1
    c2 = c2
    c3 = c3
    NULL = NULL
    Users <- AllUsers
    Newcomers <- OneNewcomer
    Mentors <- OneMentor
    Owners <- OneOwner
    Clients = {c1, c2, c3}
    Requests = {r1, r2}
    MaxVersion = 2
    Mixes <- AllMixes
INVARIANTS TypeOK RevokedSessionsEnd ConnectedIffApproved
PROPERTY AccountForward
CHECK_DEADLOCK FALSE
