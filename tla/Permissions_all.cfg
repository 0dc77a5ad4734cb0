SPECIFICATION Spec
CONSTANTS
    m = m
    n = n
    s = s
    c1 = c1
    c2 = c2
    NULL = NULL
    Users <- AllUsers
    Mentors <- TwoMentors
    Clients = {c1, c2}
    Tasks = {t1}
    Evidences = {e1}
    Mixes <- AllMixes
INVARIANTS AssignerAllowed VerdictOfMentor
PROPERTIES PlanByAssigner DeletedUntouched
CHECK_DEADLOCK FALSE
