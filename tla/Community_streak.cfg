SPECIFICATION Spec
CONSTANTS
    a = a
    b = b
    g = g
    c1 = c1
    c2 = c2
    math = math
    NULL = NULL
    Users = {a, b}
    Clients = {c1, c2}
    Subjects = {math}
    Groups = {g}
    MaxRows = 6
    Mixes <- ChangeMixes
INVARIANT StreakIsReal
CHECK_DEADLOCK FALSE
