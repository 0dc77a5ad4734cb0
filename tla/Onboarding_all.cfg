SPECIFICATION Spec
CONSTANTS
    pupil = pupil
    c1 = c1
    c2 = c2
    NULL = NULL
    KEEP = KEEP
    Packs <- TwoPacks
    Instances = {1, 2}
    MaxDeaths = 1
    Students = {pupil}
    Clients = {c1, c2}
    Minutes = {600}
    Versions <- SomeVersions
    Mixes <- AllMixes
INVARIANTS WholeWhenServed ProfileAsAsked RoadmapFromPack
PROPERTY AllAnswer
CHECK_DEADLOCK FALSE
