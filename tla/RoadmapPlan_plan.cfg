SPECIFICATION Spec
CONSTANTS
    Goals <- SomeGoals
    Moves <- SomeMoves
    NewDays <- SomeDays
    NewWeekly <- SomeWeekly
    MaxDone = 1
    MaxReplans = 2
INVARIANTS TypeOK CoversCurriculum PhasesInOrder FitsTime
PROPERTY ReplanKeeps
CHECK_DEADLOCK FALSE
