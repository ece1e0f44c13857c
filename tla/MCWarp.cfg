SPECIFICATION FairSpec
CONSTANTS
    r1 = r1
    r2 = r2
    r3 = r3
    r4 = r4
    r5 = r5
    None = None
    N = 3
    Externals <- MCExternal
    Routines <- MCRoutines
    Scripts <- MCOrder
    Child <- MCChild
INVARIANT OneRoutineAtATime
INVARIANT RunsOnceInOrder
INVARIANT NoRoutineStranded
PROPERTY EveryRoutineRuns
CHECK_DEADLOCK FALSE
