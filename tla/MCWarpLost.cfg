SPECIFICATION Spec
CONSTANTS
    r1 = r1
    r2 = r2
    r3 = r3
    r4 = r4
    r5 = r5
    None = None
    N = 2
    Externals <- MCNoExternal
    Routines <- MCRoutines
    Scripts <- MCLost
    Child <- MCNoChild
INVARIANT NoRoutineStranded
CHECK_DEADLOCK FALSE
