SPECIFICATION Spec
CONSTANTS
    r1 = r1
    r2 = r2
    r3 = r3
    r4 = r4
    r5 = r5
    None = None
    N = 2
    Externals <- MCNoExternal
    Routines <- MCRoutines
    Scripts <- MCParallel
    Child <- MCNoChild
INVARIANT TypeOK
INVARIANT ParallelExcludesRoutines
CHECK_DEADLOCK FALSE
