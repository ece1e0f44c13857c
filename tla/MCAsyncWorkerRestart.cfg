SPECIFICATION FairSpec
CONSTANTS
    t1 = t1
    t2 = t2
    t3 = t3
    None = None
    W = 1
    Dup = 1
    LimitCount = 0
    SpinRounds = 1
    MaxStarts = 2
    Tasks <- MCTasks
    Roots <- MCRoots
    Child <- MCChild
    Prio <- MCBeyond
    Blocking <- MCNone
INVARIANT JoinDrains
PROPERTY JoinReturns
PROPERTY UrgentTaskRuns
CHECK_DEADLOCK FALSE
