SPECIFICATION Spec
CONSTANTS
    t1 = t1
    t2 = t2
    t3 = t3
    None = None
    W = 2
    Dup = 2
    LimitCount = 0
    SpinRounds = 0
    MaxStarts = 1
    Tasks <- MCTasks
    Roots <- MCRoots
    Child <- MCChild
    Prio <- MCPrio
    Blocking <- MCBlocking
INVARIANT TypeOK
INVARIANT EachTaskOnce
INVARIANT CountersExact
INVARIANT NoStrandedTask
PROPERTY RefinesTaskPool
CHECK_DEADLOCK FALSE
