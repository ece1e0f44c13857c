SPECIFICATION FairSpec
CONSTANTS
    w1 = w1
    w2 = w2
    Workers <- MCWorkers
    Main = Main
    MaxSpins = 2
    Posts = 2
    Awaits = 1
    StoreBuffers = FALSE
INVARIANT TypeOK
INVARIANT NoLostWakeup
INVARIANT NotifyCovered
PROPERTY PostsExecuted
