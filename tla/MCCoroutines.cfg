SPECIFICATION CoSpec
CONSTANTS
    w1 = w1  w2 = w2  n1 = n1  n2 = n2  p1 = p1  p2 = p2  c1 = c1  c2 = c2
    b1 = b1  b2 = b2  b3 = b3  r1 = r1  u1 = u1  u2 = u2  u3 = u3
    EventWaiters = {w1, w2}
    EventNotifiers = {n1, n2}
    MaxSignals = 2
    Producers = {p1, p2}
    Consumers = {c1, c2}
    Emplaces = 2
    Awaits = 2
    Parties = {b1, b2}
    Callers = {b3}
    Releasers = {r1}
    Meetings = 2
    Calm = TRUE
    Users <- MCUsers
    Kinds = 2
    Capacity <- TwoOfEach
    Request <- SameRequest
    Rounds = 1
    t1 = t1  t2 = t2  x1 = x1  x2 = x2  x3 = x3  A = A  B = B
    d1 = d1  d2 = d2  d3 = d3  d4 = d4  j1 = j1  j2 = j2
    TaskCount = 3
    Patterns <- SafePatterns
    FrameThreads = {t1, t2}
    Frames = 3
    Suspensions = 3
    Coros = {x1, x2, x3}
    SwitchWarps = {A, B}
    NoWarp = NoWarp
    Wishes <- MCWishes
    OutsidePool = {x3}
    Candidates = 3
    Routines = {d1, d2, d3, d4}
    Edges <- MCEdges
    Deferring = {d2}
    Junctions <- MCJunctions
    Slots = 2
    LateCompletion = TRUE
INVARIANT NoWakeupMissed
INVARIANT NoLostRendezvous
INVARIANT NothingDangles
 
INVARIANT QuotaConserved
INVARIANT AwaitsResult
INVARIANT MovedOnce
 
 
CHECK_DEADLOCK FALSE
