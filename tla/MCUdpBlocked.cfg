SPECIFICATION ServicesSpec
CONSTANTS
    rr = rr  rq = rq  feed1 = feed1  feed2 = feed2
    k1 = k1  k2 = k2  k3 = k3  l1 = l1  l2 = l2  w1 = w1  w2 = w2
    Receivers = {rr}
    Repliers = {rq}
    Listens = 2
    Polls = 1
    Datagrams = 2
    QueueBound = 1
    CalmListeners = FALSE
    Topics = {"jobs", "other"}
    Feeds = {feed1, feed2}
    FeedTopic <- MCFeedTopic
    BusBound = 2
    MaxEvents = 2
    FirstJob = 3
    Submits = 2
    JobSteps <- MCJobSteps
    JobsBound = 2
    IdWidth = 5
    Tasks = {k1, k2, k3}
    RoundTrips <- MCRoundTrips
    ThreadCounts = {0, 2}
    MaxStarts = 2
    LuaCos = {l1, l2}
    LuaCalls = 2
    Workers = {w1, w2}
    Main = Main
    MaxSpins = 2
    Posts = 1
    Awaits = 0
    StoreBuffers = TRUE
    StopAtOnce = FALSE
    LuaThreads = {l1, l2}
    Addresses = {k1, k2, k3}
    LuaThreadCalls = 2
    Builds = {"yieldk", "legacy", "ngx"}
INVARIANT NginxNeverBlocked
CHECK_DEADLOCK FALSE
