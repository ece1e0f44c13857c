----------------------------- MODULE Lifecycle -----------------------------
(***************************************************************************)
(* The life cycle of ngx_lua_cpp_t (src/src/ngx_lua_cpp.cpp): start(),     *)
(* stop(), set_async_worker() and process_events() on the main thread      *)
(* against coroutines such as sleep() or run_job() that go to the pool and *)
(* back to main_warp, some of them many times.  A coroutine keeps a plain  *)
(* pointer to the main_warp it came from.  The main thread owns main_warp  *)
(* all the time (main_warp_guard), so a coroutine it runs is in main_warp. *)
(***************************************************************************)
EXTENDS Naturals, FiniteSets

CONSTANTS
    Tasks,        \* coroutines called from Lua
    RoundTrips,   \* how often each goes to the pool and back
    ThreadCounts, \* arguments of start()
    MaxStarts     \* bound: calls of start() and of set_async_worker()

ASSUME LifecycleAssumption ==
    /\ RoundTrips \in [Tasks -> Nat \ {0}] /\ ThreadCounts \subseteq Nat /\ MaxStarts \in Nat

VARIABLES
    pool,      \* "none": not started (no task_heads); "running"; "terminated"
    threads,   \* pool threads, the main thread's slot not counted
    lifeMain,  \* where the main thread is
    warpMade,  \* number of the current main_warp
    starts,    \* calls of start() and set_async_worker() so far
    task,      \* where each coroutine is
    trips,     \* round trips left
    home       \* number of the main_warp it has a pointer to; 0 if none

lifeVars == <<pool, threads, lifeMain, warpMade, starts, task, trips, home>>

LifecycleInit ==
    /\ pool = "none" /\ threads = 0 /\ lifeMain = "idle" /\ warpMade = 1 /\ starts = 0
    /\ task = [c \in Tasks |-> "none"] /\ trips = RoundTrips
    /\ home = [c \in Tasks |-> 0]

TaskGoto(c, l) == task' = [task EXCEPT ![c] = l]
Over(c) == TaskGoto(c, "end") /\ trips' = [trips EXCEPT ![c] = 0]

\* iris_switch(nullptr): queue_task(), which executes at once in a pool that
\* has no task_heads; the coroutine is then still in main_warp and every
\* later switch of it is immediate.
LeaveFor(c) ==
    IF pool = "none" THEN Over(c) ELSE TaskGoto(c, "queued") /\ UNCHANGED trips

\* In main_warp after a round trip: the end, or the next one.
NextTrip(c) ==
    IF pool = "none" \/ trips[c] = 1 THEN Over(c)
    ELSE TaskGoto(c, "queued") /\ trips' = [trips EXCEPT ![c] = @ - 1]

\* A Lua handler calls the coroutine.
CallTask(c) ==
    /\ lifeMain = "idle" /\ task[c] = "none" /\ LeaveFor(c)
    /\ home' = [home EXCEPT ![c] = warpMade]
    /\ UNCHANGED <<pool, threads, lifeMain, warpMade, starts>>

\* A pool thread takes it; it may still do so after terminate().
Fetch(c) ==
    /\ threads > 0 /\ task[c] = "queued" /\ TaskGoto(c, "thread")
    /\ Cardinality({d \in Tasks : task[d] = "thread"}) < threads
    /\ UNCHANGED <<pool, threads, lifeMain, warpMade, starts, trips, home>>

\* ... and posts it to the main_warp it came from.
GoHome(c) ==
    /\ task[c] = "thread" /\ TaskGoto(c, "posted")
    /\ UNCHANGED <<pool, threads, lifeMain, warpMade, starts, trips, home>>

\* process_events() and the poll of stop_impl(): main_warp->poll()
PollWarp(c) ==
    /\ lifeMain \in {"idle", "drain"} /\ task[c] = "posted" /\ home[c] = warpMade
    /\ NextTrip(c) /\ UNCHANGED <<pool, threads, lifeMain, warpMade, starts, home>>

\* process_events() with no pool thread, and the poll of join(): the main
\* thread runs the pool's task.
PollWorker(c) ==
    /\ \/ lifeMain = "idle" /\ (threads = 0 \/ pool = "terminated")
       \/ lifeMain = "poll"
    /\ task[c] = "queued" /\ NextTrip(c)
    /\ UNCHANGED <<pool, threads, lifeMain, warpMade, starts, home>>

\* start(): an error while it runs; else threads, and a new main_warp
Start(n) ==
    /\ lifeMain = "idle" /\ pool # "running" /\ starts < MaxStarts /\ starts' = starts + 1
    /\ pool' = "running" /\ threads' = n /\ warpMade' = warpMade + 1
    /\ UNCHANGED <<lifeMain, task, trips, home>>

\* set_async_worker(): refused while it runs; else a new main_warp
SetAsyncWorker ==
    /\ lifeMain = "idle" /\ pool # "running" /\ starts < MaxStarts /\ starts' = starts + 1
    /\ warpMade' = warpMade + 1
    /\ UNCHANGED <<pool, threads, lifeMain, task, trips, home>>

\* stop() and the destructor: terminate()
Terminate ==
    /\ lifeMain = "idle" /\ pool = "running" /\ pool' = "terminated" /\ lifeMain' = "join"
    /\ UNCHANGED <<threads, warpMade, starts, task, trips, home>>

\* ... join(): the threads end between two tasks
ThreadsJoined ==
    /\ lifeMain = "join" /\ \A c \in Tasks : task[c] # "thread"
    /\ threads' = 0 /\ lifeMain' = "poll"
    /\ UNCHANGED <<pool, warpMade, starts, task, trips, home>>

\* Mutant: join() without its own poll
PolledOutSkipped ==
    /\ lifeMain = "poll" /\ pool' = "none" /\ lifeMain' = "drain"
    /\ UNCHANGED <<threads, warpMade, starts, task, trips, home>>

\* ... nothing is left in task_heads, which are cleared
PolledOut ==
    /\ lifeMain = "poll" /\ \A c \in Tasks : task[c] # "queued"
    /\ pool' = "none" /\ lifeMain' = "drain"
    /\ UNCHANGED <<threads, warpMade, starts, task, trips, home>>

\* Mutant: main_warp is replaced without being polled
ResetMainWarpEarly ==
    /\ lifeMain = "drain" /\ lifeMain' = "idle" /\ warpMade' = warpMade + 1
    /\ UNCHANGED <<pool, threads, starts, task, trips, home>>

\* ... main_warp is empty and replaced
ResetMainWarp ==
    /\ lifeMain = "drain" /\ \A c \in Tasks : task[c] # "posted"
    /\ lifeMain' = "idle" /\ warpMade' = warpMade + 1
    /\ UNCHANGED <<pool, threads, starts, task, trips, home>>

LifecycleSystem ==
    \/ \E c \in Tasks : Fetch(c) \/ GoHome(c) \/ PollWarp(c) \/ PollWorker(c)
    \/ ThreadsJoined \/ PolledOut \/ ResetMainWarp

LifecycleNext ==
    \/ \E c \in Tasks : CallTask(c) \/ Fetch(c) \/ GoHome(c) \/ PollWarp(c) \/ PollWorker(c)
    \/ \E n \in ThreadCounts : Start(n)
    \/ SetAsyncWorker \/ Terminate \/ ThreadsJoined \/ PolledOut \/ ResetMainWarp

LifecycleSpec ==
    LifecycleInit /\ [][LifecycleNext]_lifeVars /\ WF_lifeVars(LifecycleSystem)

(***************************************************************************)
(* The main_warp a living coroutine will be posted to exists: no start(),  *)
(* stop() or set_async_worker() replaces it while a coroutine of it is in  *)
(* the pool or on its way back.                                            *)
(***************************************************************************)
HomeOutlives ==
    \A c \in Tasks : task[c] \notin {"none", "end"} => home[c] = warpMade

\* Once stop() has returned no coroutine is left in the pool or main_warp.
StopLeavesNothing ==
    pool = "none" /\ lifeMain = "idle" => \A c \in Tasks : task[c] \in {"none", "end"}

(***************************************************************************)
(* start() and stop() never pull the main_warp away from a coroutine that  *)
(* will be posted to it, and stop() returns only when none is left in the  *)
(* pool or in main_warp.                                                   *)
(***************************************************************************)
StopsClean == HomeOutlives /\ StopLeavesNothing

\* Every coroutine called ends, and stop() returns.
TasksEnd ==
    /\ \A c \in Tasks : task[c] # "none" ~> task[c] = "end"
    /\ lifeMain # "idle" ~> lifeMain = "idle"

=============================================================================
