-------------------------------- MODULE Warp --------------------------------
(***************************************************************************)
(* One warp of src/src/iris/iris_dispatcher.h (iris_warp_t, the non-strand *)
(* variant that ngx_warp_t uses): a lock-free actor whose routines run one *)
(* at a time on whatever pool thread preempts it, with routines queued in  *)
(* one buffer per thread, version barriers between them, and suspension so *)
(* that parallel routines run while no ordinary one does.                  *)
(*                                                                         *)
(* Every access to thread_warp, suspend_count, queueing, a buffer or       *)
(* parallel_task_head is one action.  The pool under the warp is what      *)
(* TaskPool promises: each queued job is taken once, by any idle thread.   *)
(***************************************************************************)
EXTENDS Integers, Sequences, FiniteSets

CONSTANTS
    N,          \* number of threads; thread i has buffer i and index i - 1
    Externals,  \* threads outside the pool (thread index ~0)
    Routines,   \* the routines that are ever queued
    None,       \* nullptr
    Scripts,    \* each gives the calls every thread makes on the warp, in order
    Child       \* Child[r]: the routine r posts to its own warp, or None

Threads == 1 .. N

\* queue_routine_post(), queue_routine(), queue_barrier(),
\* queue_routine_parallel_post(), queue_routine_parallel(), and the parallel
\* dispatch of iris_awaitable_t, which suspends the warp itself.
Kinds == {"post", "routine", "barrier", "parallel_post", "parallel", "await"}

\* Every call but queue_barrier() brings a routine.
Calls == [kind : {"barrier"}, routine : {None}]
         \cup [kind : Kinds \ {"barrier"}, routine : Routines]

ASSUME WarpAssumption ==
    /\ N \in Nat
    /\ Externals \subseteq Threads
    /\ None \notin Routines \cup Threads
    /\ Child \in [Routines -> Routines \cup {None}]
    /\ Scripts \subseteq [Threads -> Seq(Calls)]
    /\ \A s \in Scripts : \A t \in Externals : \A i \in 1 .. Len(s[t]) :
          s[t][i].kind = "post"

\* A routine is one std::function: one call or one other routine queues it.
ASSUME RoutineAssumption ==
    /\ \A s \in Scripts : \A t, u \in Threads :
          \A i \in 1 .. Len(s[t]), j \in 1 .. Len(s[u]) :
             s[t][i].routine # None /\ s[t][i].routine = s[u][j].routine => t = u /\ i = j
    /\ \A s \in Scripts : \A t \in Threads : \A i \in 1 .. Len(s[t]) :
          \A r \in Routines : Child[r] = s[t][i].routine => Child[r] = None
    /\ \A q, r \in Routines : Child[q] # None /\ Child[q] = Child[r] => q = r

VARIABLES
    owner,     \* thread_warp: the thread that has preempted the warp, or None
    suspended, \* suspend_count
    queueing,  \* "idle", "pending" or "executing"
    buffer,    \* queue_buffers, one sequence per thread
    barrierVersion, versions, current, next,   \* grid_storage_t's versions
    parallel,  \* parallel_task_head
    jobs,      \* execute_t tasks in the pool
    parJobs,   \* parallel routines in the pool
    extJobs,   \* external_t tasks in the pool
    pc, ret, after, \* labels: now, after flush(), after yield()
    todo,      \* the calls each thread has yet to make
    arg,       \* the routine a call or a step is about
    ver,       \* the version of a barrier being queued
    index, step, count, \* locals of execute_internal()
    log,       \* history: routines in the order they were executed
    fence,     \* history: routines in the buffers when a thread's last barrier began
    follows    \* history: what a routine must follow, the fence of its thread

hot == <<owner, suspended, queueing>>
grid == <<buffer, barrierVersion, versions, current, next>>
work == <<parallel, jobs, parJobs, extJobs>>
control == <<pc, ret, after, todo, arg, ver>>
local == <<index, step, count>>
history == <<log, fence, follows>>
vars == <<hot, grid, work, control, local, history>>

\* The labels: a call on the warp, flush(), yield(), execute() and
\* execute_internal(), and parallel routines.
CallPCs == {"free", "post", "version", "guard", "preempt", "recheck", "run",
            "chain", "chainpost", "link", "submit"}
FlushPCs == {"flush", "flushx", "yield", "yieldx", "resume", "resumex"}
ExecPCs == {"x0", "x1", "x2", "drain", "check", "defer", "mark", "scan", "task", "ran"}
ParPCs == {"par", "parpreempt", "pardrain", "ptask"}
PCs == CallPCs \cup FlushPCs \cup ExecPCs \cup ParPCs

Items == [routine : Routines \cup {None}, version : Nat]

\* Type invariant; suspend_count never wraps below zero.
TypeOK ==
    /\ owner \in Threads \cup {None}
    /\ suspended \in Nat
    /\ queueing \in {"idle", "pending", "executing"}
    /\ buffer \in [Threads -> Seq(Items)]
    /\ barrierVersion \in Nat /\ current \in Nat /\ next \in Nat
    /\ versions \in [Threads -> Nat]
    /\ parallel \subseteq Routines /\ parJobs \subseteq Routines
    /\ extJobs \subseteq Routines /\ jobs \in Nat
    /\ pc \in [Threads -> PCs]
    /\ ret \in [Threads -> PCs] /\ after \in [Threads -> PCs]
    /\ todo \in [Threads -> Seq(Calls)]
    /\ arg \in [Threads -> Routines \cup {None}]
    /\ ver \in [Threads -> Nat]
    /\ index \in 1 .. N + 1 /\ step \in Nat /\ count \in BOOLEAN
    /\ log \in Seq(Routines)
    /\ fence \in [Threads -> SUBSET Routines]
    /\ follows \in [Routines -> SUBSET Routines]

Init ==
    /\ owner = None /\ suspended = 0 /\ queueing = "idle"
    /\ buffer = [t \in Threads |-> << >>]
    /\ barrierVersion = 0 /\ current = 0 /\ next = 0
    /\ versions = [t \in Threads |-> 0]
    /\ parallel = {} /\ jobs = 0 /\ parJobs = {} /\ extJobs = {}
    /\ pc = [t \in Threads |-> "free"]
    /\ ret = [t \in Threads |-> "free"] /\ after = [t \in Threads |-> "free"]
    /\ todo \in Scripts
    /\ arg = [t \in Threads |-> None]
    /\ ver = [t \in Threads |-> 0]
    /\ index = 1 /\ step = 0 /\ count = FALSE
    /\ log = << >>
    /\ fence = [t \in Threads |-> {}]
    /\ follows = [r \in Routines |-> {}]

Item(r, v) == [routine |-> r, version |-> v]
Buffered == (UNION {{buffer[t][i].routine : i \in 1 .. Len(buffer[t])} : t \in Threads})
            \ {None}

Set(f, t, v) == [f EXCEPT ![t] = v]
Goto(t, l) == pc' = Set(pc, t, l)

-----------------------------------------------------------------------------
(* Calls on the warp                                                          *)

\* A thread that is not executing a job makes the next call of its script.
Call(t) ==
    LET c == Head(todo[t])
    IN  /\ pc[t] = "free" /\ todo[t] # << >>
        /\ todo' = Set(todo, t, Tail(todo[t]))
        /\ arg' = Set(arg, t, c.routine)
        /\ ver' = Set(ver, t, 0)
        /\ ret' = Set(ret, t, "free")
        /\ after' = Set(after, t, "free")
        /\ IF c.kind \in {"parallel", "parallel_post", "await"}
           THEN suspended' = suspended + 1 ELSE UNCHANGED suspended
        /\ Goto(t, CASE c.kind = "post" -> "post"
                     [] c.kind = "routine" -> "guard"
                     [] c.kind = "barrier" -> "version"
                     [] c.kind = "await" -> "submit"
                     [] c.kind = "parallel" -> "chain"
                     [] c.kind = "parallel_post" -> "chainpost")
        /\ UNCHANGED <<owner, queueing, grid, work, local, history>>

\* queue_barrier() takes a version, then posts a routine that sets it.
TakeVersion(t) ==
    /\ pc[t] = "version"
    /\ barrierVersion' = barrierVersion + 1
    /\ ver' = Set(ver, t, barrierVersion + 1)
    /\ fence' = Set(fence, t, fence[t] \cup Buffered)
    /\ Goto(t, "post")
    /\ UNCHANGED <<hot, buffer, versions, current, next, work, ret, after, todo, arg,
                   local, log, follows>>

\* queue_routine_post(): push to the thread's own buffer, then flush(); from
\* outside the pool the call itself is sent to the pool.
Post(t) ==
    /\ pc[t] = "post"
    /\ IF t \in Externals
       THEN /\ extJobs' = extJobs \cup {arg[t]}
            /\ Goto(t, ret[t])
            /\ UNCHANGED <<buffer, follows>>
       ELSE /\ buffer' = Set(buffer, t, Append(buffer[t], Item(arg[t], ver[t])))
            /\ follows' = IF arg[t] = None THEN follows
                          ELSE Set(follows, arg[t], fence[t])
            /\ Goto(t, "flush")
            /\ UNCHANGED extJobs
    /\ arg' = Set(arg, t, None)
    /\ UNCHANGED <<hot, barrierVersion, versions, current, next, parallel, jobs, parJobs,
                   ret, after, todo, ver, local, log, fence>>

\* queue_routine(): preempt_guard_t(warp, 0) reads suspend_count, preempts, and
\* reads it again.
Guard(t) ==
    /\ pc[t] = "guard"
    /\ Goto(t, IF suspended = 0 THEN "preempt" ELSE "post")
    /\ UNCHANGED <<hot, grid, work, ret, after, todo, arg, ver, local, history>>

\* Mutant of Preempt: thread_warp is stored without comparing.
PreemptStores(t, l, ok, fail) ==
    /\ pc[t] = l
    /\ owner' = t
    /\ Goto(t, ok)
    /\ UNCHANGED <<suspended, queueing, grid, work, ret, after, todo, arg, ver, local,
                   history>>

\* preempt(): compare_exchange of thread_warp.
Preempt(t, l, ok, fail) ==
    /\ pc[t] = l
    /\ IF owner = None THEN owner' = t /\ Goto(t, ok)
                       ELSE Goto(t, fail) /\ UNCHANGED owner
    /\ UNCHANGED <<suspended, queueing, grid, work, ret, after, todo, arg, ver, local,
                   history>>

\* Mutant of Recheck: suspend_count is not read again after preempting.
RecheckSkipped(t) ==
    /\ pc[t] = "recheck"
    /\ Goto(t, "run")
    /\ UNCHANGED <<hot, grid, work, ret, after, todo, arg, ver, local, history>>

\* Suspended meanwhile: the routine is posted while the guard still owns the warp.
Recheck(t) ==
    /\ pc[t] = "recheck"
    /\ IF suspended = 0 THEN Goto(t, "run") /\ UNCHANGED ret
                        ELSE Goto(t, "post") /\ ret' = Set(ret, t, "yield")
    /\ UNCHANGED <<hot, grid, work, after, todo, arg, ver, local, history>>

\* The routine t executes returns; it may have posted another one to its warp.
Execute(t, back) ==
    /\ log' = Append(log, arg[t])
    /\ arg' = Set(arg, t, Child[arg[t]])
    /\ ver' = Set(ver, t, 0)
    /\ ret' = Set(ret, t, back)
    /\ Goto(t, IF Child[arg[t]] = None THEN back ELSE "post")

Run(t) ==
    /\ pc[t] = "run"
    /\ Execute(t, "yield")
    /\ UNCHANGED <<hot, grid, work, after, todo, local, fence, follows>>

-----------------------------------------------------------------------------
(* flush(), yield() and resume()                                              *)

\* Mutant of Flush: a warp that executes is taken to see the new routine.
FlushIfIdle(t) ==
    /\ pc[t] = "flush"
    /\ Goto(t, IF queueing # "idle" THEN ret[t] ELSE "flushx")
    /\ UNCHANGED <<hot, grid, work, ret, after, todo, arg, ver, local, history>>

Flush(t) ==
    /\ pc[t] = "flush"
    /\ Goto(t, IF queueing = "pending" THEN ret[t] ELSE "flushx")
    /\ UNCHANGED <<hot, grid, work, ret, after, todo, arg, ver, local, history>>

\* Only the exchange that finds "idle" queues an execute_t.
FlushExchange(t) ==
    /\ pc[t] = "flushx"
    /\ queueing' = "pending"
    /\ jobs' = IF queueing = "idle" THEN jobs + 1 ELSE jobs
    /\ Goto(t, ret[t])
    /\ UNCHANGED <<owner, suspended, grid, parallel, parJobs, extJobs, ret, after, todo,
                   arg, ver, local, history>>

Yield(t) ==
    /\ pc[t] = "yield"
    /\ owner' = None
    /\ Goto(t, "yieldx")
    /\ UNCHANGED <<suspended, queueing, grid, work, ret, after, todo, arg, ver, local,
                   history>>

\* Mutant of ExchangeIdle: the old state is not looked at.
StoreIdle(t, l, l2) ==
    /\ pc[t] = l
    /\ queueing' = "idle"
    /\ Goto(t, l2)
    /\ UNCHANGED <<owner, suspended, grid, work, ret, after, todo, arg, ver, local, history>>

\* queueing.exchange(idle): whoever finds "pending" flushes, then goes on at l2.
ExchangeIdle(t, l, l2) ==
    /\ pc[t] = l
    /\ queueing' = "idle"
    /\ IF queueing = "pending" THEN Goto(t, "flush") /\ ret' = Set(ret, t, l2)
                               ELSE Goto(t, l2) /\ UNCHANGED ret
    /\ UNCHANGED <<owner, suspended, grid, work, after, todo, arg, ver, local, history>>

\* Only the last resume() goes on to flush.
Resume(t) ==
    /\ pc[t] = "resume"
    /\ suspended' = suspended - 1
    /\ Goto(t, IF suspended = 1 THEN "resumex" ELSE "free")
    /\ UNCHANGED <<owner, queueing, grid, work, ret, after, todo, arg, ver, local, history>>

-----------------------------------------------------------------------------
(* execute(), run by the pool for each execute_t                              *)

TakeJob(t) ==
    /\ pc[t] = "free" /\ t \notin Externals /\ jobs > 0
    /\ jobs' = jobs - 1
    /\ after' = Set(after, t, "par")
    /\ Goto(t, "x0")
    /\ UNCHANGED <<hot, grid, parallel, parJobs, extJobs, ret, todo, arg, ver, local, history>>

\* external_t calls queue_routine() on the pool thread.
TakeExternal(t) ==
    /\ pc[t] = "free" /\ t \notin Externals
    /\ \E r \in extJobs : /\ extJobs' = extJobs \ {r}
                          /\ arg' = Set(arg, t, r)
    /\ ver' = Set(ver, t, 0)
    /\ ret' = Set(ret, t, "free")
    /\ after' = Set(after, t, "free")
    /\ Goto(t, "guard")
    /\ UNCHANGED <<hot, grid, parallel, jobs, parJobs, todo, local, history>>

\* is_suspended() and the first test of preempt_guard_t(warp, 0).
ExecuteGuard(t) ==
    /\ pc[t] = "x0"
    /\ Goto(t, IF suspended = 0 THEN "x1" ELSE "par")
    /\ UNCHANGED <<hot, grid, work, ret, after, todo, arg, ver, local, history>>

ExecuteRecheck(t) ==
    /\ pc[t] = "x2"
    /\ Goto(t, IF suspended = 0 THEN "drain" ELSE "yield")
    /\ UNCHANGED <<hot, grid, work, ret, after, todo, arg, ver, local, history>>

\* execute_parallel(): move chained parallel routines to the pool until none is left.
ExecuteParallel(t, l, l2) ==
    /\ pc[t] = l
    /\ parallel' = {}
    /\ parJobs' = parJobs \cup parallel
    /\ Goto(t, IF parallel = {} THEN l2 ELSE l)
    /\ UNCHANGED <<hot, grid, jobs, extJobs, ret, after, todo, arg, ver, local, history>>

DoubleCheck(t) ==
    /\ pc[t] = "check"
    /\ Goto(t, IF suspended = 0 THEN "mark" ELSE "defer")
    /\ UNCHANGED <<hot, grid, work, ret, after, todo, arg, ver, local, history>>

Defer(t) ==
    /\ pc[t] = "defer"
    /\ queueing' = "pending"
    /\ Goto(t, "yield")
    /\ UNCHANGED <<owner, suspended, grid, work, ret, after, todo, arg, ver, local, history>>

\* execute_internal(): mark as executing, then pass over the buffers until a pass
\* executes nothing.
Mark(t) ==
    /\ pc[t] = "mark"
    /\ queueing' = "executing"
    /\ index' = 1 /\ step' = current /\ count' = FALSE
    /\ next' = versions[1]
    /\ Goto(t, "scan")
    /\ UNCHANGED <<owner, suspended, buffer, barrierVersion, versions, current, work, ret,
                   after, todo, arg, ver, history>>

\* Mutant of Eligible: versions are ignored.
EligibleAnyVersion == buffer[index] # << >>

\* The buffer at index may be read: no barrier holds it back.
Eligible == current >= versions[index] /\ buffer[index] # << >>

\* Mutant of Pop: the routine is called before it is popped.
PopAfterCall(t) ==
    /\ pc[t] = "scan" /\ index <= N /\ Eligible
    /\ arg' = Set(arg, t, Head(buffer[index]).routine)
    /\ ver' = Set(ver, t, Head(buffer[index]).version)
    /\ Goto(t, "task")
    /\ UNCHANGED <<hot, grid, work, ret, after, todo, local, history>>

Pop(t) ==
    /\ pc[t] = "scan" /\ index <= N /\ Eligible
    /\ arg' = Set(arg, t, Head(buffer[index]).routine)
    /\ ver' = Set(ver, t, Head(buffer[index]).version)
    /\ buffer' = Set(buffer, index, Tail(buffer[index]))
    /\ Goto(t, "task")
    /\ UNCHANGED <<hot, barrierVersion, versions, current, next, work, ret, after, todo,
                   local, history>>

NextBuffer(t) ==
    /\ pc[t] = "scan" /\ index <= N /\ ~Eligible
    /\ step' = IF current + 1 = versions[index] THEN versions[index] ELSE step
    /\ versions' = IF current > versions[index] THEN Set(versions, index, current)
                                                ELSE versions
    /\ index' = index + 1
    /\ next' = IF index < N THEN versions[index + 1] ELSE next
    /\ UNCHANGED <<hot, buffer, barrierVersion, current, work, control, count, history>>

EndPass(t) ==
    /\ pc[t] = "scan" /\ index = N + 1
    /\ current' = step
    /\ index' = 1 /\ count' = FALSE
    /\ next' = versions[1]
    /\ Goto(t, IF count THEN "scan" ELSE "yield")
    /\ UNCHANGED <<hot, buffer, barrierVersion, versions, work, ret, after, todo, arg, ver,
                   step, history>>

\* execute_task(): a routine, or the routine of a barrier.
Task(t) ==
    /\ pc[t] = "task"
    /\ \/ /\ arg[t] = None
          /\ next' = ver[t]
          /\ Goto(t, "ran")
          /\ UNCHANGED <<ret, arg, ver, log>>
       \/ /\ arg[t] # None
          /\ Execute(t, "ran")
          /\ UNCHANGED next
    /\ UNCHANGED <<hot, buffer, barrierVersion, versions, current, work, after, todo, local,
                   fence, follows>>

\* Leave at once when the warp was suspended during the routine.
Ran(t) ==
    /\ pc[t] = "ran"
    /\ versions' = Set(versions, index, next)
    /\ count' = TRUE
    /\ Goto(t, IF suspended = 0 THEN "scan" ELSE "yield")
    /\ UNCHANGED <<hot, buffer, barrierVersion, current, next, work, ret, after, todo, arg,
                   ver, index, step, history>>

\* "always try to execute parallel tasks": with preempt_guard_t(warp, ~0).
TryParallel(t) ==
    /\ pc[t] = "par"
    /\ Goto(t, IF parallel = {} THEN "free" ELSE "parpreempt")
    /\ after' = Set(after, t, "free")
    /\ UNCHANGED <<hot, grid, work, ret, todo, arg, ver, local, history>>

-----------------------------------------------------------------------------
(* Parallel routines                                                          *)

\* queue_routine_parallel_internal(), suspended by the call: nobody owns the warp,
\* so execute here or on the pool; otherwise chain the routine for the owner.
Chain(t) ==
    /\ pc[t] \in {"chain", "chainpost"}
    /\ \/ /\ owner = None /\ pc[t] = "chain"
          /\ Goto(t, "ptask")
          /\ UNCHANGED parJobs
       \/ /\ owner = None /\ pc[t] = "chainpost"
          /\ parJobs' = parJobs \cup {arg[t]}
          /\ Goto(t, "free")
       \/ /\ owner # None
          /\ Goto(t, "link")
          /\ UNCHANGED parJobs
    /\ UNCHANGED <<hot, grid, parallel, jobs, extJobs, ret, after, todo, arg, ver, local,
                   history>>

\* Mutant of Link: suspend_guard_t is not cleaned up and resumes the warp as well.
LinkKeepsGuard(t) ==
    /\ pc[t] = "link"
    /\ parallel' = parallel \cup {arg[t]}
    /\ ret' = Set(ret, t, "resume")
    /\ Goto(t, "flush")
    /\ UNCHANGED <<hot, grid, jobs, parJobs, extJobs, after, todo, arg, ver, local, history>>

Link(t) ==
    /\ pc[t] = "link"
    /\ parallel' = parallel \cup {arg[t]}
    /\ Goto(t, "flush")
    /\ UNCHANGED <<hot, grid, jobs, parJobs, extJobs, ret, after, todo, arg, ver, local,
                   history>>

\* iris_awaitable_t::dispatch() with a parallel priority: suspended by the call,
\* queued to the pool whoever owns the warp.
Submit(t) ==
    /\ pc[t] = "submit"
    /\ parJobs' = parJobs \cup {arg[t]}
    /\ Goto(t, "free")
    /\ UNCHANGED <<hot, grid, parallel, jobs, extJobs, ret, after, todo, arg, ver, local,
                   history>>

TakeParallel(t) ==
    /\ pc[t] = "free" /\ t \notin Externals
    /\ \E r \in parJobs : /\ parJobs' = parJobs \ {r}
                          /\ arg' = Set(arg, t, r)
    /\ Goto(t, "ptask")
    /\ UNCHANGED <<hot, grid, parallel, jobs, extJobs, ret, after, todo, ver, local, history>>

ParallelTask(t) ==
    /\ pc[t] = "ptask"
    /\ log' = Append(log, arg[t])
    /\ arg' = Set(arg, t, None)
    /\ Goto(t, "resume")
    /\ UNCHANGED <<hot, grid, work, ret, after, todo, ver, local, fence, follows>>

-----------------------------------------------------------------------------
Step(t) ==
    \/ Post(t) \/ TakeVersion(t) \/ Guard(t) \/ Recheck(t) \/ Run(t)
    \/ Preempt(t, "preempt", "recheck", "post")
    \/ Flush(t) \/ FlushExchange(t)
    \/ Yield(t) \/ ExchangeIdle(t, "yieldx", after[t])
    \/ Resume(t) \/ ExchangeIdle(t, "resumex", "free")
    \/ TakeJob(t) \/ TakeExternal(t)
    \/ ExecuteGuard(t) \/ Preempt(t, "x1", "x2", "par") \/ ExecuteRecheck(t)
    \/ ExecuteParallel(t, "drain", "check") \/ DoubleCheck(t) \/ Defer(t)
    \/ Mark(t) \/ Pop(t) \/ NextBuffer(t) \/ EndPass(t) \/ Task(t) \/ Ran(t)
    \/ TryParallel(t) \/ Preempt(t, "parpreempt", "pardrain", "free")
    \/ ExecuteParallel(t, "pardrain", "yield")
    \/ Chain(t) \/ Link(t) \/ Submit(t) \/ TakeParallel(t) \/ ParallelTask(t)

Next == \E t \in Threads : Call(t) \/ Step(t)

Spec == Init /\ [][Next]_vars

\* Every pool thread keeps running and takes jobs.
FairSpec == Spec /\ \A t \in Threads : WF_vars(Step(t))

-----------------------------------------------------------------------------
(* Properties                                                                *)

\* Threads inside an ordinary routine of the warp, inside a parallel one, and the
\* routines iris_awaitable_t dispatched, which do not look at the owner.
Inside == {t \in Threads : pc[t] \in {"run", "task"}}
Parallel == {t \in Threads : pc[t] = "ptask"}
Awaited == {r \in Routines : \E s \in Scripts : \E t \in Threads : \E i \in 1 .. Len(s[t]) :
                                 s[t][i] = [kind |-> "await", routine |-> r]}

\* The warp is an actor: two of its routines never run at the same time, whichever
\* of queue_routine() and execute() preempted it, and only its owner runs one.
OneRoutineAtATime ==
    /\ Cardinality(Inside) <= 1
    /\ \A t \in Inside : owner = t

\* queue_routine_parallel() is a read lock on the warp: while such a routine runs
\* no ordinary routine does, although the two sides only look at each other's
\* atomic (suspend_count, thread_warp) and never take a lock.
ParallelExcludesRoutines ==
    \A t \in Parallel : arg[t] \in Awaited \/ Inside = {}

\* A routine queued after a barrier is executed after every routine that was in a
\* buffer of any thread when the barrier was queued.
BarrierOrder ==
    \A i \in 1 .. Len(log) : \A r \in follows[log[i]] :
        \E j \in 1 .. i - 1 : log[j] = r

\* Each routine runs at most once.
RunsOnce == \A i, j \in 1 .. Len(log) : log[i] = log[j] => i = j

(***************************************************************************)
(* Over the per-thread buffers and their versions each routine runs at     *)
(* most once, and after every routine that a barrier put before it.        *)
(***************************************************************************)
RunsOnceInOrder == RunsOnce /\ BarrierOrder

\* Everything the threads and the pool had to do is done.
Quiescent ==
    /\ \A t \in Threads : pc[t] = "free" /\ todo[t] = << >>
    /\ jobs = 0 /\ parJobs = {} /\ extJobs = {}

\* No routine is forgotten: when nothing is left to do, no routine is left in a
\* buffer or in the parallel chain, the warp is free and every suspension was
\* resumed.  A flush that only marked "pending" was seen by the owner.
NoRoutineStranded ==
    Quiescent => /\ \A t \in Threads : buffer[t] = << >>
                 /\ parallel = {}
                 /\ owner = None /\ suspended = 0

\* Every routine a call or another routine has queued is executed in the end.
EveryRoutineRuns ==
    \A r \in Routines :
        (\E t \in Threads : arg[t] = r) ~> (\E j \in 1 .. Len(log) : log[j] = r)
=============================================================================
