---------------------------- MODULE AsyncWorker ----------------------------
(***************************************************************************)
(* The thread pool iris_async_worker_t (src/src/iris/iris_dispatcher.h):   *)
(* lock-free task heads, the take / put-back protocol of                   *)
(* poll_one_internal(), the park / wake protocol of delay() and            *)
(* wakeup_one_with_priority(), and terminate() / join().                   *)
(*                                                                         *)
(* Every write to an atomic, every read of a task head and every test that *)
(* decides to park or to wake is an action of its own, so any two threads  *)
(* may interleave between two of them; the reads of `terminated',          *)
(* task_count and waiting_thread_count at the head of a loop are taken     *)
(* with the step that acts on them.  Atomics are sequentially consistent:  *)
(* the pushes are locked instructions and delay() fences before it parks.  *)
(* The build is C++20 (IRIS_ATOMIC_WAIT = 1).                              *)
(*                                                                         *)
(* A task head is the sequence of tasks its linked list holds, the head    *)
(* of the list first.  The load + compare_exchange loop that pushes a node *)
(* is one action: a failed exchange only retries with the newer head.      *)
(***************************************************************************)
EXTENDS Integers, Sequences, FiniteSets

CONSTANTS
    W,           \* internal_thread_count, the threads start() creates
    Dup,         \* task_head_duplicate_count
    LimitCount,  \* limit_count
    SpinRounds,  \* delay_spin_rounds
    MaxStarts,   \* bound: how often the owner calls start()
    Tasks,       \* the tasks that are ever queued, each at most once
    None,        \* nullptr
    Roots,       \* tasks the owner thread queues
    Child,       \* Child[t]: the task t queues while it executes, or None
    Prio,        \* Prio[t]: the priority t is queued with
    Blocking     \* tasks whose callback may block forever (a blocking recv)

ASSUME PoolAssumption ==
    /\ W \in Nat
    /\ Dup \in Nat \ {0}
    /\ LimitCount \in Nat
    /\ SpinRounds \in Nat
    /\ MaxStarts \in Nat

ASSUME TaskAssumption ==
    /\ None \notin Tasks
    /\ Roots \subseteq Tasks
    /\ Blocking \subseteq Tasks
    /\ Child \in [Tasks -> Tasks \cup {None}]
    /\ Prio \in [Tasks -> Nat]

(***************************************************************************)
(* threads[0 .. W-1] are internal; ngx_lua_cpp_t::start() appends one      *)
(* dummy entry for the main thread, which owns the pool.                   *)
(***************************************************************************)
Workers == 0 .. W - 1
Main == W
Actors == 0 .. W
ThreadCount == W + 1

MinOf(m, n) == IF m <= n THEN m ELSE n

\* task_heads[n + k * thread_count] is Slot <<n, k>>: priority n, duplicate k.
Slots == (0 .. ThreadCount - 1) \X (0 .. Dup - 1)
EmptyHeads == [s \in Slots |-> << >>]

\* The index a thread scans from; a foreign thread (~0) counts as 0.
ThreadIndex(a) == IF a = Main THEN 0 ELSE a

\* Mutant of Clamp: the bound is taken for the last priority.
ClampPastEnd(p) == MinOf(p, W)

\* The priority queue_task() clamps to.
Clamp(p) == MinOf(p, (IF W = 0 THEN 1 ELSE W) - 1)

VARIABLES
    heads,       \* task_heads, each a chain
    live,        \* task_heads is not empty: between start() and the end of join()
    starts,      \* how often start() was called
    terminated, running, waiting, taskCount,   \* the atomics
    pc,          \* where each actor is
    ret,         \* where it goes on when queue_task() or a wakeup returns
    at,          \* loop position of a scan over task heads
    view,        \* priority_size of a fetch
    slot,        \* the slot a poll found, or a push went to
    hold,        \* tasks an actor has detached and will execute, the next one first
    org,         \* nodes poll_one_internal() found in a head it put back
    item,        \* the task an actor is placing in queue_task()
    spins,       \* delay(): spin rounds
    fresh,       \* threads that read wake_epoch and would find it unchanged
    dirty,       \* poll() has found a task in this pass
    created,     \* history: tasks new_task() has counted
    runs,        \* history: how often each task was executed
    done         \* history: tasks whose execution has finished

counters == <<terminated, running, waiting, taskCount>>
scan == <<at, view, slot>>
chains == <<heads, hold, org, item>>
parking == <<spins, fresh>>
history == <<created, runs, done>>
pool == <<live, starts, dirty>>
vars == <<counters, scan, chains, parking, history, pool, pc, ret>>

\* The labels of an actor: inside poll_one(), inside delay(), inside queue_task()
\* and wakeup_one(), executing a task, and the owner's terminate() and join().
PollPCs == {"fetch", "take", "putback", "repush", "look", "lookfetch", "leave", "miss"}
DelayPCs == {"d0", "d1", "spin", "d2", "epoch", "recheck", "d3", "wait", "asleep", "unreg"}
QueuePCs == {"queue", "cas", "chain", "late"}
WakePCs == {"gate", "bump", "notify"}
ExecPCs == {"exec", "finish"}
JoinPCs == {"bumpall", "notifyall", "join", "drain"}
PCs == {"idle", "exited", "loop", "delay"} \cup PollPCs \cup DelayPCs
       \cup QueuePCs \cup WakePCs \cup ExecPCs \cup JoinPCs

\* Type invariant.  The bounds on view and at say that no scan reads a task head
\* outside its row of task_heads.
TypeOK ==
    /\ heads \in [Slots -> Seq(Tasks)]
    /\ live \in BOOLEAN /\ dirty \in BOOLEAN /\ terminated \in BOOLEAN
    /\ starts \in 0 .. MaxStarts
    /\ running \in Int /\ waiting \in Int /\ taskCount \in Int
    /\ pc \in [Actors -> PCs]
    /\ ret \in [Actors -> {"idle", "exec", "finish"}]
    /\ at \in [Actors -> 0 .. ThreadCount * Dup]
    /\ view \in [Actors -> 0 .. ThreadCount]
    /\ slot \in [Actors -> Slots]
    /\ hold \in [Actors -> Seq(Tasks)]
    /\ org \in [Actors -> Seq(Tasks)]
    /\ item \in [Actors -> Tasks \cup {None}]
    /\ spins \in [Actors -> Nat]
    /\ fresh \in SUBSET Workers
    /\ created \in SUBSET Tasks /\ done \in SUBSET Tasks
    /\ runs \in [Tasks -> Nat]

Init ==
    /\ heads = EmptyHeads
    /\ live = FALSE /\ dirty = FALSE /\ terminated = TRUE
    /\ starts = 0
    /\ running = 0 /\ waiting = 0 /\ taskCount = 0
    /\ pc = [a \in Actors |-> IF a = Main THEN "idle" ELSE "exited"]
    /\ ret = [a \in Actors |-> "idle"]
    /\ at = [a \in Actors |-> 0]
    /\ view = [a \in Actors |-> 0]
    /\ slot = [a \in Actors |-> <<0, 0>>]
    /\ hold = [a \in Actors |-> << >>]
    /\ org = [a \in Actors |-> << >>]
    /\ item = [a \in Actors |-> None]
    /\ spins = [a \in Actors |-> 0]
    /\ fresh = {}
    /\ created = {} /\ done = {}
    /\ runs = [t \in Tasks |-> 0]

Goto(a, l) == pc' = [pc EXCEPT ![a] = l]
Set(f, a, v) == [f EXCEPT ![a] = v]

-----------------------------------------------------------------------------
(* fetch(priority_size): scan the duplicates from the thread's own one, and  *)
(* in each the priorities below priority_size; one atomic load per step.     *)

FetchSlot(a) ==
    <<at[a] % view[a], (at[a] \div view[a] + ThreadIndex(a)) % Dup>>

StartFetch(a, size, l) ==
    /\ view' = Set(view, a, size)
    /\ at' = Set(at, a, 0)
    /\ Goto(a, l)
    /\ UNCHANGED slot

\* The scan at label l goes on at label hit when a head is not empty, else at
\* miss.  Only the scan of poll_one_internal() uses the slot it finds.
Fetch(a, l, hit, miss) ==
    /\ pc[a] = l
    /\ \/ /\ at[a] >= view[a] * Dup
          /\ Goto(a, miss)
          /\ at' = Set(at, a, 0)
          /\ UNCHANGED slot
       \/ /\ at[a] < view[a] * Dup
          /\ heads[FetchSlot(a)] = << >>
          /\ at' = Set(at, a, at[a] + 1)
          /\ UNCHANGED <<pc, slot>>
       \/ /\ at[a] < view[a] * Dup
          /\ heads[FetchSlot(a)] # << >>
          /\ Goto(a, hit)
          /\ at' = Set(at, a, 0)
          /\ slot' = IF l = "fetch" THEN Set(slot, a, FetchSlot(a)) ELSE slot
    /\ view' = IF l # "fetch" /\ pc'[a] # l THEN Set(view, a, 0) ELSE view
    /\ UNCHANGED <<counters, chains, parking, history, pool, ret>>

-----------------------------------------------------------------------------
(* queue(): new_task() counts the task, then queue_task() places it.  The     *)
(* priority_task_handler of ngx_lua_cpp_t filters only tasks of priority ~0   *)
(* (its threshold is 0); the tasks here have ordinary priorities.             *)

NewTask(a, t, back) ==
    /\ item' = Set(item, a, t)
    /\ created' = created \cup {t}
    /\ taskCount' = taskCount + 1
    /\ ret' = Set(ret, a, back)
    /\ Goto(a, "queue")

\* queue_task(): the test of `terminated' and of task_heads.empty().
QueueTask(a) ==
    /\ pc[a] = "queue"
    /\ Goto(a, IF ~terminated THEN "cas" ELSE IF live THEN "late" ELSE "exec")
    /\ at' = IF terminated THEN at ELSE Set(at, a, 0)
    \* not started: execute_task() at once, nested in whatever a executes
    /\ IF terminated /\ ~live
       THEN /\ hold' = Set(hold, a, <<item[a]>> \o hold[a])
            /\ item' = Set(item, a, None)
       ELSE UNCHANGED <<hold, item>>
    /\ UNCHANGED <<counters, view, slot, heads, org, parking, history, pool, ret>>

\* Mutant of Push: the old head is not linked behind the new node.
PushOverwrites(a, s, back) ==
    /\ heads' = [heads EXCEPT ![s] = <<item[a]>>]
    /\ item' = Set(item, a, None)
    /\ slot' = Set(slot, a, s)
    /\ Goto(a, back)
    /\ UNCHANGED <<hold, org>>

Push(a, s, back) ==
    /\ heads' = [heads EXCEPT ![s] = <<item[a]>> \o @]
    /\ item' = Set(item, a, None)
    /\ slot' = Set(slot, a, s)
    /\ Goto(a, back)
    /\ UNCHANGED <<hold, org>>

\* compare_exchange_strong(nullptr, task) on the next duplicate.
QueueCas(a) ==
    LET s == <<Clamp(Prio[item[a]]), (at[a] + ThreadIndex(a)) % Dup>>
    IN  /\ pc[a] = "cas"
        /\ \/ /\ heads[s] = << >>
              /\ Push(a, s, "gate")
              /\ at' = Set(at, a, 0)
           \/ /\ heads[s] # << >>
              /\ at' = Set(at, a, IF at[a] = Dup - 1 THEN 0 ELSE at[a] + 1)
              /\ Goto(a, IF at[a] = Dup - 1 THEN "chain" ELSE "cas")
              /\ UNCHANGED <<chains, slot>>
        /\ UNCHANGED <<counters, view, parking, history, pool, ret>>

\* All full: chain to the duplicate whose node is farthest in memory, which may
\* be any of them.
QueueChain(a) ==
    /\ pc[a] = "chain"
    /\ \E k \in 0 .. Dup - 1 : Push(a, <<Clamp(Prio[item[a]]), k>>, "gate")
    /\ UNCHANGED <<counters, at, view, parking, history, pool, ret>>

\* Terminate requested: chain to task_heads[0], nobody is woken.
QueueLate(a) ==
    /\ pc[a] = "late"
    /\ Push(a, <<0, 0>>, ret[a])
    /\ UNCHANGED <<counters, at, view, parking, history, pool, ret>>

-----------------------------------------------------------------------------
(* wakeup_one_with_priority() and wakeup_one().  The priority is the one of   *)
(* the slot pushed to, or polled from.                                       *)

WakeWorthwhile(a) == waiting > slot[a][1] + LimitCount

WakeGate(a) ==
    /\ pc[a] = "gate"
    /\ IF WakeWorthwhile(a) THEN Goto(a, "bump") /\ UNCHANGED slot
                            ELSE Goto(a, ret[a]) /\ slot' = Set(slot, a, <<0, 0>>)
    /\ UNCHANGED <<counters, at, view, chains, parking, history, pool, ret>>

\* wake_epoch.fetch_add(1).
BumpEpoch(a, l, next) ==
    /\ pc[a] = l
    /\ fresh' = {}
    /\ Goto(a, next)
    /\ UNCHANGED <<counters, scan, chains, spins, history, pool, ret>>

Asleep == {w \in Workers : pc[w] = "asleep"}

\* notify_one(): some sleeper leaves the kernel and compares the epoch again.
NotifyOne(a) ==
    /\ pc[a] = "notify"
    /\ \/ /\ Asleep = {}
          /\ Goto(a, ret[a])
       \/ \E w \in Asleep : pc' = [pc EXCEPT ![a] = ret[a], ![w] = "wait"]
    /\ slot' = Set(slot, a, <<0, 0>>)
    /\ UNCHANGED <<counters, at, view, chains, parking, history, pool, ret>>

NotifyAll(a) ==
    /\ pc[a] = "notifyall"
    /\ pc' = [b \in Actors |-> IF b = a THEN "join"
                               ELSE IF b \in Asleep THEN "wait" ELSE pc[b]]
    /\ UNCHANGED <<counters, scan, chains, parking, history, pool, ret>>

-----------------------------------------------------------------------------
(* thread_loop(), poll_one() and poll_one_internal()                          *)

\* Mutant of PrioritySize: no lower clamp, one row too many.
PrioritySizePlusOne(inv) == ThreadCount + 1 - inv

\* poll_one(): the k-th concurrent poller sees the priorities below this.
PrioritySize(inv) == ThreadCount + 1 - MinOf(inv + 1, ThreadCount)

ThreadLoop(w) ==
    /\ pc[w] = "loop"
    /\ \/ /\ terminated
          /\ Goto(w, "exited")
          /\ UNCHANGED <<counters, scan>>
       \/ /\ ~terminated
          /\ running' = running + 1
          /\ StartFetch(w, PrioritySize(running), "fetch")
          /\ UNCHANGED <<terminated, waiting, taskCount>>
    /\ UNCHANGED <<chains, parking, history, pool, ret>>

\* Mutant of Take: the head is loaded, not exchanged.
TakeLoads(w) ==
    /\ pc[w] = "take"
    /\ hold' = Set(hold, w, heads[slot[w]])
    /\ Goto(w, IF heads[slot[w]] = << >> THEN "leave" ELSE "putback")
    /\ UNCHANGED <<counters, scan, heads, org, item, parking, history, pool, ret>>

\* task_head.exchange(nullptr): detach the whole chain; another thread may have
\* been faster.
Take(w) ==
    /\ pc[w] = "take"
    /\ hold' = Set(hold, w, heads[slot[w]])
    /\ heads' = [heads EXCEPT ![slot[w]] = << >>]
    /\ Goto(w, IF heads[slot[w]] = << >> THEN "leave" ELSE "putback")
    /\ UNCHANGED <<counters, scan, org, item, parking, history, pool, ret>>

\* Mutant of PutBack: the rest is stored, what was pushed meanwhile is dropped.
PutBackStores(w) ==
    /\ pc[w] = "putback"
    /\ heads' = [heads EXCEPT ![slot[w]] = Tail(hold[w])]
    /\ hold' = Set(hold, w, <<Head(hold[w])>>)
    /\ ret' = Set(ret, w, "exec")
    /\ Goto(w, "look")
    /\ UNCHANGED <<counters, scan, org, item, parking, history, pool>>

\* task_head.exchange(task->next): keep the first task, put the others back, and
\* get what was pushed in between.
PutBack(w) ==
    /\ pc[w] = "putback"
    /\ org' = Set(org, w, heads[slot[w]])
    /\ heads' = [heads EXCEPT ![slot[w]] = Tail(hold[w])]
    /\ hold' = Set(hold, w, <<Head(hold[w])>>)
    /\ ret' = Set(ret, w, "exec")
    /\ Goto(w, IF heads[slot[w]] = << >> THEN "look" ELSE "repush")
    /\ UNCHANGED <<counters, scan, item, parking, history, pool>>

\* Return the nodes found, one push each, then wake a waiter.
Repush(w) ==
    /\ pc[w] = "repush"
    /\ heads' = [heads EXCEPT ![slot[w]] = <<Head(org[w])>> \o @]
    /\ org' = Set(org, w, Tail(org[w]))
    /\ Goto(w, IF Tail(org[w]) = << >> THEN "gate" ELSE "repush")
    /\ UNCHANGED <<counters, scan, hold, item, parking, history, pool, ret>>

\* Nothing was pushed in between: wake a waiter only if more tasks are in view.
Look(w) ==
    /\ pc[w] = "look"
    /\ IF WakeWorthwhile(w) THEN StartFetch(w, view[w], "lookfetch")
                            ELSE Goto(w, "exec") /\ UNCHANGED scan
    /\ UNCHANGED <<counters, chains, parking, history, pool, ret>>

\* Mutant of LeavePoll: no guard, so the path that found nothing keeps the count.
LeavePollUnguarded(w, l, next) ==
    /\ pc[w] = l
    /\ running' = IF l = "leave" THEN running - 1 ELSE running
    /\ view' = Set(view, w, 0)
    /\ slot' = Set(slot, w, <<0, 0>>)
    /\ ret' = Set(ret, w, "idle")
    /\ Goto(w, next)
    /\ UNCHANGED <<terminated, waiting, taskCount, at, chains, parking, history, pool>>

\* running_guard_t: poll_one() returns true, or false and the thread delays.
LeavePoll(w, l, next) ==
    /\ pc[w] = l
    /\ running' = running - 1
    /\ view' = Set(view, w, 0)
    /\ slot' = Set(slot, w, <<0, 0>>)
    /\ ret' = Set(ret, w, "idle")
    /\ Goto(w, next)
    /\ UNCHANGED <<terminated, waiting, taskCount, at, chains, parking, history, pool>>

-----------------------------------------------------------------------------
(* execute_task(): the callback runs and may queue another task; then         *)
(* poll_guard_t frees the task and counts it off.                             *)

Exec(a) ==
    LET t == Head(hold[a])
    IN  /\ pc[a] = "exec"
        /\ runs' = [runs EXCEPT ![t] = @ + 1]
        /\ IF Child[t] # None /\ Child[t] \notin created
           THEN /\ NewTask(a, Child[t], "finish")
                /\ UNCHANGED <<heads, hold, org>>
           ELSE /\ Goto(a, "finish")
                /\ UNCHANGED <<chains, created, taskCount, ret>>
        /\ UNCHANGED <<terminated, running, waiting, scan, parking, done, pool>>

\* Where the owner goes on: in the next slot or with the next task of a chain
\* poll() detached, or in the caller of a task queue_task() executed at once.
AfterOwnTask ==
    IF Tail(hold[Main]) = << >> THEN IF live THEN "drain" ELSE "idle"
                                ELSE IF live THEN "exec" ELSE "finish"

Finish(a) ==
    /\ pc[a] = "finish"
    /\ taskCount' = taskCount - 1
    /\ done' = done \cup {Head(hold[a])}
    /\ hold' = Set(hold, a, Tail(hold[a]))
    /\ Goto(a, IF a = Main THEN AfterOwnTask ELSE "leave")
    /\ UNCHANGED <<terminated, running, waiting, scan, heads, org, item,
                   parking, created, runs, pool, ret>>

-----------------------------------------------------------------------------
(* delay(): register in waiting_thread_count, spin, then park on the epoch.   *)

DelayEnter(w) ==
    /\ pc[w] = "delay"
    /\ \/ /\ terminated
          /\ Goto(w, "loop")
          /\ UNCHANGED <<counters, spins>>
       \/ /\ ~terminated
          /\ waiting' = waiting + 1
          /\ spins' = Set(spins, w, 0)
          /\ Goto(w, "d0")
          /\ UNCHANGED <<terminated, running, taskCount>>
    /\ UNCHANGED <<scan, chains, fresh, history, pool, ret>>

\* The head of the spin loop.
DelayLoop(w) ==
    /\ pc[w] = "d0"
    /\ IF terminated THEN Goto(w, "unreg") /\ UNCHANGED scan
       ELSE IF taskCount # 0 THEN StartFetch(w, waiting, "d1")
       ELSE Goto(w, "spin") /\ UNCHANGED scan
    /\ UNCHANGED <<counters, chains, parking, history, pool, ret>>

DelaySpin(w) ==
    /\ pc[w] = "spin"
    /\ \/ /\ spins[w] < SpinRounds
          /\ spins' = Set(spins, w, spins[w] + 1)
          /\ Goto(w, "d0")
          /\ UNCHANGED scan
       \/ /\ spins[w] >= SpinRounds
          /\ StartFetch(w, waiting, "d2")
          /\ UNCHANGED spins
    /\ UNCHANGED <<counters, chains, fresh, history, pool, ret>>

ReadEpoch(w) ==
    /\ pc[w] = "epoch"
    /\ fresh' = fresh \cup {w}
    /\ Goto(w, "recheck")
    /\ UNCHANGED <<counters, scan, chains, spins, history, pool, ret>>

\* Mutants of Recheck: no scan after the epoch was read; no test of `terminated'.
RecheckNoScan(w) ==
    /\ pc[w] = "recheck"
    /\ Goto(w, IF terminated THEN "unreg" ELSE "wait")
    /\ UNCHANGED <<counters, scan, chains, parking, history, pool, ret>>
RecheckNoExit(w) ==
    /\ pc[w] = "recheck"
    /\ StartFetch(w, waiting, "d3")
    /\ UNCHANGED <<counters, chains, parking, history, pool, ret>>

Recheck(w) ==
    /\ pc[w] = "recheck"
    /\ IF terminated THEN Goto(w, "unreg") /\ UNCHANGED scan
                     ELSE StartFetch(w, waiting, "d3")
    /\ UNCHANGED <<counters, chains, parking, history, pool, ret>>

\* wake_epoch.wait(epoch): the kernel compares and sleeps in one step.
EpochWait(w) ==
    /\ pc[w] = "wait"
    /\ \/ /\ w \in fresh
          /\ Goto(w, "asleep")
          /\ UNCHANGED spins
       \/ /\ w \notin fresh
          /\ Goto(w, "d0")
          /\ spins' = Set(spins, w, 0)
    /\ UNCHANGED <<counters, scan, chains, fresh, history, pool, ret>>

\* waiting_guard_t leaves scope.
Unregister(w) ==
    /\ pc[w] = "unreg"
    /\ waiting' = waiting - 1
    /\ fresh' = fresh \ {w}
    /\ spins' = Set(spins, w, 0)
    /\ Goto(w, "loop")
    /\ UNCHANGED <<terminated, running, taskCount, scan, chains, history, pool, ret>>

-----------------------------------------------------------------------------
(* The owner: start(), queue(), terminate() and join().                       *)

Start ==
    /\ pc[Main] = "idle" /\ ~live /\ starts < MaxStarts
    /\ heads' = EmptyHeads
    /\ live' = TRUE
    /\ starts' = starts + 1
    /\ terminated' = FALSE
    /\ pc' = [a \in Actors |-> IF a = Main THEN "idle" ELSE "loop"]
    /\ UNCHANGED <<running, waiting, taskCount, scan, hold, org, item, parking,
                   history, dirty, ret>>

Queue ==
    /\ pc[Main] = "idle"
    /\ \E t \in Roots \ created : NewTask(Main, t, "idle")
    /\ UNCHANGED <<terminated, running, waiting, scan, heads, hold, org, parking,
                   runs, done, pool>>

Terminate ==
    /\ pc[Main] = "idle" /\ live
    /\ terminated' = TRUE
    /\ Goto(Main, "bumpall")
    /\ UNCHANGED <<running, waiting, taskCount, scan, chains, parking, history,
                   pool, ret>>

\* Every internal thread is joined; then poll() until it finds nothing.
Join ==
    /\ pc[Main] = "join"
    /\ \A w \in Workers : pc[w] = "exited"
    /\ Goto(Main, "drain")
    /\ at' = Set(at, Main, 0)
    /\ dirty' = FALSE
    /\ UNCHANGED <<counters, view, slot, chains, parking, history, live, starts, ret>>

DrainSlot == <<at[Main] % ThreadCount, at[Main] \div ThreadCount>>

\* Mutants of Drain: one pass only; the head is loaded, not exchanged.
DrainOnce ==
    /\ pc[Main] = "drain"
    /\ \/ /\ at[Main] < ThreadCount * Dup
          /\ hold' = Set(hold, Main, heads[DrainSlot])
          /\ heads' = [heads EXCEPT ![DrainSlot] = << >>]
          /\ dirty' = (dirty \/ heads[DrainSlot] # << >>)
          /\ at' = Set(at, Main, at[Main] + 1)
          /\ Goto(Main, IF heads[DrainSlot] = << >> THEN "drain" ELSE "exec")
          /\ UNCHANGED live
       \/ /\ at[Main] = ThreadCount * Dup
          /\ at' = Set(at, Main, 0)
          /\ dirty' = FALSE
          /\ live' = FALSE
          /\ Goto(Main, "idle")
          /\ UNCHANGED <<heads, hold>>
    /\ UNCHANGED <<counters, view, slot, org, item, parking, history, starts, ret>>

DrainKeeps ==
    /\ pc[Main] = "drain"
    /\ \/ /\ at[Main] < ThreadCount * Dup
          /\ hold' = Set(hold, Main, heads[DrainSlot])
          /\ UNCHANGED heads
          /\ dirty' = (dirty \/ heads[DrainSlot] # << >>)
          /\ at' = Set(at, Main, at[Main] + 1)
          /\ Goto(Main, IF heads[DrainSlot] = << >> THEN "drain" ELSE "exec")
          /\ UNCHANGED live
       \/ /\ at[Main] = ThreadCount * Dup
          /\ at' = Set(at, Main, 0)
          /\ dirty' = FALSE
          /\ live' = dirty
          /\ Goto(Main, IF dirty THEN "drain" ELSE "idle")
          /\ UNCHANGED <<heads, hold>>
    /\ UNCHANGED <<counters, view, slot, org, item, parking, history, starts, ret>>

\* poll(): the next task head, or the end of a pass; after a pass that found
\* nothing join() clears task_heads.
Drain ==
    /\ pc[Main] = "drain"
    /\ \/ /\ at[Main] < ThreadCount * Dup
          /\ hold' = Set(hold, Main, heads[DrainSlot])
          /\ heads' = [heads EXCEPT ![DrainSlot] = << >>]
          /\ dirty' = (dirty \/ heads[DrainSlot] # << >>)
          /\ at' = Set(at, Main, at[Main] + 1)
          /\ Goto(Main, IF heads[DrainSlot] = << >> THEN "drain" ELSE "exec")
          /\ UNCHANGED live
       \/ /\ at[Main] = ThreadCount * Dup
          /\ at' = Set(at, Main, 0)
          /\ dirty' = FALSE
          /\ live' = dirty
          /\ Goto(Main, IF dirty THEN "drain" ELSE "idle")
          /\ UNCHANGED <<heads, hold>>
    /\ UNCHANGED <<counters, view, slot, org, item, parking, history, starts, ret>>

-----------------------------------------------------------------------------
\* Steps of queue_task(), a wakeup or a task, which any actor may be inside.
CommonStep(a) ==
    \/ QueueTask(a) \/ QueueCas(a) \/ QueueChain(a) \/ QueueLate(a)
    \/ WakeGate(a) \/ BumpEpoch(a, "bump", "notify") \/ NotifyOne(a)
    \/ Exec(a)

WorkerStep(w) ==
    \/ ThreadLoop(w)
    \/ Fetch(w, "fetch", "take", "miss")
    \/ Take(w) \/ PutBack(w) \/ Repush(w) \/ Look(w)
    \/ Fetch(w, "lookfetch", "gate", "exec")
    \/ LeavePoll(w, "leave", "loop") \/ LeavePoll(w, "miss", "delay")
    \/ DelayEnter(w) \/ DelayLoop(w)
    \/ Fetch(w, "d1", "unreg", "spin")
    \/ DelaySpin(w)
    \/ Fetch(w, "d2", "unreg", "epoch")
    \/ ReadEpoch(w) \/ Recheck(w)
    \/ Fetch(w, "d3", "unreg", "wait")
    \/ EpochWait(w) \/ Unregister(w)

\* What the owner's calls do once begun.
OwnerStep ==
    \/ BumpEpoch(Main, "bumpall", "notifyall") \/ NotifyAll(Main) \/ Join \/ Drain

OwnerCall == Start \/ Queue \/ Terminate

Next ==
    \/ \E a \in Actors : CommonStep(a) \/ Finish(a)
    \/ \E w \in Workers : WorkerStep(w)
    \/ OwnerStep
    \/ OwnerCall

Spec == Init /\ [][Next]_vars

\* Every thread keeps being scheduled and every callback returns, except the
\* blocking ones.  The owner need not call anything.
Fairness ==
    /\ \A a \in Actors :
          /\ WF_vars(CommonStep(a))
          /\ WF_vars(Finish(a) /\ Head(hold[a]) \notin Blocking)
    /\ \A w \in Workers : WF_vars(WorkerStep(w))
    /\ WF_vars(OwnerStep)

FairSpec == Spec /\ Fairness

-----------------------------------------------------------------------------
(* Properties                                                                *)

Elems(q) == {q[i] : i \in 1 .. Len(q)}
Distinct(q) == \A i, j \in 1 .. Len(q) : q[i] = q[j] => i = j

\* Where task t is now: in a task head, detached by a thread, or in the hands of
\* queue_task().
Places(t) ==
    {<<"head", s>> : s \in {s \in Slots : t \in Elems(heads[s])}}
    \cup {<<"hold", a>> : a \in {a \in Actors : t \in Elems(hold[a])}}
    \cup {<<"org", a>> : a \in {a \in Actors : t \in Elems(org[a])}}
    \cup {<<"item", a>> : a \in {a \in Actors : t = item[a]}}

\* Until its callback has returned a counted task is always in some list, however
\* the detaching, putting back and repushing of poll_one_internal() interleave
\* with pushes: the two exchanges on a head never drop a node.
NoTaskLost == \A t \in created \ done : Places(t) # {}

\* No node is ever linked into two lists or twice into one, and a node that was
\* freed by poll_guard_t is in none: a second link would execute a task twice or
\* reach freed memory.
NoTaskTwice ==
    /\ \A t \in Tasks : \A p, q \in Places(t) : p = q
    /\ \A t \in Tasks : Places(t) # {} => t \in created \ done
    /\ \A s \in Slots : Distinct(heads[s])
    /\ \A a \in Actors : Distinct(hold[a]) /\ Distinct(org[a])

\* Until its callback has returned a task is in exactly one list, however the
\* detaching, putting back and repushing of poll_one_internal() interleave with
\* pushes: nothing is dropped, executed twice or reached after it was freed.
EachTaskOnce == NoTaskLost /\ NoTaskTwice

\* A callback is invoked at most once.
ExecutedAtMostOnce == \A t \in Tasks : runs[t] <= 1

\* The threads inside poll_one() and the ones registered by delay().
Polling == {w \in Workers : pc[w] \in PollPCs \cup QueuePCs \cup WakePCs \cup ExecPCs}
Registered == {w \in Workers : pc[w] \in DelayPCs}

\* The guards' counters are exact on every path, early returns included: the
\* priorities a poller sees and the wakeup gate are computed from them, and none
\* can wrap below zero.
CountersExact ==
    /\ running = Cardinality(Polling)
    /\ waiting = Cardinality(Registered)
    /\ taskCount = Cardinality(created \ done)

\* An actor that will not do anything by itself: parked, blocked in a callback,
\* finished, or waiting for a call or for the threads to end.
Quiet(a) ==
    \/ pc[a] \in {"asleep", "exited", "idle", "join"}
    \/ pc[a] = "finish" /\ Head(hold[a]) \in Blocking

\* Pool thread w is blocked in a callback of a lower priority than n.
BlockedBelow(w, n) ==
    /\ pc[w] = "finish" /\ Head(hold[w]) \in Blocking
    /\ Clamp(Prio[Head(hold[w])]) > n

\* No lost wakeup: when nobody is on the move, no task is left in a head whose
\* priority is low enough for the parked threads to be woken for it.  The push
\* that found them, the epoch bump, or the thread that saw fewer tasks than
\* there were must have woken one.  The exception is a thread woken for the task
\* that took one of lower priority instead and blocked in it: poll_one_internal()
\* decides by the priority of the task it took whether it wakes another thread.
NoStrandedTask ==
    (\A a \in Actors : Quiet(a)) =>
        \A s \in Slots :
            s[1] + LimitCount < Cardinality(Asleep) /\ heads[s] # << >> =>
                \E w \in Workers : BlockedBelow(w, s[1])

\* join() returns only with every queued task executed, once, tasks queued during
\* the shutdown included; the assertions of join() and of the destructor hold.
JoinDrains ==
    /\ ExecutedAtMostOnce
    /\ pc[Main] = "drain" => running = 0 /\ waiting = 0
    /\ pc[Main] = "idle" /\ ~live => created = done /\ taskCount = 0

\* The two exchanges of poll_one_internal() and every push move tasks without
\* dropping, duplicating or inventing one: seen as sets, the pool is TaskPool.
Waiting(t) == Places(t) # {} /\ runs[t] = 0
Implements == INSTANCE TaskPool WITH
                  pending <- {t \in Tasks : Waiting(t)},
                  executing <- {t \in Tasks : Places(t) # {} /\ runs[t] > 0},
                  ended <- done
RefinesTaskPool == Implements!PoolSpec

\* Every queued task is executed as long as fewer than W - priority threads are
\* blocked in callbacks, none of them in one of lower priority: the put-back and
\* repush paths of poll_one_internal() wake another thread before the task they
\* keep may block.  After terminate() it is join() that executes what is left
\* (JoinDrains, JoinReturns).
UrgentTaskRuns ==
    LET row(t) == MinOf(Prio[t], W - 1)
    IN  \A t \in Tasks :
            /\ W > 0 /\ row(t) + LimitCount + Cardinality(Blocking) < W
            /\ \A b \in Blocking : row(b) <= row(t)
            => (t \in created ~> runs[t] > 0 \/ terminated)

\* terminate() reaches every parked thread, so join() returns.
JoinReturns == pc[Main] = "join" ~> ~live
=============================================================================
