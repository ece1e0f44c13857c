------------------------------ MODULE MainLoop ------------------------------
(***************************************************************************)
(* How pool threads hand routines back to nginx's main thread:             *)
(* ngx_hooker_t::process_events() and notify() of src/src/ngx_lua_cpp.cpp  *)
(* with the warp it drains (iris_warp_t of src/src/iris/iris_dispatcher.h).*)
(*                                                                         *)
(* main_warp is preempted by the main thread when it is created and never  *)
(* given up, so the execute_t that flush() queues to the pool always finds *)
(* it owned and returns: only poll() drains its buffers.  Between two      *)
(* passes the main thread sleeps in the event method of nginx (epoll),     *)
(* which returns when notify() has signalled it or for events of its own.  *)
(*                                                                         *)
(* Routines are told apart only by the buffer they are in.                 *)
(***************************************************************************)
EXTENDS Integers, FiniteSets

CONSTANTS
    Workers,       \* pool threads, each with its buffer in main_warp
    Main,          \* the main thread
    MaxSpins,      \* the safety valve of process_events() (1000)
    Posts,         \* bound: routines each worker posts
    Awaits,        \* bound: parallel routines each worker runs on the warp
    StoreBuffers   \* TRUE: a store may become visible after a later load (x86)

ASSUME LoopAssumption ==
    /\ IsFiniteSet(Workers) /\ Main \notin Workers
    /\ MaxSpins \in Nat /\ MaxSpins >= 2 \* with 1 the valve would lose a wakeup
    /\ Posts \in Nat /\ Awaits \in Nat
    /\ StoreBuffers \in BOOLEAN

Actors == Workers \cup {Main}

VARIABLES
    buffer,    \* buffer[w]: routines in w's queue buffer
    hidden,    \* workers whose push is still in their store buffer
    queueing,  \* "idle", "pending" or "executing"
    suspended, \* suspend_count
    notified,  \* ngx_hooker_t::notified
    signal,    \* actions->notify() was called, the event method will return
    pc, ret,   \* labels: now, and after flush()
    spins,     \* passes of the loop in process_events()
    found,     \* poll() has executed something in this round
    posts, awaits  \* how often each worker has posted, has suspended the warp

hooks == <<notified, signal>>
loop == <<spins, found>>
bounds == <<posts, awaits>>
vars == <<buffer, hidden, queueing, suspended, hooks, pc, ret, loop, bounds>>

MainPCs == {"spin", "suspend", "test", "mark", "execute", "again", "cond", "epoll"}
WorkerPCs == {"idle", "ptask"}
FlushPCs == {"resume", "resumex", "flush", "flushx", "notify", "signal"}
PCs == MainPCs \cup WorkerPCs \cup FlushPCs

TypeOK ==
    /\ buffer \in [Workers -> Nat]
    /\ hidden \subseteq Workers
    /\ queueing \in {"idle", "pending", "executing"}
    /\ suspended \in Nat
    /\ notified \in BOOLEAN /\ signal \in BOOLEAN /\ found \in BOOLEAN
    /\ pc \in [Actors -> PCs]
    /\ pc[Main] \in MainPCs \cup FlushPCs
    /\ \A w \in Workers : pc[w] \in WorkerPCs \cup FlushPCs
    /\ ret \in [Actors -> {"idle", "again"}]
    /\ spins \in 0 .. MaxSpins
    /\ posts \in [Workers -> 0 .. Posts]
    /\ awaits \in [Workers -> 0 .. Awaits]

Init ==
    /\ buffer = [w \in Workers |-> 0]
    /\ hidden = {}
    /\ queueing = "idle" /\ suspended = 0
    /\ notified = FALSE /\ signal = FALSE
    /\ pc = [a \in Actors |-> IF a = Main THEN "epoll" ELSE "idle"]
    /\ ret = [a \in Actors |-> IF a = Main THEN "again" ELSE "idle"]
    /\ spins = 0 /\ found = FALSE
    /\ posts = [w \in Workers |-> 0] /\ awaits = [w \in Workers |-> 0]

Set(f, a, v) == [f EXCEPT ![a] = v]
Goto(a, l) == pc' = Set(pc, a, l)

-----------------------------------------------------------------------------
(* Pool threads                                                              *)

\* push(): the routine goes to the thread's buffer, then flush().
Post(w) ==
    /\ pc[w] = "idle" /\ posts[w] < Posts
    /\ posts' = Set(posts, w, posts[w] + 1)
    /\ IF StoreBuffers THEN hidden' = hidden \cup {w} /\ UNCHANGED buffer
                       ELSE buffer' = Set(buffer, w, buffer[w] + 1) /\ UNCHANGED hidden
    /\ Goto(w, "flush")
    /\ UNCHANGED <<queueing, suspended, hooks, ret, loop, awaits>>

\* The store buffer of the processor that runs w drains.
Appear(w) ==
    /\ w \in hidden
    /\ hidden' = hidden \ {w}
    /\ buffer' = Set(buffer, w, buffer[w] + 1)
    /\ UNCHANGED <<queueing, suspended, hooks, pc, ret, loop, bounds>>

\* iris_awaitable_t::dispatch() with a parallel priority suspends main_warp until
\* its routine has run on the pool.
Await(w) ==
    /\ pc[w] = "idle" /\ awaits[w] < Awaits /\ w \notin hidden
    /\ awaits' = Set(awaits, w, awaits[w] + 1)
    /\ suspended' = suspended + 1
    /\ Goto(w, "ptask")
    /\ UNCHANGED <<buffer, hidden, queueing, hooks, ret, loop, posts>>

ParallelTask(w) ==
    /\ pc[w] = "ptask"
    /\ Goto(w, "resume")
    /\ UNCHANGED <<buffer, hidden, queueing, suspended, hooks, ret, loop, bounds>>

-----------------------------------------------------------------------------
(* resume(), flush() and notify(), by any thread                              *)

Resume(a) ==
    /\ pc[a] = "resume"
    /\ suspended' = suspended - 1
    /\ Goto(a, IF suspended = 1 THEN "resumex" ELSE ret[a])
    /\ UNCHANGED <<buffer, hidden, queueing, hooks, ret, loop, bounds>>

\* Mutant of ResumeExchange: what was marked pending is not looked at.
ResumeStores(a) ==
    /\ pc[a] = "resumex"
    /\ queueing' = "idle"
    /\ Goto(a, ret[a])
    /\ UNCHANGED <<buffer, hidden, suspended, hooks, ret, loop, bounds>>

\* The last resume(): flush what was marked pending meanwhile.
ResumeExchange(a) ==
    /\ pc[a] = "resumex"
    /\ queueing' = "idle"
    /\ Goto(a, IF queueing = "pending" THEN "flush" ELSE ret[a])
    /\ UNCHANGED <<buffer, hidden, suspended, hooks, ret, loop, bounds>>

\* Mutant of Flush: a warp that executes is taken to see the new routine.
FlushIfIdle(a) ==
    /\ pc[a] = "flush"
    /\ Goto(a, IF queueing # "idle" THEN ret[a] ELSE "flushx")
    /\ UNCHANGED <<buffer, hidden, queueing, suspended, hooks, ret, loop, bounds>>

Flush(a) ==
    /\ pc[a] = "flush"
    /\ Goto(a, IF queueing = "pending" THEN ret[a] ELSE "flushx")
    /\ UNCHANGED <<buffer, hidden, queueing, suspended, hooks, ret, loop, bounds>>

\* The exchange is a locked instruction: it waits for the store buffer.
FlushExchange(a) ==
    /\ pc[a] = "flushx"
    /\ a \notin hidden
    /\ queueing' = "pending"
    /\ Goto(a, IF queueing = "idle" THEN "notify" ELSE ret[a])
    /\ UNCHANGED <<buffer, hidden, suspended, hooks, ret, loop, bounds>>

\* ngx_warp_t::flush_warp() calls ngx_hooker_t::notify().
Notify(a) ==
    /\ pc[a] = "notify"
    /\ notified' = TRUE
    /\ Goto(a, IF notified THEN ret[a] ELSE "signal")
    /\ UNCHANGED <<buffer, hidden, queueing, suspended, signal, ret, loop, bounds>>

Signal(a) ==
    /\ pc[a] = "signal"
    /\ signal' = TRUE
    /\ Goto(a, ret[a])
    /\ UNCHANGED <<buffer, hidden, queueing, suspended, notified, ret, loop, bounds>>

-----------------------------------------------------------------------------
(* ngx_hooker_t::process_events() on the main thread                          *)

\* The head of its loop, which gives up after MaxSpins passes.
Spin ==
    /\ pc[Main] = "spin"
    /\ IF spins = MaxSpins THEN Goto(Main, "epoll") /\ spins' = 0
                           ELSE Goto(Main, "suspend") /\ spins' = spins + 1
    /\ UNCHANGED <<buffer, hidden, queueing, suspended, hooks, ret, found, bounds>>

\* Mutant of Suspend: a suspended warp is not suspended again.
SuspendOnce ==
    /\ pc[Main] = "suspend"
    /\ suspended' = IF suspended = 0 THEN 1 ELSE suspended
    /\ Goto(Main, "test")
    /\ UNCHANGED <<buffer, hidden, queueing, hooks, ret, loop, bounds>>

\* main_warp->poll<false>(): suspend, execute what is queued, resume, and again
\* until a round finds nothing.
Suspend ==
    /\ pc[Main] = "suspend"
    /\ suspended' = suspended + 1
    /\ Goto(Main, "test")
    /\ UNCHANGED <<buffer, hidden, queueing, hooks, ret, loop, bounds>>

Empty == \A w \in Workers : buffer[w] = 0

Test ==
    /\ pc[Main] = "test"
    /\ found' = ~Empty
    /\ Goto(Main, IF Empty THEN "resume" ELSE "mark")
    /\ UNCHANGED <<buffer, hidden, queueing, suspended, hooks, ret, spins, bounds>>

\* execute_internal<force>: mark, then execute until a pass over the buffers
\* finds nothing.
Mark ==
    /\ pc[Main] = "mark"
    /\ queueing' = "executing"
    /\ Goto(Main, "execute")
    /\ UNCHANGED <<buffer, hidden, suspended, hooks, ret, loop, bounds>>

Execute ==
    /\ pc[Main] = "execute"
    /\ \/ /\ \E w \in Workers : buffer[w] > 0 /\ buffer' = Set(buffer, w, buffer[w] - 1)
          /\ UNCHANGED pc
       \/ /\ Empty
          /\ Goto(Main, "resume")
          /\ UNCHANGED buffer
    /\ UNCHANGED <<hidden, queueing, suspended, hooks, ret, loop, bounds>>

Again ==
    /\ pc[Main] = "again"
    /\ Goto(Main, IF found THEN "suspend" ELSE "cond")
    /\ UNCHANGED <<buffer, hidden, queueing, suspended, hooks, ret, loop, bounds>>

\* Mutant of Condition: `notified' is loaded, not exchanged.
ConditionLoads ==
    /\ pc[Main] = "cond"
    /\ IF notified THEN Goto(Main, "spin") /\ UNCHANGED spins
                   ELSE Goto(Main, "epoll") /\ spins' = 0
    /\ UNCHANGED <<buffer, hidden, queueing, suspended, hooks, ret, found, bounds>>

\* while (notified.exchange(0) == 1)
Condition ==
    /\ pc[Main] = "cond"
    /\ notified' = FALSE
    /\ IF notified THEN Goto(Main, "spin") /\ UNCHANGED spins
                   ELSE Goto(Main, "epoll") /\ spins' = 0
    /\ UNCHANGED <<buffer, hidden, queueing, suspended, signal, ret, found, bounds>>

\* The event method returns because it was signalled.
Wake ==
    /\ pc[Main] = "epoll" /\ signal
    /\ signal' = FALSE
    /\ Goto(Main, "spin")
    /\ UNCHANGED <<buffer, hidden, queueing, suspended, notified, ret, loop, bounds>>

\* It returns for a socket or a timer of nginx.
OtherEvent ==
    /\ pc[Main] = "epoll" /\ ~signal
    /\ Goto(Main, "spin")
    /\ UNCHANGED <<buffer, hidden, queueing, suspended, hooks, ret, loop, bounds>>

-----------------------------------------------------------------------------
SharedStep(a) ==
    \/ Resume(a) \/ ResumeExchange(a)
    \/ Flush(a) \/ FlushExchange(a) \/ Notify(a) \/ Signal(a)

MainStep == \/ Spin \/ Suspend \/ Test \/ Mark \/ Execute \/ Again \/ Condition \/ Wake
            \/ SharedStep(Main)

WorkerStep(w) == SharedStep(w) \/ ParallelTask(w)

\* The steps of the program, and with them a store that becomes visible late.
ProgramNext ==
    \/ MainStep \/ OtherEvent
    \/ \E w \in Workers : Post(w) \/ Await(w) \/ WorkerStep(w)

Next == ProgramNext \/ \E w \in Workers : Appear(w)

Spec == Init /\ [][Next]_vars

\* Where no store is late: the main thread and the pool threads keep being
\* scheduled; nothing forces a worker to post or an nginx event to occur.
FairSpec == /\ Init /\ [][ProgramNext]_vars
            /\ WF_vars(MainStep) /\ \A w \in Workers : WF_vars(WorkerStep(w))

-----------------------------------------------------------------------------
(* Properties                                                                *)

\* The main thread sleeps and nothing is on its way to wake it.
Asleep == pc[Main] = "epoll" /\ ~signal
AtRest == /\ \A w \in Workers : pc[w] = "idle"
          /\ hidden = {} /\ suspended = 0

\* No lost wakeup: the main thread never sleeps on posted routines once the posts
\* are complete.  queueing and notified both suppress notifications that look
\* superfluous; neither may suppress the last one.
NoLostWakeup == Asleep /\ AtRest => Empty

\* A suppressed notification was covered by another one: while `notified' is set
\* the sleeping main thread has been signalled or is about to be.
NotifyCovered ==
    notified /\ pc[Main] = "epoll" => signal \/ \E w \in Workers : pc[w] = "signal"

\* Posted routines are executed: without any other event of nginx where a store
\* is visible before the next load, and by the next event pass in any case.
PostsExecuted == \A w \in Workers : buffer[w] > 0 ~> buffer[w] = 0

=============================================================================
