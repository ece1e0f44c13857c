-------------------------------- MODULE Pipe --------------------------------
(***************************************************************************)
(* iris_pipe_t of src/src/iris/iris_coroutine.h, with std::mutex: any      *)
(* number of producers emplace() elements, any number of coroutines        *)
(* co_await one.  Two counters pair them: prepared_count for elements      *)
(* nobody waited for, waiting_count for coroutines no element was there    *)
(* for.  A step is one access to a counter or to a queue; the CAS loops of *)
(* flush_prepared() and flush_waiting() are their successful CAS or their  *)
(* load of zero.  What an element holds is left out: `elements' counts     *)
(* them.                                                                   *)
(***************************************************************************)
EXTENDS Naturals, Sequences, FiniteSets

CONSTANTS
    Producers, Consumers,  \* threads that emplace(), coroutines that co_await
    Emplaces, Awaits       \* bound: calls of each producer, of each consumer

ASSUME PipeAssumption ==
    /\ IsFiniteSet(Producers) /\ IsFiniteSet(Consumers)
    /\ Producers \cap Consumers = {} /\ "free" \notin Producers \cup Consumers
    /\ Emplaces \in Nat /\ Awaits \in Nat

VARIABLES
    prepared,    \* prepared_count
    waiting,     \* waiting_count
    elements,    \* number of elements in the queue
    handles,     \* the queue of suspended coroutines
    handleLock,  \* holder of handle_lock, or "free"
    pipePc,      \* labels
    left         \* calls each actor still makes

pipeVars == <<prepared, waiting, elements, handles, handleLock, pipePc, left>>

PipeActors == Producers \cup Consumers
PipePCs == {"idle", "fast", "lock", "push", "count", "waiting", "ready",
            "flush", "take", "plock", "starve"}

PipeTypeOK ==
    /\ prepared \in Nat /\ waiting \in Nat /\ elements \in Nat
    /\ handles \in Seq(Consumers)
    /\ handleLock \in PipeActors \cup {"free"}
    /\ pipePc \in [PipeActors -> PipePCs]
    /\ left \in [PipeActors -> Nat]

PipeInit ==
    /\ prepared = 0 /\ waiting = 0 /\ elements = 0
    /\ handles = <<>> /\ handleLock = "free"
    /\ pipePc = [a \in PipeActors |-> "idle"]
    /\ left = [a \in PipeActors |-> IF a \in Producers THEN Emplaces ELSE Awaits]

PipeGoto(a, l) == pipePc' = [pipePc EXCEPT ![a] = l]

\* co_await: await_ready() is false, await_suspend() begins.
AwaitSuspend(c) ==
    /\ pipePc[c] = "idle" /\ left[c] > 0
    /\ left' = [left EXCEPT ![c] = @ - 1]
    /\ PipeGoto(c, "fast")
    /\ UNCHANGED <<prepared, waiting, elements, handles, handleLock>>

\* Fast path: flush_prepared() takes an element nobody waited for.
AwaitFast(c) ==
    /\ pipePc[c] = "fast"
    /\ IF prepared > 0 THEN prepared' = prepared - 1 /\ PipeGoto(c, "ready")
                       ELSE UNCHANGED prepared /\ PipeGoto(c, "lock")
    /\ UNCHANGED <<waiting, elements, handles, handleLock, left>>

\* Mutant: no second flush_prepared() under the lock (iris_no_mutex_t).
AwaitRetrySkipped(c) ==
    /\ pipePc[c] = "lock" /\ handleLock = "free"
    /\ handleLock' = c /\ PipeGoto(c, "push")
    /\ UNCHANGED <<prepared, waiting, elements, handles, left>>

\* Retry under handle_lock.
AwaitRetry(c) ==
    /\ pipePc[c] = "lock" /\ handleLock = "free"
    /\ IF prepared > 0
         THEN prepared' = prepared - 1 /\ PipeGoto(c, "ready") /\ UNCHANGED handleLock
         ELSE handleLock' = c /\ PipeGoto(c, "push") /\ UNCHANGED prepared
    /\ UNCHANGED <<waiting, elements, handles, left>>

\* handles.push()
AwaitPush(c) ==
    /\ pipePc[c] = "push"
    /\ handles' = Append(handles, c) /\ PipeGoto(c, "count")
    /\ UNCHANGED <<prepared, waiting, elements, handleLock, left>>

\* waiting_count.fetch_add(1); the lock is given up.
AwaitCount(c) ==
    /\ pipePc[c] = "count"
    /\ waiting' = waiting + 1
    /\ handleLock' = "free" /\ PipeGoto(c, "waiting")
    /\ UNCHANGED <<prepared, elements, handles, left>>

\* await_resume(), once dispatched: the element is popped under data_pop_lock.
AwaitResume(c) ==
    /\ pipePc[c] = "ready" /\ elements > 0
    /\ elements' = elements - 1 /\ PipeGoto(c, "idle")
    /\ UNCHANGED <<prepared, waiting, handles, handleLock, left>>

\* emplace(): the element is pushed under data_push_lock.
Emplace(p) ==
    /\ pipePc[p] = "idle" /\ left[p] > 0
    /\ left' = [left EXCEPT ![p] = @ - 1]
    /\ elements' = elements + 1 /\ PipeGoto(p, "flush")
    /\ UNCHANGED <<prepared, waiting, handles, handleLock>>

\* Fast path: flush_waiting() claims a suspended coroutine.
EmplaceFast(p) ==
    /\ pipePc[p] = "flush"
    /\ IF waiting > 0 THEN waiting' = waiting - 1 /\ PipeGoto(p, "take")
                      ELSE UNCHANGED waiting /\ PipeGoto(p, "plock")
    /\ UNCHANGED <<prepared, elements, handles, handleLock, left>>

\* ... pops it under handle_lock and dispatches it.
EmplaceTake(p) ==
    /\ pipePc[p] = "take" /\ handleLock = "free" /\ handles # <<>>
    /\ handles' = Tail(handles)
    /\ pipePc' = [pipePc EXCEPT ![p] = "idle", ![Head(handles)] = "ready"]
    /\ UNCHANGED <<prepared, waiting, elements, handleLock, left>>

\* Retry under handle_lock; the coroutine is popped under the same lock.
EmplaceRetry(p) ==
    /\ pipePc[p] = "plock" /\ handleLock = "free"
    /\ IF waiting > 0
         THEN /\ handles # <<>>
              /\ waiting' = waiting - 1 /\ handles' = Tail(handles)
              /\ pipePc' = [pipePc EXCEPT ![p] = "idle", ![Head(handles)] = "ready"]
              /\ UNCHANGED handleLock
         ELSE /\ handleLock' = p /\ PipeGoto(p, "starve")
              /\ UNCHANGED <<waiting, handles>>
    /\ UNCHANGED <<prepared, elements, left>>

\* Mutant: the element is counted twice.
EmplaceStarveTwice(p) ==
    /\ pipePc[p] = "starve"
    /\ prepared' = prepared + 2
    /\ handleLock' = "free" /\ PipeGoto(p, "idle")
    /\ UNCHANGED <<waiting, elements, handles, left>>

\* Nobody waits: prepared_count.fetch_add(1); the lock is given up.
EmplaceStarve(p) ==
    /\ pipePc[p] = "starve"
    /\ prepared' = prepared + 1
    /\ handleLock' = "free" /\ PipeGoto(p, "idle")
    /\ UNCHANGED <<waiting, elements, handles, left>>

ConsumerStep(c) ==
    \/ AwaitSuspend(c) \/ AwaitFast(c) \/ AwaitRetry(c)
    \/ AwaitPush(c) \/ AwaitCount(c) \/ AwaitResume(c)

ProducerStep(p) ==
    \/ Emplace(p) \/ EmplaceFast(p) \/ EmplaceTake(p)
    \/ EmplaceRetry(p) \/ EmplaceStarve(p)

PipeNext ==
    \/ \E c \in Consumers : ConsumerStep(c)
    \/ \E p \in Producers : ProducerStep(p)

PipeSpec == PipeInit /\ [][PipeNext]_pipeVars /\ WF_pipeVars(PipeNext)

In(S, l) == {a \in S : pipePc[a] = l}

(***************************************************************************)
(* An element nobody is told of and a coroutine nobody wakes never stand   *)
(* side by side: the rendezvous of emplace() and await_suspend() loses no  *)
(* wakeup ("retry under lock to close the lost-wakeup window").            *)
(***************************************************************************)
NoLostRendezvous == prepared = 0 \/ waiting = 0

(***************************************************************************)
(* top() is never called on an empty queue: every dispatched coroutine has *)
(* an element of its own, every producer that claimed a waiter a handle.   *)
(***************************************************************************)
TopNeverEmpty ==
    /\ Cardinality(In(Consumers, "ready")) + prepared <= elements
    /\ Cardinality(In(Producers, "take")) + waiting <= Len(handles)

\* With as many elements as awaits every coroutine gets one.
PipeDelivers ==
    Cardinality(Producers) * Emplaces = Cardinality(Consumers) * Awaits =>
      <>[](\A c \in Consumers : left[c] = 0 /\ pipePc[c] = "idle")

=============================================================================
