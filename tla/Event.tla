------------------------------- MODULE Event -------------------------------
(***************************************************************************)
(* iris_event_t of src/src/iris/iris_coroutine.h: coroutines suspend on an *)
(* event until it is signalled.  A step is one access to the atomic        *)
(* `signaled' or one critical section of `lock' between two of them.       *)
(* dispatch() of iris_sync_t posts the coroutine to its warp or to the     *)
(* pool; here it becomes "ready" and resumes at some later step.           *)
(***************************************************************************)
EXTENDS Naturals, Sequences

CONSTANTS
    EventWaiters,   \* coroutines that co_await the event
    EventNotifiers, \* threads that call notify() and reset()
    MaxSignals      \* bound: calls of notify() and reset() per notifier

ASSUME EventAssumption ==
    /\ EventWaiters \cap EventNotifiers = {} /\ MaxSignals \in Nat
    /\ "none" \notin EventWaiters \cup EventNotifiers

VARIABLES
    signaled,       \* the atomic flag
    eventLock,      \* who holds the mutex, "none" if nobody does
    eventHandles,   \* suspended coroutines
    eventPc,        \* labels of waiters and notifiers
    setHandles,     \* notify()'s local vector, per notifier
    signals         \* calls made so far, per notifier

eventVars == <<signaled, eventLock, eventHandles, eventPc, setHandles, signals>>

EventGoto(a, l) == eventPc' = [eventPc EXCEPT ![a] = l]

EventInit ==
    /\ signaled = FALSE /\ eventLock = "none" /\ eventHandles = <<>>
    /\ eventPc = [a \in EventWaiters \cup EventNotifiers |->
                    IF a \in EventWaiters THEN "start" ELSE "idle"]
    /\ setHandles = [n \in EventNotifiers |-> <<>>]
    /\ signals = [n \in EventNotifiers |-> 0]

\* await_ready(): a signalled event does not suspend.
EventAwaitReady(w) ==
    /\ eventPc[w] = "start"
    /\ EventGoto(w, IF signaled THEN "done" ELSE "suspend")
    /\ UNCHANGED <<signaled, eventLock, eventHandles, setHandles, signals>>

\* await_suspend(): first look at the flag, without the lock.
EventFirstCheck(w) ==
    /\ eventPc[w] = "suspend"
    /\ EventGoto(w, IF signaled THEN "dispatch" ELSE "check")
    /\ UNCHANGED <<signaled, eventLock, eventHandles, setHandles, signals>>

\* Mutant: the lock is taken, the flag is not looked at again
EventDoubleCheckSkipped(w) ==
    /\ eventPc[w] = "check" /\ eventLock = "none"
    /\ EventGoto(w, "push") /\ eventLock' = w
    /\ UNCHANGED <<signaled, eventHandles, setHandles, signals>>

\* ... the double check, under the lock.
EventDoubleCheck(w) ==
    /\ eventPc[w] = "check" /\ eventLock = "none"
    /\ IF signaled THEN EventGoto(w, "dispatch") /\ UNCHANGED eventLock
                   ELSE EventGoto(w, "push") /\ eventLock' = w
    /\ UNCHANGED <<signaled, eventHandles, setHandles, signals>>

\* ... handles.emplace_back(), then the lock is given up.
EventPush(w) ==
    /\ eventPc[w] = "push"
    /\ eventHandles' = Append(eventHandles, w)
    /\ eventLock' = "none" /\ EventGoto(w, "waiting")
    /\ UNCHANGED <<signaled, setHandles, signals>>

\* ... a signalled event dispatches the coroutine at once.
EventDispatch(w) ==
    /\ eventPc[w] = "dispatch" /\ EventGoto(w, "ready")
    /\ UNCHANGED <<signaled, eventLock, eventHandles, setHandles, signals>>

\* A pool thread or the owner of its warp resumes the coroutine.
EventResume(w) ==
    /\ eventPc[w] = "ready" /\ EventGoto(w, "done")
    /\ UNCHANGED <<signaled, eventLock, eventHandles, setHandles, signals>>

\* reset(): a store without the lock.
EventReset(n) ==
    /\ eventPc[n] = "idle" /\ signals[n] < MaxSignals
    /\ signaled' = FALSE
    /\ signals' = [signals EXCEPT ![n] = @ + 1]
    /\ UNCHANGED <<eventLock, eventHandles, eventPc, setHandles>>

\* notify(): the flag is set under the lock.
EventNotify(n) ==
    /\ eventPc[n] = "idle" /\ signals[n] < MaxSignals /\ eventLock = "none"
    /\ eventLock' = n /\ signaled' = TRUE
    /\ signals' = [signals EXCEPT ![n] = @ + 1]
    /\ EventGoto(n, "swap")
    /\ UNCHANGED <<eventHandles, setHandles>>

\* ... the handles are taken, the lock is given up.
EventSwap(n) ==
    /\ eventPc[n] = "swap"
    /\ setHandles' = [setHandles EXCEPT ![n] = eventHandles]
    /\ eventHandles' = <<>> /\ eventLock' = "none"
    /\ EventGoto(n, "wake")
    /\ UNCHANGED <<signaled, signals>>

\* ... and every one of them is dispatched.
EventWake(n) ==
    /\ eventPc[n] = "wake"
    /\ IF setHandles[n] = <<>>
         THEN EventGoto(n, "idle") /\ UNCHANGED setHandles
         ELSE /\ eventPc' = [eventPc EXCEPT ![Head(setHandles[n])] = "ready"]
              /\ setHandles' = [setHandles EXCEPT ![n] = Tail(@)]
    /\ UNCHANGED <<signaled, eventLock, eventHandles, signals>>

EventWaiterStep(w) ==
    \/ EventAwaitReady(w) \/ EventFirstCheck(w) \/ EventDoubleCheck(w)
    \/ EventPush(w) \/ EventDispatch(w) \/ EventResume(w)

EventNotifierStep(n) == EventSwap(n) \/ EventWake(n)

EventNext ==
    \/ \E w \in EventWaiters : EventWaiterStep(w)
    \/ \E n \in EventNotifiers : EventReset(n) \/ EventNotify(n) \/ EventNotifierStep(n)

\* What goes on by itself: threads in the middle of a call, dispatched
\* coroutines.  Calls of notify() and reset() are up to the program.
EventSystem ==
    \/ \E w \in EventWaiters : EventWaiterStep(w)
    \/ \E n \in EventNotifiers : EventNotifierStep(n)

EventSpec == EventInit /\ [][EventNext]_eventVars /\ WF_eventVars(EventSystem)

(***************************************************************************)
(* A coroutine sits in the list of a signalled event only while the notify *)
(* that will take it holds the lock: neither the unlocked first check nor  *)
(* a reset() between the double check and the push leaves one behind.      *)
(***************************************************************************)
NoWaiterOnSignaled ==
    signaled /\ eventLock = "none" => eventHandles = <<>>

\* Once the event stays signalled, every coroutine that awaits it goes on.
EventWakesAll ==
    \A w \in EventWaiters : <>[]signaled => <>(eventPc[w] = "done")

=============================================================================
