---------------------------- MODULE MCCoroutines ----------------------------
(***************************************************************************)
(* What coroutines are built from and synchronise with.  The parts share   *)
(* no state, so a run explores each of them on its own: `part' is chosen   *)
(* in the first state and the variables of the others stay as they are.    *)
(***************************************************************************)
EXTENDS TLC, Event, Pipe, Barrier, QuotaQueue, Awaitable, Coroutine, Switch, Select, Dispatcher

CONSTANTS w1, w2, n1, n2, p1, p2, c1, c2, b1, b2, b3, r1, u1, u2, u3,
          t1, t2, x1, x2, x3, A, B, d1, d2, d3, d4, j1, j2

VARIABLE part

MCUsers == {u1, u2, u3}
TwoOfEach == <<2, 2>>
SameRequest == [u \in MCUsers |-> <<1, 1>>]
\* Everything but dispatch() before co_await outside any warp; a caller
\* outside any warp cannot target the bare pool, that is the same place.
SafePatterns ==
    ({"same", "post", "parallel"} \X BOOLEAN \X {FALSE})
    \cup ({"same", "pool", "post", "parallel"} \X {TRUE} \X BOOLEAN)
    \cup {<<"same", FALSE, TRUE>>}
\* What mandelbrot(), fetch() and the udp_ functions do.
FanOutPattern == {<<"parallel", FALSE, TRUE>>}

\* x1 wants both warps, then back to the pool; the others pass through one.
MCWishes ==
    (x1 :> <<Wish(A, B, FALSE, FALSE), Wish(NoWarp, NoWarp, FALSE, FALSE)>>)
    @@ (x2 :> <<Wish(NoWarp, B, FALSE, FALSE), Wish(B, NoWarp, FALSE, FALSE),
                Wish(A, NoWarp, TRUE, FALSE)>>)
    @@ (x3 :> <<Wish(A, NoWarp, TRUE, FALSE), Wish(B, A, FALSE, TRUE)>>)

\* d1 has more successors than slots; d4 waits for d2 too.
MCEdges == <<<<d1, d2>>, <<d1, d3>>, <<d1, d4>>, <<d2, d4>>, <<d1, d4>>>>
MCJunctions == <<j1, j2>>

syncVars == <<eventVars, pipeVars, barrierVars, quotaVars>>
coVars == <<awaitableVars, coroutineVars, switchVars, selectVars, dispatcherVars>>
allVars == <<part, syncVars, coVars>>

CoInit ==
    /\ part \in {"event", "pipe", "barrier", "quota", "awaitable", "coroutine",
                 "switch", "select", "dispatcher"}
    /\ EventInit /\ PipeInit /\ BarrierInit /\ QuotaInit /\ AwaitableInit
    /\ CoroutineInit /\ SwitchInit /\ SelectInit /\ DispatcherInit

InEvent(X) == part = "event" /\ X
    /\ UNCHANGED <<part, coVars, pipeVars, barrierVars, quotaVars>>
InPipe(X) == part = "pipe" /\ X
    /\ UNCHANGED <<part, coVars, eventVars, barrierVars, quotaVars>>
InBarrier(X) == part = "barrier" /\ X
    /\ UNCHANGED <<part, coVars, eventVars, pipeVars, quotaVars>>
InQuota(X) == part = "quota" /\ X
    /\ UNCHANGED <<part, coVars, eventVars, pipeVars, barrierVars>>
InAwaitable(X) == part = "awaitable" /\ X
    /\ UNCHANGED <<part, syncVars, coroutineVars, switchVars, selectVars, dispatcherVars>>
InCoroutine(X) == part = "coroutine" /\ X
    /\ UNCHANGED <<part, syncVars, awaitableVars, switchVars, selectVars, dispatcherVars>>
InSwitch(X) == part = "switch" /\ X
    /\ UNCHANGED <<part, syncVars, awaitableVars, coroutineVars, selectVars, dispatcherVars>>
InSelect(X) == part = "select" /\ X
    /\ UNCHANGED <<part, syncVars, awaitableVars, coroutineVars, switchVars, dispatcherVars>>
InDispatcher(X) == part = "dispatcher" /\ X
    /\ UNCHANGED <<part, syncVars, awaitableVars, coroutineVars, switchVars, selectVars>>

CoNext ==
    \/ InEvent(EventNext) \/ InPipe(PipeNext) \/ InBarrier(BarrierNext)
    \/ InQuota(QuotaNext) \/ InAwaitable(AwaitableNext) \/ InCoroutine(CoroutineNext)
    \/ InSwitch(SwitchNext) \/ InSelect(SelectNext) \/ InDispatcher(DispatcherNext)

\* The fairness of each part's own specification.
CoSpec ==
    /\ CoInit /\ [][CoNext]_allVars
    /\ WF_allVars(InEvent(EventSystem) \/ InPipe(PipeNext) \/ InBarrier(BarrierNext)
                  \/ InQuota(QuotaSystem) \/ InAwaitable(AwaitableNext)
                  \/ InCoroutine(CoroutineNext) \/ InDispatcher(DispatcherNext))
    /\ \A c \in Coros : WF_allVars(InSwitch(SwitchStep(c)))

(***************************************************************************)
(* Nothing waits for ever: what the liveness property of each part says,   *)
(* in the behaviours of that part.                                         *)
(***************************************************************************)
CoProgress ==
    /\ part = "event" => EventWakesAll
    /\ part = "pipe" => PipeDelivers
    /\ part = "barrier" => EveryoneMeets
    /\ part = "quota" => QuotaServes
    /\ part = "awaitable" => AwaitEnds
    /\ part = "coroutine" => FramesEnd
    /\ part = "switch" => EveryoneSwitches
    /\ part = "dispatcher" => GraphEnds

(***************************************************************************)
(* No coroutine is queued on what it waits for when that is there: an      *)
(* iris_event_t that is signaled, quota of an iris_quota_queue_t that was  *)
(* released between the first test and the push of the handle.             *)
(***************************************************************************)
NoWakeupMissed == NoWaiterOnSignaled /\ NoWaiterMissed

(***************************************************************************)
(* Nothing is used after it is gone: top() of an empty list of handles in  *)
(* iris_pipe_t, an iris_awaitable_t its resumed coroutine has destroyed, a *)
(* coroutine frame that has ended while return_value() is still in it.     *)
(***************************************************************************)
NothingDangles == TopNeverEmpty /\ NoDanglingAwaitable /\ FramesAlive

(***************************************************************************)
(* A coroutine that moves between warps runs in one place: on the warps it *)
(* asked iris_switch() for and with nobody else on them, and once per      *)
(* iris_select() although several warps run its callback.                  *)
(***************************************************************************)
MovedOnce == SwitchedExclusively /\ SelectedOnce
=============================================================================
