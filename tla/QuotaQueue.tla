----------------------------- MODULE QuotaQueue -----------------------------
(***************************************************************************)
(* iris_quota_queue_t of src/src/iris/iris_coroutine.h over iris_quota_t   *)
(* of src/src/iris/iris_common.h: coroutines co_await an amount of several *)
(* kinds of quota, hold it in a resource_t and give it back.               *)
(*                                                                         *)
(* quota.acquire() takes the kinds one by one with a CAS each and returns  *)
(* what it took when one is short; every such access is a step, so others  *)
(* see the amount in between.  The same steps run in three callers: the    *)
(* probe of guard(), the retry of acquire_queued() and the wake loop of    *)
(* release(), the last two under `lock'.                                   *)
(***************************************************************************)
EXTENDS Naturals, Sequences, FiniteSets, Functions

CONSTANTS
    Users,      \* coroutines that acquire and release
    Kinds,      \* number of kinds, iris_quota_t's n
    Capacity,   \* amount of each kind at the start
    Request,    \* what each user asks for
    Rounds      \* bound: guard() calls per user

Amounts == [1 .. Kinds -> Nat]

ASSUME QuotaAssumption ==
    /\ Kinds \in Nat \ {0} /\ Capacity \in Amounts /\ Rounds \in Nat
    /\ Request \in [Users -> Amounts]
    /\ IsFiniteSet(Users) /\ "free" \notin Users

VARIABLES
    quantities,   \* the atomics of iris_quota_t
    quotaLock,    \* holder of `lock', or "free"
    quotaHandles, \* queue of waiting users
    quotaPc,      \* labels
    phase,        \* of the quota.acquire() in progress: "take" or "undo"
    taken,        \* kinds it has taken, or release() still has to give back
    amount,       \* resource_t::amount
    giving,       \* the argument of release()
    round         \* guard() calls so far

quotaVars == <<quantities, quotaLock, quotaHandles, quotaPc, phase, taken,
               amount, giving, round>>

Zero == [k \in 1 .. Kinds |-> 0]
Plus(a, b) == [k \in 1 .. Kinds |-> a[k] + b[k]]
Minus(a, b) == [k \in 1 .. Kinds |-> a[k] - b[k]]
Positive(a) == {k \in 1 .. Kinds : a[k] # 0}
\* The kind a loop from the first to the last comes to next.
NextOf(S) == {k \in S : \A j \in S : k <= j}

QuotaInit ==
    /\ quantities = Capacity
    /\ quotaLock = "free" /\ quotaHandles = <<>>
    /\ quotaPc = [u \in Users |-> "idle"]
    /\ phase = [u \in Users |-> "take"]
    /\ taken = [u \in Users |-> {}]
    /\ amount = [u \in Users |-> Zero] /\ giving = [u \in Users |-> Zero]
    /\ round = [u \in Users |-> 0]

QuotaGoto(u, l) == quotaPc' = [quotaPc EXCEPT ![u] = l]

\* The amount the acquire() in progress is for.
Wanted(u) == IF quotaPc[u] = "wake" THEN Request[Head(quotaHandles)] ELSE Request[u]

\* Where acquire() returns to, with its result.
After(u, ok) ==
    CASE quotaPc[u] = "probe" -> IF ok THEN "held" ELSE "queue"
      [] quotaPc[u] = "retry" -> IF ok THEN "retried" ELSE "push"
      [] quotaPc[u] = "wake" -> IF ok THEN "pop" ELSE "stop"

Own(u, l) == IF l = "held" THEN amount' = [amount EXCEPT ![u] = Request[u]]
                           ELSE UNCHANGED amount

\* Mutant: on a shortage the kinds taken before it are kept.
AcquireForgets(u) ==
    /\ quotaPc[u] \in {"probe", "retry", "wake"} /\ phase[u] = "take"
    /\ LET missing == Positive(Wanted(u)) \ taken[u]
           enough == {k \in NextOf(missing) : quantities[k] >= Wanted(u)[k]}
       IN  \/ \E k \in enough :
                /\ quantities' = [quantities EXCEPT ![k] = @ - Wanted(u)[k]]
                /\ taken' = [taken EXCEPT ![u] = @ \cup {k}]
                /\ UNCHANGED <<quotaPc, amount, phase>>
           \/ /\ enough = {} /\ taken' = [taken EXCEPT ![u] = {}]
              /\ QuotaGoto(u, After(u, missing = {}))
              /\ Own(u, After(u, missing = {}))
              /\ UNCHANGED <<quantities, phase>>
    /\ UNCHANGED <<quotaLock, quotaHandles, giving, round>>

\* quota.acquire(): the next kind, the shortage that ends the loop, or success.
AcquireKind(u) ==
    /\ quotaPc[u] \in {"probe", "retry", "wake"} /\ phase[u] = "take"
    /\ LET missing == Positive(Wanted(u)) \ taken[u] IN
       \/ /\ missing = {} /\ taken' = [taken EXCEPT ![u] = {}]
          /\ QuotaGoto(u, After(u, TRUE)) /\ Own(u, After(u, TRUE))
          /\ UNCHANGED <<quantities, phase>>
       \/ \E k \in NextOf(missing) :
            \/ /\ quantities[k] >= Wanted(u)[k]
               /\ quantities' = [quantities EXCEPT ![k] = @ - Wanted(u)[k]]
               /\ taken' = [taken EXCEPT ![u] = @ \cup {k}]
               /\ UNCHANGED <<quotaPc, amount, phase>>
            \/ /\ quantities[k] < Wanted(u)[k]
               /\ phase' = [phase EXCEPT ![u] = "undo"]
               /\ UNCHANGED <<quantities, taken, quotaPc, amount>>
    /\ UNCHANGED <<quotaLock, quotaHandles, giving, round>>

\* ... "failed, return back", one kind after the other.
AcquireUndo(u) ==
    /\ phase[u] = "undo"
    /\ \/ /\ taken[u] = {} /\ QuotaGoto(u, After(u, FALSE))
          /\ phase' = [phase EXCEPT ![u] = "take"]
          /\ UNCHANGED <<quantities, taken>>
       \/ \E k \in NextOf(taken[u]) :
            /\ quantities' = [quantities EXCEPT ![k] = @ + Wanted(u)[k]]
            /\ taken' = [taken EXCEPT ![u] = @ \ {k}]
            /\ UNCHANGED <<quotaPc, phase>>
    /\ UNCHANGED <<quotaLock, quotaHandles, amount, giving, round>>

\* guard(): awaitable_t is built with the result of a first acquire().
Guard(u) ==
    /\ quotaPc[u] = "idle" /\ round[u] < Rounds
    /\ round' = [round EXCEPT ![u] = @ + 1] /\ QuotaGoto(u, "probe")
    /\ UNCHANGED <<quantities, quotaLock, quotaHandles, phase, taken, amount, giving>>

\* Mutant: acquire_queued() pushes without a second acquire().
AcquireQueuedAtOnce(u) ==
    /\ quotaPc[u] = "queue" /\ quotaLock = "free"
    /\ quotaLock' = u /\ QuotaGoto(u, "push")
    /\ UNCHANGED <<quantities, quotaHandles, phase, taken, amount, giving, round>>

\* acquire_queued(): the lock, then a second acquire().
AcquireQueued(u) ==
    /\ quotaPc[u] = "queue" /\ quotaLock = "free"
    /\ quotaLock' = u /\ QuotaGoto(u, "retry")
    /\ UNCHANGED <<quantities, quotaHandles, phase, taken, amount, giving, round>>

\* ... with the quota: unlock and dispatch the coroutine itself.
RetryDispatch(u) ==
    /\ quotaPc[u] = "retried"
    /\ quotaLock' = "free" /\ QuotaGoto(u, "ready")
    /\ UNCHANGED <<quantities, quotaHandles, phase, taken, amount, giving, round>>

\* ... without: handles.push().
PushWaiter(u) ==
    /\ quotaPc[u] = "push"
    /\ quotaHandles' = Append(quotaHandles, u)
    /\ quotaLock' = "free" /\ QuotaGoto(u, "waiting")
    /\ UNCHANGED <<quantities, phase, taken, amount, giving, round>>

\* The dispatched coroutine resumes: await_resume() builds its resource_t.
QuotaResume(u) ==
    /\ quotaPc[u] = "ready"
    /\ QuotaGoto(u, "held") /\ amount' = [amount EXCEPT ![u] = Request[u]]
    /\ UNCHANGED <<quantities, quotaLock, quotaHandles, phase, taken, giving, round>>

\* resource_t::release(delta) or clear(): the amount leaves the resource.
ReleaseResource(u) ==
    /\ quotaPc[u] = "held"
    /\ \E delta \in {d \in [1 .. Kinds -> 0 .. 1] : \A k \in 1 .. Kinds : d[k] <= amount[u][k]}
                    \cup {amount[u]} :
         /\ delta # Zero
         /\ amount' = [amount EXCEPT ![u] = Minus(@, delta)]
         /\ giving' = [giving EXCEPT ![u] = delta]
         /\ taken' = [taken EXCEPT ![u] = Positive(delta)]
    /\ QuotaGoto(u, "give")
    /\ UNCHANGED <<quantities, quotaLock, quotaHandles, phase, round>>

\* quota.release(): one fetch_add per kind.
ReleaseKind(u) ==
    /\ quotaPc[u] = "give"
    /\ \E k \in NextOf(taken[u]) :
       /\ quantities' = [quantities EXCEPT ![k] = @ + giving[u][k]]
       /\ taken' = [taken EXCEPT ![u] = @ \ {k}]
    /\ UNCHANGED <<quotaLock, quotaHandles, quotaPc, phase, amount, giving, round>>

\* Where release() returns to: clear() leaves the resource empty.
Released(u) == IF amount[u] = Zero THEN "idle" ELSE "held"

\* release() looks for a waiter, under the lock.
ReleaseLook(u) ==
    /\ quotaPc[u] = "give" /\ taken[u] = {} /\ quotaLock = "free"
    /\ IF quotaHandles = <<>>
         THEN QuotaGoto(u, Released(u)) /\ UNCHANGED quotaLock
         ELSE QuotaGoto(u, "wake") /\ quotaLock' = u
    /\ UNCHANGED <<quantities, quotaHandles, phase, taken, amount, giving, round>>

\* ... wakes the top one with the quota taken for it, and looks again.
WakeTop(u) ==
    /\ quotaPc[u] = "pop"
    /\ quotaHandles' = Tail(quotaHandles) /\ quotaLock' = "free"
    /\ quotaPc' = [quotaPc EXCEPT ![u] = "give", ![Head(quotaHandles)] = "ready"]
    /\ UNCHANGED <<quantities, phase, taken, amount, giving, round>>

\* ... or stops at the first one that cannot be served.
WakeStop(u) ==
    /\ quotaPc[u] = "stop"
    /\ quotaLock' = "free" /\ QuotaGoto(u, Released(u))
    /\ UNCHANGED <<quantities, quotaHandles, phase, taken, amount, giving, round>>

\* resource_t::merge(): u takes over the amount of v, whose host is cleared.
Merge(u, v) ==
    /\ u # v /\ quotaPc[u] = "held" /\ quotaPc[v] = "held"
    /\ amount' = [amount EXCEPT ![u] = Plus(@, amount[v]), ![v] = Zero]
    /\ QuotaGoto(v, "idle")
    /\ UNCHANGED <<quantities, quotaLock, quotaHandles, phase, taken, giving, round>>

QuotaStep(u) ==
    \/ AcquireKind(u) \/ AcquireUndo(u) \/ AcquireQueued(u) \/ RetryDispatch(u)
    \/ PushWaiter(u) \/ QuotaResume(u) \/ ReleaseResource(u) \/ ReleaseKind(u)
    \/ ReleaseLook(u) \/ WakeTop(u) \/ WakeStop(u)

QuotaNext ==
    \E u \in Users : Guard(u) \/ QuotaStep(u) \/ \E v \in Users : Merge(u, v)

\* Threads in the middle of a call go on, and holders give back what they
\* hold; guard() and merge() are up to the program.
QuotaSystem == \E u \in Users : QuotaStep(u)

QuotaSpec == QuotaInit /\ [][QuotaNext]_quotaVars /\ WF_quotaVars(QuotaSystem)

\* What a user has out of the quota: its resource, an acquire() or a
\* release() half way, and the amount taken for a coroutine not yet resumed.
Out(u, k) ==
    amount[u][k]
    + (IF k \in taken[u] THEN IF quotaPc[u] = "give" THEN giving[u][k] ELSE Wanted(u)[k] ELSE 0)
    + (IF quotaPc[u] \in {"retried", "ready"} THEN Request[u][k] ELSE 0)
    + (IF quotaPc[u] = "pop" THEN Request[Head(quotaHandles)][k] ELSE 0)

\* The units of kind k that are out, each with the user who has it.
UnitsOut(k) == UNION {{u} \X (1 .. Out(u, k)) : u \in Users}

(***************************************************************************)
(* No quota is created or lost, however the acquires that fail half way,   *)
(* partial releases, merges and wakeups interleave.                        *)
(***************************************************************************)
QuotaConserved ==
    \A k \in 1 .. Kinds : quantities[k] + Cardinality(UnitsOut(k)) = Capacity[k]

(***************************************************************************)
(* When nobody is inside a call, the top waiter really lacks quota: no     *)
(* waiter is missed ("so we cannot miss a waiter that is in the middle of  *)
(* pushing").                                                              *)
(***************************************************************************)
NoWaiterMissed ==
    (\A u \in Users : quotaPc[u] \in {"idle", "held", "waiting"}) /\ quotaHandles # <<>> =>
      \E k \in 1 .. Kinds : quantities[k] < Request[Head(quotaHandles)][k]

\* Every coroutine that waits for quota gets it.
QuotaServes ==
    \A u \in Users : quotaPc[u] = "queue" ~> quotaPc[u] \in {"ready", "held"}

=============================================================================
