----------------------------- MODULE Awaitable -----------------------------
(***************************************************************************)
(* iris_awaitable_t of src/src/iris/iris_coroutine.h, as the coroutines of *)
(* src/src/ngx_lua_cpp.cpp use it: one coroutine dispatches a number of    *)
(* awaitables (mandelbrot rows, fetches, socket calls) and then awaits     *)
(* them in order, or awaits them without dispatching first.                *)
(*                                                                         *)
(* Three threads meet on an awaitable: the one inside await_suspend(), the *)
(* one that runs the function, and the one the coroutine is resumed on. A  *)
(* step is one access to `status'.  With a caller warp the coroutine is    *)
(* resumed only after the thread in await_suspend() has left that warp;    *)
(* without one, any pool thread may resume it at once.                     *)
(***************************************************************************)
EXTENDS Naturals, FiniteSets

CONSTANTS
    TaskCount,  \* number of awaitables in the coroutine's frame
    Patterns     \* <<kind, warped, eager>>: "same", "pool", "post" or
                 \* "parallel" target; whether the caller has a warp; whether
                 \* dispatch() is called before co_await

ASSUME AwaitableAssumption ==
    /\ TaskCount \in Nat
    /\ Patterns \subseteq {"same", "pool", "post", "parallel"} \X BOOLEAN \X BOOLEAN

VARIABLES
    pattern,     \* the pattern in use, <<>> before the coroutine starts
    status,      \* status[t]: set of mask bits
    resumeHandle,\* resumeHandle[t]: the handle is stored
    awaitPc,     \* the thread inside await_suspend() of t
    callbackPc,  \* the routine queued for t
    calls,       \* how often func ran
    resumes,     \* resumptions queued by resume_one()
    suspends,    \* suspend_count of the target, from these awaitables
    spawned,     \* awaitables the fan-out loop has dispatched
    current      \* the awaitable the coroutine is at; the frame is gone
                 \* when it is past the last one

awaitableVars == <<pattern, status, resumeHandle, awaitPc, callbackPc, calls,
                   resumes, suspends, spawned, current>>

Tasks == 1 .. TaskCount
Kind == pattern[1]
Warped == pattern[2]
Eager == pattern[3]

AwaitableInit ==
    /\ pattern = <<>> /\ spawned = 0 /\ current = 1 /\ suspends = 0
    /\ status = [t \in Tasks |-> {}]
    /\ resumeHandle = [t \in Tasks |-> FALSE]
    /\ awaitPc = [t \in Tasks |-> "none"] /\ callbackPc = [t \in Tasks |-> "none"]
    /\ calls = [t \in Tasks |-> 0] /\ resumes = [t \in Tasks |-> 0]

AwGoto(t, l) == awaitPc' = [awaitPc EXCEPT ![t] = l]
CbGoto(t, l) == callbackPc' = [callbackPc EXCEPT ![t] = l]
SetBit(t, b) == status' = [status EXCEPT ![t] = @ \cup b]

\* The coroutine starts, on a warp or on a bare pool thread.
StartCoroutine ==
    /\ pattern = <<>> /\ pattern' \in Patterns
    /\ UNCHANGED <<status, resumeHandle, awaitPc, callbackPc, calls, resumes,
                   suspends, spawned, current>>

\* dispatch() past its first fetch_or: on the caller's own warp the function
\* runs at once; otherwise a routine is queued, for a parallel one with the
\* target suspended.
Launch(t) ==
    IF Kind = "same"
      THEN /\ calls' = [calls EXCEPT ![t] = @ + 1]
           /\ SetBit(t, {"dispatched", "completed"})
           /\ UNCHANGED <<callbackPc, suspends>>
      ELSE /\ CbGoto(t, "queued") /\ SetBit(t, {"dispatched"})
           /\ suspends' = IF Kind = "parallel" THEN suspends + 1 ELSE suspends
           /\ UNCHANGED calls

\* The fan-out loop.
FanOut ==
    /\ pattern # <<>> /\ Eager /\ spawned < TaskCount
    /\ Launch(spawned + 1)
    /\ spawned' = spawned + 1
    /\ UNCHANGED <<pattern, resumeHandle, awaitPc, resumes, current>>

\* co_await: await_ready() looks for the completed bit.
AwaitReady(t) ==
    /\ pattern # <<>> /\ current = t /\ awaitPc[t] = "none"
    /\ Eager => spawned = TaskCount
    /\ IF "completed" \in status[t]
         THEN current' = t + 1 /\ UNCHANGED awaitPc
         ELSE AwGoto(t, "handle") /\ UNCHANGED current
    /\ UNCHANGED <<pattern, status, resumeHandle, callbackPc, calls, resumes,
                   suspends, spawned>>

\* await_suspend(): the handle is stored before the waited bit is set.
StoreHandle(t) ==
    /\ awaitPc[t] = "handle"
    /\ resumeHandle' = [resumeHandle EXCEPT ![t] = TRUE] /\ AwGoto(t, "wait")
    /\ UNCHANGED <<pattern, status, callbackPc, calls, resumes, suspends, spawned, current>>

\* resume_one(): the handle is taken and queued.
ResumeOne(t) ==
    /\ resumeHandle' = [resumeHandle EXCEPT ![t] = FALSE]
    /\ resumes' = [resumes EXCEPT ![t] = @ + 1]

\* Mutant: a completion seen by await_suspend() is not acted on.
SetWaitedOnly(t) ==
    /\ awaitPc[t] = "wait" /\ SetBit(t, {"waited"}) /\ AwGoto(t, "redo")
    /\ UNCHANGED <<pattern, resumeHandle, callbackPc, calls, resumes, suspends, spawned, current>>

\* ... status.fetch_or(waited): resume_one() if the routine has completed.
SetWaited(t) ==
    /\ awaitPc[t] = "wait" /\ SetBit(t, {"waited"})
    /\ IF "completed" \in status[t]
         THEN ResumeOne(t) /\ AwGoto(t, "left")
         ELSE AwGoto(t, "redo") /\ UNCHANGED <<resumeHandle, resumes>>
    /\ UNCHANGED <<pattern, callbackPc, calls, suspends, spawned, current>>

\* ... else dispatch(), which returns if that has been done before.  On the
\* same warp it completes and resumes the coroutine from inside the call.
Redispatch(t) ==
    /\ awaitPc[t] = "redo" /\ AwGoto(t, "left")
    /\ IF "dispatched" \in status[t]
         THEN UNCHANGED <<status, callbackPc, calls, suspends, resumeHandle, current>>
         ELSE /\ Launch(t)
              /\ IF Kind = "same"
                   THEN resumeHandle' = [resumeHandle EXCEPT ![t] = FALSE] /\ current' = t + 1
                   ELSE UNCHANGED <<resumeHandle, current>>
    /\ UNCHANGED <<pattern, resumes, spawned>>

\* Mutant: the handle is resumed in place, inside the caller's warp or not.
ResumeCoroutineAtOnce(t) ==
    /\ current = t /\ resumes[t] > 0 /\ current' = t + 1
    /\ UNCHANGED <<pattern, status, resumeHandle, awaitPc, callbackPc, calls,
                   resumes, suspends, spawned>>

\* The coroutine goes on, on the caller's warp or on a pool thread.
ResumeCoroutine(t) ==
    /\ current = t /\ resumes[t] > 0 /\ (Warped => awaitPc[t] = "left")
    /\ current' = t + 1
    /\ UNCHANGED <<pattern, status, resumeHandle, awaitPc, callbackPc, calls,
                   resumes, suspends, spawned>>

\* The queued routine calls func ...
CallFunc(t) ==
    /\ callbackPc[t] = "queued"
    /\ calls' = [calls EXCEPT ![t] = @ + 1]
    /\ CbGoto(t, IF Kind = "parallel" THEN "resume" ELSE "complete")
    /\ UNCHANGED <<pattern, status, resumeHandle, awaitPc, resumes, suspends, spawned, current>>

\* ... resumes the target it was suspended for ...
ResumeTarget(t) ==
    /\ callbackPc[t] = "resume" /\ suspends' = suspends - 1 /\ CbGoto(t, "complete")
    /\ UNCHANGED <<pattern, status, resumeHandle, awaitPc, calls, resumes, spawned, current>>

\* Mutant: the routine resumes the coroutine whether or not it waits.
SetCompletedResumes(t) ==
    /\ callbackPc[t] = "complete" /\ SetBit(t, {"completed"})
    /\ ResumeOne(t) /\ CbGoto(t, "done")
    /\ UNCHANGED <<pattern, awaitPc, calls, suspends, spawned, current>>

\* ... and sets the completed bit: resume_one() if somebody waits.
SetCompleted(t) ==
    /\ callbackPc[t] = "complete" /\ SetBit(t, {"completed"})
    /\ IF "waited" \in status[t] THEN CbGoto(t, "resumeone") ELSE CbGoto(t, "done")
    /\ UNCHANGED <<pattern, resumeHandle, awaitPc, calls, resumes, suspends, spawned, current>>

CallbackResume(t) ==
    /\ callbackPc[t] = "resumeone" /\ ResumeOne(t) /\ CbGoto(t, "done")
    /\ UNCHANGED <<pattern, status, awaitPc, calls, suspends, spawned, current>>

AwaitableNext ==
    \/ StartCoroutine \/ FanOut
    \/ \E t \in Tasks :
         \/ AwaitReady(t) \/ StoreHandle(t) \/ SetWaited(t) \/ Redispatch(t)
         \/ ResumeCoroutine(t) \/ CallFunc(t) \/ ResumeTarget(t)
         \/ SetCompleted(t) \/ CallbackResume(t)

AwaitableSpec ==
    AwaitableInit /\ [][AwaitableNext]_awaitableVars /\ WF_awaitableVars(AwaitableNext)

(***************************************************************************)
(* The coroutine passes an awaitable only with its function executed, once,*)
(* and is resumed for it at most once: the status bits decide the race of  *)
(* completion and await_suspend().  When it is past all of them no target  *)
(* is left suspended.                                                      *)
(***************************************************************************)
AwaitsResult ==
    /\ \A t \in Tasks : resumes[t] <= 1 /\ calls[t] <= 1 /\ (current > t => calls[t] = 1)
    /\ current > TaskCount => suspends = 0

(***************************************************************************)
(* Nobody still has to touch an awaitable when the coroutine has run to    *)
(* its end and its frame is gone.  ("Public so that callers can            *)
(* pre-dispatch an awaitable and overlap its work with other code before   *)
(* issuing the final `co_await'".)                                         *)
(***************************************************************************)
NoDanglingAwaitable ==
    current > TaskCount =>
      \A t \in Tasks : /\ awaitPc[t] \notin {"handle", "wait", "redo"}
                       /\ callbackPc[t] \in {"none", "done"}

\* The fan-in ends.
AwaitEnds == <>(current > TaskCount)

=============================================================================
