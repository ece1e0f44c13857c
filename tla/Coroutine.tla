----------------------------- MODULE Coroutine -----------------------------
(***************************************************************************)
(* iris_coroutine_t of src/src/iris/iris_coroutine.h: frames, completion   *)
(* and the chaining of co_await.  A resume is an ordinary call, so a       *)
(* thread has a stack of coroutines: the child's completion resumes its    *)
(* parent from inside return_value(), and the child's frame is destroyed   *)
(* (final_suspend() is suspend_never) when that call has come back.  A     *)
(* coroutine that suspends on something else leaves its stack and is       *)
(* resumed by any thread.                                                  *)
(***************************************************************************)
EXTENDS Naturals, Sequences

CONSTANTS
    FrameThreads,  \* threads that resume coroutines
    Frames,        \* bound: number of frames ever created, 1 is the root
    Suspensions    \* bound: suspensions in all

ASSUME CoroutineAssumption == Frames \in Nat \ {0} /\ Suspensions \in Nat

VARIABLES
    frame,        \* state of each frame
    parent,       \* the frame a completion resumes, 0 for none
    awaitResult,  \* the frame whose return slot await_result points to, or 0
    callStack,    \* per thread, innermost last: bodies and await_suspend() calls
    completions,  \* how often each completion was called
    suspended     \* suspensions so far

coroutineVars == <<frame, parent, awaitResult, callStack, completions, suspended>>

FrameIds == 1 .. Frames
Top(th) == callStack[th][Len(callStack[th])]
Below(th) == SubSeq(callStack[th], 1, Len(callStack[th]) - 1)
Runs(th, f) == callStack[th] # <<>> /\ Top(th) = <<f, "body">>
Push(th, f) == callStack' = [callStack EXCEPT ![th] = Append(@, <<f, "body">>)]
PopFrame(th) == callStack' = [callStack EXCEPT ![th] = Below(th)]
FrameIs(f, s) == frame' = [frame EXCEPT ![f] = s]

\* The root is created suspended (initial_suspend), with a completion.
CoroutineInit ==
    /\ frame = [f \in FrameIds |-> IF f = 1 THEN "created" ELSE "none"]
    /\ parent = [f \in FrameIds |-> 0] /\ awaitResult = [f \in FrameIds |-> 0]
    /\ callStack = [th \in FrameThreads |-> <<>>]
    /\ completions = [f \in FrameIds |-> 0] /\ suspended = 0

\* run(): the handle moves out of the object and is resumed.
RunRoot(th) ==
    /\ callStack[th] = <<>> /\ frame[1] = "created"
    /\ FrameIs(1, "running") /\ Push(th, 1)
    /\ UNCHANGED <<parent, awaitResult, completions, suspended>>

\* co_await of a child: complete() makes its completion resume this frame,
\* and run() enters it on the same stack.
AwaitChild(th, f, c) ==
    /\ Runs(th, f) /\ frame[f] = "running"
    /\ frame[c] = "none" /\ \A g \in 1 .. c - 1 : frame[g] # "none"
    /\ frame' = [frame EXCEPT ![f] = "awaiting", ![c] = "running"]
    /\ parent' = [parent EXCEPT ![c] = f]
    /\ callStack' = [callStack EXCEPT ![th] = Below(th) \o <<<<f, "await">>, <<c, "body">>>>]
    /\ UNCHANGED <<awaitResult, completions, suspended>>

\* The coroutine suspends on a warp, an event, a pipe ...
SuspendFrame(th, f) ==
    /\ Runs(th, f) /\ frame[f] = "running" /\ suspended < Suspensions
    /\ FrameIs(f, "suspended") /\ PopFrame(th) /\ suspended' = suspended + 1
    /\ UNCHANGED <<parent, awaitResult, completions>>

\* ... and is resumed, here or on another thread.
ResumeFrame(th, f) ==
    /\ callStack[th] = <<>> /\ frame[f] = "suspended"
    /\ FrameIs(f, "running") /\ Push(th, f)
    /\ UNCHANGED <<parent, awaitResult, completions, suspended>>

\* The child has left the stack above await_suspend(), which returns without
\* touching the frame: another thread may have resumed or even destroyed it.
ReturnFromAwait(th) ==
    /\ callStack[th] # <<>> /\ Top(th)[2] = "await" /\ PopFrame(th)
    /\ UNCHANGED <<frame, parent, awaitResult, completions, suspended>>

\* Mutant: the frame is destroyed before the completion has come back.
ReturnValueDestroys(th, f) ==
    /\ Runs(th, f) /\ frame[f] = "running"
    /\ completions' = [completions EXCEPT ![f] = @ + 1]
    /\ IF parent[f] = 0
         THEN FrameIs(f, "returning") /\ UNCHANGED <<awaitResult, callStack>>
         ELSE /\ frame' = [frame EXCEPT ![f] = "gone", ![parent[f]] = "resumed"]
              /\ awaitResult' = [awaitResult EXCEPT ![parent[f]] = f]
              /\ Push(th, parent[f])
    /\ UNCHANGED <<parent, suspended>>

\* return_value(): the completion publishes the return slot and resumes the
\* parent from inside.
ReturnValue(th, f) ==
    /\ Runs(th, f) /\ frame[f] = "running"
    /\ completions' = [completions EXCEPT ![f] = @ + 1]
    /\ IF parent[f] = 0
         THEN FrameIs(f, "returning") /\ UNCHANGED <<awaitResult, callStack>>
         ELSE /\ frame' = [frame EXCEPT ![f] = "returning", ![parent[f]] = "resumed"]
              /\ awaitResult' = [awaitResult EXCEPT ![parent[f]] = f]
              /\ Push(th, parent[f])
    /\ UNCHANGED <<parent, suspended>>

\* await_resume(): the parent moves the value out of the return slot.
TakeResult(th, f) ==
    /\ Runs(th, f) /\ frame[f] = "resumed"
    /\ FrameIs(f, "running") /\ awaitResult' = [awaitResult EXCEPT ![f] = 0]
    /\ UNCHANGED <<parent, callStack, completions, suspended>>

\* final_suspend(): the frame is destroyed.
DestroyFrame(th, f) ==
    /\ Runs(th, f) /\ frame[f] = "returning"
    /\ FrameIs(f, "gone") /\ PopFrame(th)
    /\ UNCHANGED <<parent, awaitResult, completions, suspended>>

CoroutineNext ==
    \E th \in FrameThreads :
      \/ RunRoot(th) \/ ReturnFromAwait(th)
      \/ \E f \in FrameIds :
           \/ SuspendFrame(th, f) \/ ResumeFrame(th, f)
           \/ ReturnValue(th, f) \/ TakeResult(th, f) \/ DestroyFrame(th, f)
           \/ \E c \in FrameIds : AwaitChild(th, f, c)

CoroutineSpec ==
    CoroutineInit /\ [][CoroutineNext]_coroutineVars /\ WF_coroutineVars(CoroutineNext)

Bodies == {p \in FrameThreads \X (1 .. 2 * Frames) :
             p[2] <= Len(callStack[p[1]]) /\ callStack[p[1]][p[2]][2] = "body"}
BodyOf(p) == callStack[p[1]][p[2]][1]

(***************************************************************************)
(* A thread never runs in, returns to or reads from a destroyed frame: the *)
(* return slot await_result points to outlives await_resume(), and a       *)
(* parent that ends inside its child's completion takes nothing the child  *)
(* still needs.                                                            *)
(***************************************************************************)
FramesAlive ==
    /\ \A p \in Bodies : frame[BodyOf(p)] \in {"running", "resumed", "returning"}
    /\ \A f \in FrameIds : awaitResult[f] # 0 => frame[awaitResult[f]] = "returning"

\* Every frame that was created is completed once and destroyed.
FramesEnd ==
    <>(\A f \in FrameIds : /\ frame[f] \in {"none", "gone"}
                           /\ completions[f] = IF frame[f] = "gone" THEN 1 ELSE 0)

=============================================================================
