------------------------------- MODULE Select -------------------------------
(***************************************************************************)
(* iris_select_t of src/src/iris/iris_coroutine.h: a coroutine outside any *)
(* warp is posted to several warps and goes on in the first that runs it.  *)
(* The posts share one atomic handle; who exchanges it for null resumes    *)
(* the coroutine.  The loop over the warps runs on in await_suspend()      *)
(* meanwhile, and reads `end' from the iris_select_t in the frame.         *)
(***************************************************************************)
EXTENDS Naturals

CONSTANT Candidates  \* number of warps in the range

ASSUME SelectAssumption == Candidates \in Nat \ {0}

VARIABLES
    sharedHandle,  \* the handle has not been taken
    selPosted,     \* warps whose queue holds a callback
    selPc,         \* the loop: "post", "check", "next", "left"
    position,      \* its iterator
    selected,      \* the warp the coroutine was resumed in, 0 before
    resumed,       \* how often it was resumed
    frameGone      \* it has run to its end

selectVars == <<sharedHandle, selPosted, selPc, position, selected, resumed, frameGone>>

SelectInit ==
    /\ sharedHandle = TRUE /\ selPosted = {} /\ selPc = "post" /\ position = 1
    /\ selected = 0 /\ resumed = 0 /\ frameGone = FALSE

\* queue_routine_post() to the next warp
SelectPost ==
    /\ selPc = "post"
    /\ selPosted' = selPosted \cup {position} /\ selPc' = "check"
    /\ UNCHANGED <<sharedHandle, position, selected, resumed, frameGone>>

\* "already dispatched to one warp sucessfully, just give up the remaining"
SelectCheck ==
    /\ selPc = "check"
    /\ selPc' = IF sharedHandle THEN "next" ELSE "left"
    /\ UNCHANGED <<sharedHandle, selPosted, position, selected, resumed, frameGone>>

\* ++p, p != end
SelectNextWarp ==
    /\ selPc = "next"
    /\ IF position = Candidates THEN selPc' = "left" /\ UNCHANGED position
                                ELSE selPc' = "post" /\ position' = position + 1
    /\ UNCHANGED <<sharedHandle, selPosted, selected, resumed, frameGone>>

\* Mutant: the handle is read, not exchanged.
SelectCallbackLoads(w) ==
    /\ w \in selPosted /\ selPosted' = selPosted \ {w}
    /\ IF sharedHandle THEN selected' = w /\ resumed' = resumed + 1
                       ELSE UNCHANGED <<selected, resumed>>
    /\ UNCHANGED <<sharedHandle, selPc, position, frameGone>>

\* A warp runs its callback: the first exchange wins.
SelectCallback(w) ==
    /\ w \in selPosted /\ selPosted' = selPosted \ {w}
    /\ IF sharedHandle
         THEN sharedHandle' = FALSE /\ selected' = w /\ resumed' = resumed + 1
         ELSE UNCHANGED <<sharedHandle, selected, resumed>>
    /\ UNCHANGED <<selPc, position, frameGone>>

\* The resumed coroutine ends.
SelectEnd ==
    /\ resumed > 0 /\ ~frameGone /\ frameGone' = TRUE
    /\ UNCHANGED <<sharedHandle, selPosted, selPc, position, selected, resumed>>

SelectNext ==
    \/ SelectPost \/ SelectCheck \/ SelectNextWarp \/ SelectEnd
    \/ \E w \in 1 .. Candidates : SelectCallback(w)

SelectSpec == SelectInit /\ [][SelectNext]_selectVars /\ WF_selectVars(SelectNext)

\* The coroutine is resumed once, though every posted warp runs a callback,
\* and finds the warp that resumed it.
SelectedOnce ==
    /\ resumed <= 1 /\ (resumed = 1 <=> selected # 0)
    /\ selected # 0 => selected <= position

(***************************************************************************)
(* The loop no longer needs the frame once the coroutine has ended ("The   *)
(* early `break' is purely an optimization -- correctness does not depend  *)
(* on it -- because losing callbacks never touch state").                  *)
(***************************************************************************)
=============================================================================
