------------------------------- MODULE Switch -------------------------------
(***************************************************************************)
(* iris_switch_t of src/src/iris/iris_coroutine.h: a coroutine moves to a  *)
(* warp, to the bare pool, or to a pair of warps it must be in at once.    *)
(* For a pair it is posted to one warp and from there tries to enter the   *)
(* other; when that fails the two change places and it is posted again.    *)
(*                                                                         *)
(* A warp is what module Warp shows it to be: one owner, a queue of posted *)
(* routines, and a suspend count that keeps owners out while coroutines    *)
(* are in it in parallel.                                                  *)
(***************************************************************************)
EXTENDS Naturals, Sequences, FiniteSets

CONSTANTS
    Coros, SwitchWarps,
    NoWarp,      \* the null pointer
    Wishes,      \* Wishes[c]: the sequence of switches c makes
    OutsidePool  \* coroutines whose first switch comes from no pool thread

\* A wish: iris_switch(target, other, parallel_target, parallel_other).
Wish(t, o, pt, po) == [target |-> t, other |-> o, parTarget |-> pt, parOther |-> po]

\* A second warp is never the first one again.
ASSUME SwitchAssumption ==
    /\ IsFiniteSet(Coros) /\ "absent" \notin Coros
    /\ NoWarp \notin SwitchWarps
    /\ Wishes \in [Coros -> Seq([target : SwitchWarps \cup {NoWarp},
                                other : SwitchWarps \cup {NoWarp},
                                parTarget : BOOLEAN, parOther : BOOLEAN])]
    /\ \A c \in Coros : \A i \in DOMAIN Wishes[c] :
         LET w == Wishes[c][i] IN
         /\ w.parTarget => w.target # NoWarp
         /\ w.parOther => w.other # NoWarp
         /\ w.target = w.other => w.target = NoWarp

VARIABLES
    owner,       \* owner[w]: the coroutine in w, or Absent
    suspendOf,   \* suspend_count
    posted,      \* posted[w]: coroutines whose handler is queued in w
    parPosted,   \* parPosted[w]: those queued as parallel routines
    sw,          \* sw[c]: the iris_switch_t object of c
    swPc,        \* "start", "posted", "handler", "inside", "end"
    holds,       \* holds[c]: warps c owns
    shares,      \* shares[c]: warps c has suspended to be in
    step         \* switches begun

switchVars == <<owner, suspendOf, posted, parPosted, sw, swPc, holds, shares, step>>
warpState == <<owner, suspendOf>>

Absent == "absent"
NullSwitch == Wish(NoWarp, NoWarp, FALSE, FALSE)
SSet(f, a, v) == [f EXCEPT ![a] = v]

SwitchInit ==
    /\ owner = [w \in SwitchWarps |-> Absent]
    /\ suspendOf = [w \in SwitchWarps |-> 0]
    /\ posted = [w \in SwitchWarps |-> <<>>] /\ parPosted = [w \in SwitchWarps |-> {}]
    /\ sw = [c \in Coros |-> NullSwitch] /\ swPc = [c \in Coros |-> "start"]
    /\ holds = [c \in Coros |-> {}] /\ shares = [c \in Coros |-> {}]
    /\ step = [c \in Coros |-> 0]

\* The warps c is in are left: routines end, preempt and suspend guards go.
LeaveAll(c) ==
    /\ owner' = [w \in SwitchWarps |-> IF w \in holds[c] THEN Absent ELSE owner[w]]
    /\ suspendOf' = [w \in SwitchWarps |->
                       IF w \in shares[c] THEN suspendOf[w] - 1 ELSE suspendOf[w]]
    /\ holds' = SSet(holds, c, {}) /\ shares' = SSet(shares, c, {})

\* The warp c runs in: what the switch records as source.
SourceOf(c) == IF sw[c].target \in holds[c] THEN sw[c].target ELSE NoWarp

\* await_ready(): nothing to do when c is where it wants to be.
Ready(c, w) ==
    /\ ~w.parTarget /\ ~w.parOther
    /\ IF SourceOf(c) = w.target THEN w.other \in {NoWarp, SourceOf(c)}
                                 ELSE w.target = NoWarp /\ SourceOf(c) = w.other

\* The post that ends await_suspend() and a failed handler().
PostTo(c, w, par) ==
    IF w = NoWarp THEN UNCHANGED <<posted, parPosted>>
    ELSE IF par THEN parPosted' = SSet(parPosted, w, parPosted[w] \cup {c}) /\ UNCHANGED posted
                ELSE posted' = SSet(posted, w, Append(posted[w], c)) /\ UNCHANGED parPosted

SwapPair(w) == Wish(w.other, w.target, w.parOther, w.parTarget)

\* co_await iris_switch(...)
BeginSwitch(c) ==
    /\ swPc[c] \in {"start", "inside"} /\ step[c] < Len(Wishes[c])
    /\ LET w == Wishes[c][step[c] + 1]
           q == IF w.target = NoWarp THEN SwapPair(w) ELSE w
       IN  IF Ready(c, w)
             THEN /\ swPc' = SSet(swPc, c, "inside")
                  /\ UNCHANGED <<warpState, posted, parPosted, sw, holds, shares>>
             ELSE /\ sw' = SSet(sw, c, q)
                  /\ PostTo(c, q.target, q.parTarget /\ (c \notin OutsidePool \/ step[c] > 0))
                  /\ swPc' = SSet(swPc, c, "posted")
                  /\ LeaveAll(c)
    /\ step' = SSet(step, c, step[c] + 1)

\* The handler is called: in the pool, in the warp, or in parallel to it.
EnterPool(c) ==
    /\ swPc[c] = "posted" /\ sw[c].target = NoWarp
    /\ swPc' = SSet(swPc, c, "handler")
    /\ UNCHANGED <<warpState, posted, parPosted, sw, holds, shares, step>>

EnterWarp(c) ==
    LET w == sw[c].target IN
    /\ swPc[c] = "posted" /\ w # NoWarp /\ posted[w] # <<>> /\ Head(posted[w]) = c
    /\ owner[w] = Absent /\ suspendOf[w] = 0
    /\ owner' = SSet(owner, w, c) /\ posted' = SSet(posted, w, Tail(posted[w]))
    /\ holds' = SSet(holds, c, {w}) /\ swPc' = SSet(swPc, c, "handler")
    /\ UNCHANGED <<suspendOf, parPosted, sw, shares, step>>

EnterParallel(c) ==
    LET w == sw[c].target IN
    /\ swPc[c] = "posted" /\ w # NoWarp /\ c \in parPosted[w] /\ owner[w] = Absent
    /\ suspendOf' = SSet(suspendOf, w, suspendOf[w] + 1)
    /\ parPosted' = SSet(parPosted, w, parPosted[w] \ {c})
    /\ shares' = SSet(shares, c, {w}) /\ swPc' = SSet(swPc, c, "handler")
    /\ UNCHANGED <<owner, posted, sw, holds, step>>

\* handler(): no second warp, the coroutine is resumed.
HandlerSingle(c) ==
    /\ swPc[c] = "handler" /\ sw[c].other = NoWarp
    /\ swPc' = SSet(swPc, c, "inside")
    /\ UNCHANGED <<warpState, posted, parPosted, sw, holds, shares, step>>

\* ... suspend the second warp, and stay if nobody is running in it;
HandlerShare(c) ==
    LET w == sw[c].other IN
    /\ swPc[c] = "handler" /\ w # NoWarp /\ sw[c].parOther /\ owner[w] = Absent
    /\ suspendOf' = SSet(suspendOf, w, suspendOf[w] + 1)
    /\ shares' = SSet(shares, c, shares[c] \cup {w})
    /\ swPc' = SSet(swPc, c, "inside")
    /\ UNCHANGED <<owner, posted, parPosted, sw, holds, step>>

\* ... or preempt it.
HandlerPreempt(c) ==
    LET w == sw[c].other IN
    /\ swPc[c] = "handler" /\ w # NoWarp /\ ~sw[c].parOther
    /\ owner[w] = Absent /\ suspendOf[w] = 0
    /\ owner' = SSet(owner, w, c) /\ holds' = SSet(holds, c, holds[c] \cup {w})
    /\ swPc' = SSet(swPc, c, "inside")
    /\ UNCHANGED <<suspendOf, posted, parPosted, sw, shares, step>>

\* Mutant: the swap leaves the parallel flags where they were.
HandlerSwapWarpsOnly(c) ==
    LET w == sw[c].other
        q == Wish(w, sw[c].target, sw[c].parTarget, sw[c].parOther) IN
    /\ swPc[c] = "handler" /\ w # NoWarp
    /\ owner[w] # Absent \/ (~sw[c].parOther /\ suspendOf[w] # 0)
    /\ sw' = SSet(sw, c, q)
    /\ PostTo(c, q.target, q.parTarget)
    /\ swPc' = SSet(swPc, c, "posted") /\ LeaveAll(c) /\ UNCHANGED step

\* "failed, swap and continue dispatching until success!"
HandlerSwap(c) ==
    LET w == sw[c].other
        q == SwapPair(sw[c]) IN
    /\ swPc[c] = "handler" /\ w # NoWarp
    /\ owner[w] # Absent \/ (~sw[c].parOther /\ suspendOf[w] # 0)
    /\ sw' = SSet(sw, c, q)
    /\ PostTo(c, q.target, q.parTarget)
    /\ swPc' = SSet(swPc, c, "posted") /\ LeaveAll(c) /\ UNCHANGED step

\* The coroutine ends and leaves its warps.
EndCoroutine(c) ==
    /\ swPc[c] = "inside" /\ step[c] = Len(Wishes[c])
    /\ swPc' = SSet(swPc, c, "end") /\ LeaveAll(c)
    /\ UNCHANGED <<posted, parPosted, sw, step>>

SwitchStep(c) ==
    \/ BeginSwitch(c) \/ EnterPool(c) \/ EnterWarp(c) \/ EnterParallel(c)
    \/ HandlerSingle(c) \/ HandlerShare(c) \/ HandlerPreempt(c) \/ HandlerSwap(c)
    \/ EndCoroutine(c)

SwitchNext == \E c \in Coros : SwitchStep(c)

\* Threads go on; a warp with posted routines is drained (module Warp).
SwitchSpec ==
    /\ SwitchInit /\ [][SwitchNext]_switchVars
    /\ \A c \in Coros : WF_switchVars(SwitchStep(c))

(***************************************************************************)
(* A coroutine that has been switched is in every warp it asked for, alone *)
(* in those it did not ask for in parallel, whatever it met on the way and *)
(* however often its pair was swapped.                                     *)
(***************************************************************************)
SwitchedExclusively ==
    \A c \in Coros : swPc[c] = "inside" /\ step[c] > 0 =>
      LET w == Wishes[c][step[c]]
          asked == {w.target, w.other} \ {NoWarp}
          parallel == {x \in asked : (x = w.target /\ w.parTarget) \/ (x = w.other /\ w.parOther)}
      IN  /\ asked \subseteq holds[c] \cup shares[c]
          /\ asked \ parallel \subseteq holds[c]
          /\ \A d \in Coros \ {c} : holds[d] \cap (holds[c] \cup shares[c]) = {}

\* As long as at most one coroutine wants a pair, everyone arrives.
EveryoneSwitches == \A c \in Coros : <>(swPc[c] = "end")

=============================================================================
