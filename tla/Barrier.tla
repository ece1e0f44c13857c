------------------------------ MODULE Barrier ------------------------------
(***************************************************************************)
(* iris_barrier_t of src/src/iris/iris_coroutine.h: a set of coroutines    *)
(* meets again and again; release() takes one participant out for good,    *)
(* dispatch(callback) takes part without suspending.  A step is one access *)
(* to an atomic or one turn of a loop over the vectors of the barrier.     *)
(*                                                                         *)
(* Every coroutine runs in a warp of its own: the thread that completes    *)
(* the barrier inside await_suspend() holds that warp, so its coroutine    *)
(* resumes only after complete() has returned.                             *)
(*                                                                         *)
(* Calm restricts the schedules to those in which every release() returns  *)
(* before anyone awaits, and in which no thread is delayed between its     *)
(* fetch_add on commit_count and its load of max_await_count for so long   *)
(* that another one has completed and shrunk the barrier.                  *)
(***************************************************************************)
EXTENDS Naturals, Sequences, FiniteSets

CONSTANTS
    Parties,       \* coroutines that co_await the barrier
    Callers,       \* threads that call dispatch(callback)
    Releasers,     \* threads that call release() once
    Meetings,      \* bound: rounds of each party and caller
    Calm           \* TRUE: see below

Nobody == "nobody"

ASSUME BarrierAssumption ==
    /\ IsFiniteSet(Parties \cup Callers \cup Releasers)
    /\ Meetings \in Nat /\ Calm \in BOOLEAN
    /\ Parties \cap Callers = {} /\ (Parties \cup Callers) \cap Releasers = {}
    /\ Nobody \notin Parties

VARIABLES
    maxAwait,      \* max_await_count
    slotCount, commitCount, releaseCount,
    barHandles,    \* handles, by index
    snapshot,      \* the member vector complete() dispatches from
    barPc,         \* labels
    index,         \* the slot of an arrival
    prev,          \* what fetch_add on commit_count returned
    last,          \* last_max_await_count, then the shrunk value to store
    cursor,        \* position of the loops of complete()
    arrived, passed \* rounds each one has begun, has come out of

counters == <<maxAwait, slotCount, commitCount, releaseCount>>
locals == <<index, prev, last, cursor>>
barrierVars == <<counters, barHandles, snapshot, barPc, locals, arrived, passed>>

BarrierActors == Parties \cup Callers \cup Releasers
BarrierSize == Cardinality(BarrierActors)
BSet(f, a, v) == [f EXCEPT ![a] = v]
BarGoto(a, l) == barPc' = BSet(barPc, a, l)

BarrierInit ==
    /\ maxAwait = BarrierSize
    /\ slotCount = 0 /\ commitCount = 0 /\ releaseCount = 0
    /\ barHandles = [i \in 0 .. BarrierSize - 1 |-> Nobody]
    /\ snapshot = <<>>
    /\ barPc = [a \in BarrierActors |-> "out"]
    /\ index = [a \in BarrierActors |-> 0] /\ prev = [a \in BarrierActors |-> 0]
    /\ last = [a \in BarrierActors |-> <<0, 0>>]
    /\ cursor = [a \in BarrierActors |-> 1]
    /\ arrived = [a \in BarrierActors |-> 0] /\ passed = [a \in BarrierActors |-> 0]

\* await_suspend() and dispatch(callback): the index is allocated.
Arrive(a) ==
    /\ a \in Parties \cup Callers /\ barPc[a] = "out" /\ arrived[a] < Meetings
    /\ Calm => \A r \in Releasers : barPc[r] = "gone"
    /\ index' = BSet(index, a, slotCount) /\ slotCount' = slotCount + 1
    /\ arrived' = BSet(arrived, a, arrived[a] + 1)
    /\ BarGoto(a, "slot")
    /\ UNCHANGED <<maxAwait, commitCount, releaseCount, barHandles, snapshot,
                   prev, last, cursor, passed>>

\* ... the handle is written, if there is one; a slot beyond the vector is
\* what the assertion on `index' excludes.
WriteHandle(a) ==
    /\ barPc[a] = "slot" /\ index[a] < BarrierSize
    /\ barHandles' = IF a \in Parties THEN BSet(barHandles, index[a], a) ELSE barHandles
    /\ BarGoto(a, "commit")
    /\ UNCHANGED <<counters, snapshot, locals, arrived, passed>>

\* ... and published by the fetch_add on commit_count.
Commit(a) ==
    /\ barPc[a] = "commit"
    /\ prev' = BSet(prev, a, commitCount) /\ commitCount' = commitCount + 1
    /\ BarGoto(a, "trigger")
    /\ UNCHANGED <<maxAwait, slotCount, releaseCount, barHandles, snapshot,
                   index, last, cursor, arrived, passed>>

\* Where an actor goes when its call returns.
Returned(a) == CASE a \in Parties -> "suspended"
                 [] a \in Callers -> IF passed[a] < arrived[a] THEN "called" ELSE "out"
                 [] OTHER -> "gone"

\* Mutant: the trigger is off by one.
TriggerEarly(a) ==
    /\ barPc[a] = "trigger"
    /\ BarGoto(a, IF prev[a] + 2 = maxAwait THEN "complete" ELSE Returned(a))
    /\ UNCHANGED <<counters, barHandles, snapshot, locals, arrived, passed>>

\* ... the last one completes: max_await_count is loaded after the fetch_add.
Trigger(a) ==
    /\ barPc[a] = "trigger"
    /\ BarGoto(a, IF prev[a] + 1 = maxAwait THEN "complete" ELSE Returned(a))
    /\ UNCHANGED <<counters, barHandles, snapshot, locals, arrived, passed>>

\* release(): release_await_count, then the same commit and trigger.
Release(r) ==
    /\ r \in Releasers /\ barPc[r] = "out"
    /\ releaseCount' = releaseCount + 1 /\ BarGoto(r, "commit")
    /\ UNCHANGED <<maxAwait, slotCount, commitCount, barHandles, snapshot,
                   locals, arrived, passed>>

\* complete(): commit_count.exchange(0)
Complete(a) ==
    /\ barPc[a] = "complete"
    /\ commitCount' = 0 /\ BarGoto(a, "slots")
    /\ UNCHANGED <<maxAwait, slotCount, releaseCount, barHandles, snapshot,
                   locals, arrived, passed>>

\* ... slot_count.store(0)
ResetSlots(a) ==
    /\ barPc[a] = "slots"
    /\ slotCount' = 0 /\ BarGoto(a, "shrink")
    /\ UNCHANGED <<maxAwait, commitCount, releaseCount, barHandles, snapshot,
                   locals, arrived, passed>>

\* ... last_max_await_count is loaded, the releases are taken
Shrink(a) ==
    /\ barPc[a] = "shrink"
    /\ last' = BSet(last, a, <<maxAwait, maxAwait - releaseCount>>)
    /\ releaseCount' = 0 /\ BarGoto(a, "store")
    /\ UNCHANGED <<maxAwait, slotCount, commitCount, barHandles, snapshot,
                   index, prev, cursor, arrived, passed>>

\* ... and subtracted.
StoreMax(a) ==
    /\ barPc[a] = "store"
    /\ Calm => \A b \in BarrierActors : barPc[b] # "trigger"
    /\ maxAwait' = last[a][2] /\ BarGoto(a, "callback")
    /\ UNCHANGED <<slotCount, commitCount, releaseCount, barHandles, snapshot,
                   locals, arrived, passed>>

\* ... the callback runs: it lets every caller of this round go on.  The snapshot
\* is cleared.
Callback(a) ==
    /\ barPc[a] = "callback"
    /\ passed' = [c \in BarrierActors |-> IF c \in Callers THEN arrived[c] ELSE passed[c]]
    /\ barPc' = [c \in BarrierActors |->
                   CASE c = a -> "fill"
                     [] c # a /\ c \in Callers /\ barPc[c] = "called" -> "out"
                     [] OTHER -> barPc[c]]
    /\ snapshot' = <<>> /\ cursor' = BSet(cursor, a, 1)
    /\ UNCHANGED <<counters, barHandles, index, prev, last, arrived>>

\* ... the handles move to it, in the order of their slots.
FillSnapshot(a) ==
    /\ barPc[a] = "fill"
    /\ IF cursor[a] <= last[a][1]
         THEN LET h == barHandles[cursor[a] - 1] IN
              /\ snapshot' = IF h # Nobody THEN Append(snapshot, h) ELSE snapshot
              /\ barHandles' = BSet(barHandles, cursor[a] - 1, Nobody)
              /\ cursor' = BSet(cursor, a, cursor[a] + 1)
              /\ UNCHANGED barPc
         ELSE /\ cursor' = BSet(cursor, a, 1) /\ BarGoto(a, "wake")
              /\ UNCHANGED <<snapshot, barHandles>>
    /\ UNCHANGED <<counters, index, prev, last, arrived, passed>>

\* ... are dispatched one by one; then the snapshot is cleared.
DispatchSnapshot(a) ==
    /\ barPc[a] = "wake"
    /\ IF cursor[a] <= Len(snapshot)
         THEN LET p == snapshot[cursor[a]] IN
              /\ passed' = BSet(passed, p, passed[p] + 1)
              /\ barPc' = IF p = a THEN barPc ELSE BSet(barPc, p, "out")
              /\ cursor' = BSet(cursor, a, cursor[a] + 1)
              /\ UNCHANGED snapshot
         ELSE /\ snapshot' = <<>>
              /\ BarGoto(a, IF a \in Parties /\ passed[a] = arrived[a] THEN "out" ELSE Returned(a))
              /\ UNCHANGED <<passed, cursor>>
    /\ UNCHANGED <<counters, barHandles, index, prev, last, arrived>>

BarrierStep(a) ==
    \/ Arrive(a) \/ WriteHandle(a) \/ Commit(a) \/ Trigger(a) \/ Release(a)
    \/ Complete(a) \/ ResetSlots(a) \/ Shrink(a) \/ StoreMax(a) \/ Callback(a)
    \/ FillSnapshot(a) \/ DispatchSnapshot(a)

BarrierNext == \E a \in BarrierActors : BarrierStep(a)

BarrierSpec == BarrierInit /\ [][BarrierNext]_barrierVars /\ WF_barrierVars(BarrierNext)

(***************************************************************************)
(* Nobody comes out of a round that another one has not begun.             *)
(***************************************************************************)
MeetTogether ==
    \A a \in Parties \cup Callers : \A b \in Parties \cup Callers :
      passed[a] <= arrived[b]

(***************************************************************************)
(* The assertion of complete(): whoever completes finds commit_count at    *)
(* max_await_count, so the barrier is completed once per round ("the       *)
(* trigger comparison must not race complete()'s shrink").                 *)
(***************************************************************************)
CompletedOnce ==
    \A a \in BarrierActors : barPc[a] = "complete" => commitCount = maxAwait

(***************************************************************************)
(* Rounds of iris_barrier_t do not overlap: a round is completed once, by  *)
(* whoever brings commit_count to max_await_count, and only when all have  *)
(* begun it, also while release() shrinks the barrier.                     *)
(***************************************************************************)
MeetingsSound == MeetTogether /\ CompletedOnce

\* Every round ends: all parties and callers go through all their meetings.
EveryoneMeets ==
    <>(\A a \in Parties \cup Callers : passed[a] = Meetings)

=============================================================================
