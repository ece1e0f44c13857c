----------------------------- MODULE Dispatcher -----------------------------
(***************************************************************************)
(* iris_dispatcher_t of src/src/iris/iris_dispatcher.h: a graph of         *)
(* routines, each with a lock_count (its own handle, its predecessors, its *)
(* deferrals) and a few slots for successors; a junction node is put in    *)
(* front when the slots are full.  One thread allocates, orders and        *)
(* dispatches; any thread executes.  A deferring routine is one made by    *)
(* iris_dispatch_coroutine(): it defers itself and is dispatched again     *)
(* when its coroutine ends (iris_coroutine.h).                             *)
(***************************************************************************)
EXTENDS Naturals, Sequences, FiniteSets

CONSTANTS
    Routines,      \* routines of the graph, junctions not included
    Edges,         \* sequence of <<from, to>>: the calls of order()
    Deferring,     \* routines that defer themselves
    Junctions,     \* spare nodes, a sequence
    Slots,         \* size of next_tasks (4)
    LateCompletion \* TRUE: a deferring routine's coroutine ends only after
                   \* execute() has looked at lock_count

Nodes == Routines \cup {Junctions[i] : i \in DOMAIN Junctions}
Null == "null"

ASSUME DispatcherAssumption ==
    /\ Edges \in Seq(Routines \X Routines) /\ Deferring \subseteq Routines
    /\ Slots \in Nat /\ Slots >= 2 /\ LateCompletion \in BOOLEAN
    /\ IsFiniteSet(Routines) /\ Null \notin Nodes
    /\ Junctions \in Seq(Nodes \ Routines)
    /\ \A i, h \in DOMAIN Junctions : Junctions[i] = Junctions[h] => i = h

VARIABLES
    lockCount,    \* lock_count
    nextTasks,    \* next_tasks: Slots nodes or Null each
    ordered,      \* calls of order() made
    orderFrom,    \* the node order_internal() is at, Null between calls
    junctions,    \* junctions allocated
    undispatched, \* routines whose handle is not dispatched yet
    execPc,       \* execPc[n][k]: execute() of n; k = 2 after a deferral
    deferred,     \* routines whose coroutine is still running
    freed,        \* how often each node was destroyed
    pendingCount, \* pending_count
    completed     \* dispatcher_complete() calls

dispatcherVars == <<lockCount, nextTasks, ordered, orderFrom, junctions, undispatched,
                    execPc, deferred, freed, pendingCount, completed>>

Forever == 1000 \* ~size_t(0): no count of the model gets there
DSet(f, a, v) == [f EXCEPT ![a] = v]
ExecGoto(n, k, l) == execPc' = [execPc EXCEPT ![n][k] = l]

\* allocate() of every routine
DispatcherInit ==
    /\ lockCount = [n \in Nodes |-> 1]
    /\ nextTasks = [n \in Nodes |-> [i \in 1 .. Slots |-> Null]]
    /\ ordered = 0 /\ orderFrom = Null /\ junctions = 0
    /\ undispatched = Routines
    /\ execPc = [n \in Nodes |-> [k \in {1, 2} |-> "none"]]
    /\ deferred = {} /\ freed = [n \in Nodes |-> 0]
    /\ pendingCount = Cardinality(Routines) /\ completed = 0

From == IF orderFrom = Null THEN Edges[ordered + 1][1] ELSE orderFrom
To == Edges[ordered + 1][2]
IsJunction(n) == n \notin Routines
Full(n) == \A i \in 1 .. Slots : nextTasks[n][i] # Null
OrderRest == <<undispatched, execPc, deferred, freed, completed>>

\* order_internal(): the first free slot
OrderSlot ==
    /\ ordered < Len(Edges)
    /\ \E i \in 1 .. Slots :
         /\ nextTasks[From][i] = Null /\ \A h \in 1 .. (i - 1) : nextTasks[From][h] # Null
         /\ nextTasks' = [nextTasks EXCEPT ![From][i] = To]
    /\ lockCount' = DSet(lockCount, To, lockCount[To] + 1)
    /\ ordered' = ordered + 1 /\ orderFrom' = Null
    /\ UNCHANGED <<junctions, pendingCount, OrderRest>>

\* ... the slots are full and the first holds a junction: go on there
OrderDescend ==
    /\ ordered < Len(Edges) /\ Full(From)
    /\ IsJunction(nextTasks[From][1])
    /\ orderFrom' = nextTasks[From][1]
    /\ UNCHANGED <<lockCount, nextTasks, ordered, junctions, pendingCount, OrderRest>>

\* Mutant: the successor behind a new junction is not locked.
OrderJunctionUnlocked ==
    /\ ordered < Len(Edges) /\ Full(From)
    /\ ~IsJunction(nextTasks[From][1]) /\ junctions < Len(Junctions)
    /\ LET j == Junctions[junctions + 1] IN
         nextTasks' = [nextTasks EXCEPT ![j][1] = nextTasks[From][1], ![j][2] = To, ![From][1] = j]
    /\ junctions' = junctions + 1 /\ pendingCount' = pendingCount + 1
    /\ ordered' = ordered + 1 /\ orderFrom' = Null
    /\ UNCHANGED <<lockCount, OrderRest>>

\* ... or a routine: a junction takes its place, with it and `to' behind
OrderJunction ==
    /\ ordered < Len(Edges) /\ Full(From)
    /\ ~IsJunction(nextTasks[From][1]) /\ junctions < Len(Junctions)
    /\ LET j == Junctions[junctions + 1] IN
         nextTasks' = [nextTasks EXCEPT ![j][1] = nextTasks[From][1], ![j][2] = To, ![From][1] = j]
    /\ lockCount' = DSet(lockCount, To, lockCount[To] + 1)
    /\ junctions' = junctions + 1 /\ pendingCount' = pendingCount + 1
    /\ ordered' = ordered + 1 /\ orderFrom' = Null
    /\ UNCHANGED OrderRest

\* dispatch() of n: the last lock queues its routine, or executes at once a
\* node that has none (a junction, or a routine dispatched after deferral).
Unlock(n, k) ==
    /\ lockCount' = DSet(lockCount, n, lockCount[n] - 1)
    /\ execPc' = IF lockCount[n] # 1 THEN execPc
                 ELSE [execPc EXCEPT ![n][k] = IF k = 1 /\ ~IsJunction(n) THEN "queued" ELSE "load"]

\* dispatch() of a handle
DispatchHandle(n) ==
    /\ ordered = Len(Edges) /\ n \in undispatched
    /\ undispatched' = undispatched \ {n} /\ Unlock(n, 1)
    /\ UNCHANGED <<nextTasks, ordered, orderFrom, junctions, deferred, freed,
                   pendingCount, completed>>

\* execute(): the routine runs; a deferring one calls defer() on its handle.
CallRoutine(n) ==
    /\ execPc[n][1] = "queued" /\ ExecGoto(n, 1, "load")
    /\ IF n \in Deferring
         THEN /\ lockCount' = DSet(lockCount, n, lockCount[n] + 1)
              /\ deferred' = deferred \cup {n}
         ELSE UNCHANGED <<lockCount, deferred>>
    /\ UNCHANGED <<nextTasks, ordered, orderFrom, junctions, undispatched, freed,
                   pendingCount, completed>>

\* Mutant: it may end before execute() has seen the deferral.
CoroutineEndsEarly(n) ==
    /\ n \in deferred /\ deferred' = deferred \ {n} /\ Unlock(n, 2)
    /\ UNCHANGED <<nextTasks, ordered, orderFrom, junctions, undispatched, freed,
                   pendingCount, completed>>

\* The coroutine of a deferring routine ends: its completion dispatches.
CoroutineEnds(n) ==
    /\ n \in deferred /\ (LateCompletion => execPc[n][1] = "return")
    /\ deferred' = deferred \ {n} /\ Unlock(n, 2)
    /\ UNCHANGED <<nextTasks, ordered, orderFrom, junctions, undispatched, freed,
                   pendingCount, completed>>

\* ... a lock_count that is not zero: "deferred by routine"
LoadLock(n, k) ==
    /\ execPc[n][k] = "load"
    /\ ExecGoto(n, k, IF lockCount[n] # 0 THEN "return" ELSE "mark")
    /\ UNCHANGED <<lockCount, nextTasks, ordered, orderFrom, junctions, undispatched,
                   deferred, freed, pendingCount, completed>>

\* ... else the node is marked as over
MarkOver(n, k) ==
    /\ execPc[n][k] = "mark" /\ ExecGoto(n, k, "next")
    /\ lockCount' = DSet(lockCount, n, Forever)
    /\ UNCHANGED <<nextTasks, ordered, orderFrom, junctions, undispatched, deferred,
                   freed, pendingCount, completed>>

\* ... and its successors are dispatched, slot by slot.
DispatchNext(n, k) ==
    /\ execPc[n][k] = "next"
    /\ \E i \in 1 .. Slots :
         /\ nextTasks[n][i] # Null /\ \A h \in 1 .. (i - 1) : nextTasks[n][h] = Null
         /\ Unlock(nextTasks[n][i], 1)
         /\ nextTasks' = [nextTasks EXCEPT ![n][i] = Null]
    /\ UNCHANGED <<ordered, orderFrom, junctions, undispatched, deferred, freed,
                   pendingCount, completed>>

\* The node is destroyed; the last one completes the dispatcher.
FreeNode(n, k) ==
    /\ execPc[n][k] = "next" /\ \A i \in 1 .. Slots : nextTasks[n][i] = Null
    /\ ExecGoto(n, k, "end")
    /\ freed' = DSet(freed, n, freed[n] + 1)
    /\ pendingCount' = pendingCount - 1
    /\ completed' = IF pendingCount = 1 THEN completed + 1 ELSE completed
    /\ UNCHANGED <<lockCount, nextTasks, ordered, orderFrom, junctions, undispatched, deferred>>

DispatcherNext ==
    \/ OrderSlot \/ OrderDescend \/ OrderJunction
    \/ \E n \in Nodes :
         \/ DispatchHandle(n) \/ CallRoutine(n) \/ CoroutineEnds(n)
         \/ \E k \in {1, 2} : \/ LoadLock(n, k) \/ MarkOver(n, k)
                              \/ DispatchNext(n, k) \/ FreeNode(n, k)

DispatcherSpec ==
    DispatcherInit /\ [][DispatcherNext]_dispatcherVars /\ WF_dispatcherVars(DispatcherNext)

(***************************************************************************)
(* A routine runs only when all those ordered before it are over, with the *)
(* coroutine each of them may have deferred for, however many successors   *)
(* went through junctions.                                                 *)
(***************************************************************************)
RunsInOrder ==
    ordered = Len(Edges) =>
      \A i \in DOMAIN Edges : execPc[Edges[i][2]][1] # "none" =>
        lockCount[Edges[i][1]] >= Forever - 1 /\ Edges[i][1] \notin deferred

\* Every node is destroyed at most once, and the dispatcher completes only
\* when all of them are.
NodesFreedOnce ==
    /\ \A n \in Nodes : freed[n] <= 1
    /\ completed > 0 => \A n \in Routines : freed[n] = 1

(***************************************************************************)
(* The graph is executed in its order and its memory returned once: no     *)
(* routine before its predecessors, junctions and deferred coroutines      *)
(* included, no node destroyed twice, no completion with a node left.      *)
(***************************************************************************)
GraphInOrder == RunsInOrder /\ NodesFreedOnce

\* The whole graph is executed.
GraphEnds == <>(completed = 1 /\ \A n \in Routines : freed[n] = 1)

=============================================================================
