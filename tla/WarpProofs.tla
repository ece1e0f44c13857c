---------------------------- MODULE WarpProofs ----------------------------
(***************************************************************************)
(* Proofs about Warp for any number of threads, any scripts of calls and   *)
(* any nesting of routines: the type invariant (suspend_count never wraps  *)
(* below zero), mutual exclusion of the warp's routines, exclusion of      *)
(* ordinary routines while a parallel one runs, and that each routine runs *)
(* at most once and in the order of the barriers.                          *)
(***************************************************************************)
EXTENDS Warp, FiniteSetTheorems, SequenceTheorems, TLAPS

\* Labels at which a thread has preempted the warp and not yet yielded it.
OwnPCs == {"recheck", "run", "x2", "drain", "check", "defer", "mark", "scan", "task",
           "ran", "pardrain", "yield"}
\* Labels that return to ret[t].
ReturnPCs == {"post", "flush", "flushx"}
\* Labels of a call that has not preempted the warp: nothing to return to.
FreshPCs == {"version", "guard", "preempt", "chain", "chainpost", "link", "submit"}
\* Labels at which arg[t] is the routine the call is about.
RoutinePCs == {"guard", "preempt", "recheck", "run", "chain", "chainpost", "link",
               "submit", "ptask"}
\* Labels at which a thread is answerable for one suspension of the warp.
SuspendPCs == {"chain", "chainpost", "link", "submit", "ptask", "resume"}
\* Labels from which an ordinary routine starts, or has started, without another
\* look at suspend_count.
StartPCs == {"run", "mark", "scan", "task"}

\* What is true of thread t wherever it is.
Place(t) ==
    /\ pc[t] \in OwnPCs => owner = t
    /\ pc[t] \in ReturnPCs => ret[t] \in {"free", "yield", "ran", "par"}
    /\ (pc[t] \in ReturnPCs /\ ret[t] \in {"yield", "ran"}) => owner = t
    /\ pc[t] \in FreshPCs => ret[t] = "free"
    /\ pc[t] \in RoutinePCs => arg[t] \in Routines
    /\ after[t] \in {"free", "par"}
    /\ pc[t] = "submit" => arg[t] \in Awaited
    /\ t \in Externals => /\ pc[t] \in {"free", "post"}
                          /\ pc[t] = "post" => ret[t] = "free" /\ arg[t] \in Routines

\* The calls left of a script are calls of a script.
Script(t) ==
    \A i \in 1 .. Len(todo[t]) :
        /\ t \in Externals => todo[t][i].kind = "post"
        /\ todo[t][i].kind = "await" => todo[t][i].routine \in Awaited

\* Every thread or queued parallel routine that will resume the warp is counted.
Holders == {t \in Threads : pc[t] \in SuspendPCs}
Counted ==
    /\ IsFiniteSet(parallel) /\ IsFiniteSet(parJobs)
    /\ Cardinality(Holders) + Cardinality(parallel) + Cardinality(parJobs) <= suspended

\* A parallel routine in the pool, or in a thread, keeps the ordinary ones out.
Reading == (\E r \in parJobs : r \notin Awaited)
           \/ (\E t \in Threads : pc[t] = "ptask" /\ arg[t] \notin Awaited)
Excluded == Reading => \A t \in Threads : pc[t] \notin StartPCs

WarpInv ==
    /\ TypeOK
    /\ \A t \in Threads : Place(t) /\ Script(t)
    /\ Counted
    /\ Excluded

LEMMA NoneApart == None \notin Threads /\ None \notin Routines
  BY WarpAssumption

LEMMA ThreadsFinite == IsFiniteSet(Threads)
  BY WarpAssumption, FS_Interval DEF Threads

LEMMA WarpInit == Init => WarpInv
<1> SUFFICES ASSUME Init PROVE WarpInv
  OBVIOUS
<1>1. TypeOK
  <2>1. N \in Nat /\ index \in 1 .. N + 1
    BY WarpAssumption DEF Init
  <2>2. todo \in [Threads -> Seq(Calls)]
    BY WarpAssumption DEF Init
  <2>3. count \in BOOLEAN
    BY DEF Init
  <2>4. buffer \in [Threads -> Seq(Items)] /\ log \in Seq(Routines)
    BY DEF Init
  <2>5. /\ pc \in [Threads -> PCs] /\ ret \in [Threads -> PCs]
        /\ after \in [Threads -> PCs]
    BY DEF Init, PCs, CallPCs
  <2>6. /\ versions \in [Threads -> Nat] /\ ver \in [Threads -> Nat]
        /\ arg \in [Threads -> Routines \cup {None}]
        /\ fence \in [Threads -> SUBSET Routines]
        /\ follows \in [Routines -> SUBSET Routines]
    BY DEF Init
  <2> QED
    BY <2>1, <2>2, <2>3, <2>4, <2>5, <2>6 DEF Init, TypeOK
<1>2. \A t \in Threads : Place(t)
  BY WarpAssumption DEF Init, Place, OwnPCs, ReturnPCs, FreshPCs, RoutinePCs
<1>3. \A t \in Threads : Script(t)
  <2> TAKE t \in Threads
  <2>1. todo \in Scripts
    BY DEF Init
  <2>2. todo[t] \in Seq(Calls)
    BY <2>1, WarpAssumption
  <2> SUFFICES ASSUME NEW i \in 1 .. Len(todo[t])
               PROVE  /\ t \in Externals => todo[t][i].kind = "post"
                      /\ todo[t][i].kind = "await" => todo[t][i].routine \in Awaited
    BY DEF Script
  <2>3. t \in Externals => todo[t][i].kind = "post"
    BY <2>1, WarpAssumption
  <2>4. ASSUME todo[t][i].kind = "await" PROVE todo[t][i].routine \in Awaited
    <3>1. todo[t][i] \in Calls
      BY <2>2
    <3>2. todo[t][i].routine \in Routines
      BY <3>1, <2>4 DEF Calls
    <3>3. todo[t][i] = [kind |-> "await", routine |-> todo[t][i].routine]
      BY <3>1, <2>4 DEF Calls
    <3> QED
      BY <3>2, <3>3, <2>1 DEF Awaited
  <2> QED
    BY <2>3, <2>4
<1>4. Counted
  <2>1. Holders = {}
    BY DEF Init, Holders, SuspendPCs
  <2> QED
    BY <2>1, FS_EmptySet DEF Init, Counted
<1>5. Excluded
  BY DEF Init, Excluded, Reading
<1> QED
  BY <1>1, <1>2, <1>3, <1>4, <1>5 DEF WarpInv

\* A thread that is answerable for a suspension shows in suspend_count.
LEMMA Suspended ==
  ASSUME TypeOK, Counted, NEW t \in Threads, pc[t] \in SuspendPCs
  PROVE  suspended >= 1
<1>1. t \in Holders /\ IsFiniteSet(Holders)
  BY ThreadsFinite, FS_Subset DEF Holders
<1>2. Cardinality(Holders) \in Nat /\ Cardinality(parallel) \in Nat
      /\ Cardinality(parJobs) \in Nat
  BY <1>1, FS_CardinalityType DEF Counted
<1>3. Cardinality(Holders) # 0
  BY <1>1, FS_EmptySet
<1> QED
  BY <1>2, <1>3 DEF Counted, TypeOK

\* The first call of a script, and the calls after it.
LEMMA NextCall ==
  ASSUME TypeOK, NEW t \in Threads, todo[t] # << >>
  PROVE  /\ Head(todo[t]) \in Calls
         /\ Head(todo[t]) = todo[t][1] /\ 1 \in 1 .. Len(todo[t])
         /\ Tail(todo[t]) \in Seq(Calls)
         /\ \A i \in 1 .. Len(Tail(todo[t])) :
               Tail(todo[t])[i] = todo[t][i + 1] /\ i + 1 \in 1 .. Len(todo[t])
<1>1. todo[t] \in Seq(Calls)
  BY DEF TypeOK
<1> QED
  BY <1>1

LEMMA TypeStep ==
  ASSUME WarpInv, NEW t \in Threads, Call(t) \/ Step(t)
  PROVE  TypeOK'
<1> USE DEF WarpInv
<1>0. N \in Nat /\ N >= 1 /\ 1 \in Threads
  BY WarpAssumption DEF Threads
<1>a. TypeOK
  OBVIOUS
<1>b. Place(t)
  OBVIOUS
<1>1. CASE Call(t)
  <2> DEFINE c == Head(todo[t])
  <2>1. c \in Calls /\ Tail(todo[t]) \in Seq(Calls)
    BY <1>1, <1>a, NextCall DEF Call
  <2>2. c.kind \in Kinds /\ c.routine \in Routines \cup {None}
    BY <2>1 DEF Calls, Kinds
  <2>3. pc' \in [Threads -> PCs]
    BY <1>1, <1>a, <2>2 DEF TypeOK, Call, Goto, Set, PCs, CallPCs, Kinds
  <2>4. todo' \in [Threads -> Seq(Calls)] /\ arg' \in [Threads -> Routines \cup {None}]
    BY <1>1, <1>a, <2>1, <2>2 DEF TypeOK, Call, Set
  <2>5. suspended' \in Nat
    BY <1>1, <1>a DEF TypeOK, Call
  <2>6. ret' \in [Threads -> PCs] /\ after' \in [Threads -> PCs] /\ ver' \in [Threads -> Nat]
    BY <1>1, <1>a DEF TypeOK, Call, Set, PCs, CallPCs
  <2> QED
    BY <1>1, <1>a, <2>3, <2>4, <2>5, <2>6 DEF TypeOK, Call, grid, work, local, history
<1>2. CASE Post(t)
  <2>1. CASE t \in Externals
    <3>1. arg[t] \in Routines /\ ret[t] \in PCs
      BY <1>2, <1>a, <1>b, <2>1 DEF Post, Place, TypeOK
    <3>2. pc' \in [Threads -> PCs] /\ arg' \in [Threads -> Routines \cup {None}]
      BY <1>2, <1>a, <2>1, <3>1 DEF TypeOK, Post, Goto, Set
    <3>3. extJobs' \subseteq Routines
      BY <1>2, <1>a, <2>1, <3>1 DEF TypeOK, Post
    <3> QED
      BY <1>2, <1>a, <2>1, <3>2, <3>3 DEF TypeOK, Post, hot, local
  <2>2. CASE t \notin Externals
    <3>1. Item(arg[t], ver[t]) \in Items
      BY <1>a DEF TypeOK, Item, Items
    <3>a. Append(buffer[t], Item(arg[t], ver[t])) \in Seq(Items)
      BY <1>a, <3>1 DEF TypeOK
    <3>b. buffer' = Set(buffer, t, Append(buffer[t], Item(arg[t], ver[t])))
      BY <1>2, <2>2 DEF Post
    <3>2. buffer' \in [Threads -> Seq(Items)]
      BY <1>a, <3>a, <3>b DEF TypeOK, Set
    <3>3. follows' \in [Routines -> SUBSET Routines]
      BY <1>2, <1>a, <2>2 DEF TypeOK, Post, Set
    <3>4. pc' \in [Threads -> PCs] /\ arg' \in [Threads -> Routines \cup {None}]
      BY <1>2, <1>a, <2>2 DEF TypeOK, Post, Set, Goto, PCs, FlushPCs
    <3> QED
      BY <1>2, <1>a, <2>2, <3>2, <3>3, <3>4 DEF TypeOK, Post, hot, local
  <2> QED
    BY <2>1, <2>2
<1>3. CASE TakeVersion(t)
  <2>1. Buffered \subseteq Routines
    <3> SUFFICES ASSUME NEW r \in Buffered PROVE r \in Routines
      OBVIOUS
    <3>1. PICK u \in Threads :
             r \in {buffer[u][i].routine : i \in 1 .. Len(buffer[u])}
      BY DEF Buffered
    <3>2. PICK i \in 1 .. Len(buffer[u]) : r = buffer[u][i].routine
      BY <3>1
    <3>3. buffer[u] \in Seq(Items)
      BY <1>a DEF TypeOK
    <3>4. buffer[u][i] \in Items
      BY <3>3
    <3>5. r # None
      BY DEF Buffered
    <3>6. r \in Routines \cup {None}
      BY <3>2, <3>4 DEF Items
    <3> QED
      BY <3>5, <3>6
  <2>2. fence' \in [Threads -> SUBSET Routines]
    BY <1>3, <1>a, <2>1 DEF TypeOK, TakeVersion, Set
  <2>3. ver' \in [Threads -> Nat] /\ barrierVersion' \in Nat
    BY <1>3, <1>a DEF TypeOK, TakeVersion, Set
  <2>4. pc' \in [Threads -> PCs]
    BY <1>3, <1>a DEF TypeOK, TakeVersion, Set, Goto, PCs, CallPCs
  <2> QED
    BY <1>3, <1>a, <2>2, <2>3, <2>4 DEF TypeOK, TakeVersion, hot, work, local
<1>4. CASE Guard(t)
  BY <1>4, <1>0, <1>a, <1>b DEF TypeOK, Guard, Goto, Set, PCs, CallPCs, FlushPCs, ExecPCs,
    ParPCs, hot, grid, work, control, local, history
<1>5. CASE Recheck(t)
  BY <1>5, <1>0, <1>a, <1>b DEF TypeOK, Recheck, Goto, Set, PCs, CallPCs, FlushPCs,
    ExecPCs, ParPCs, hot, grid, work, control, local, history
<1>6. CASE Run(t)
  <2>1. arg[t] \in Routines /\ Child[arg[t]] \in Routines \cup {None}
    BY <1>6, <1>b, WarpAssumption DEF Run, Place, RoutinePCs
  <2>2. log' \in Seq(Routines)
    BY <1>6, <1>a, <2>1 DEF TypeOK, Run, Execute
  <2>3. /\ arg' \in [Threads -> Routines \cup {None}] /\ ver' \in [Threads -> Nat]
        /\ ret' \in [Threads -> PCs] /\ pc' \in [Threads -> PCs]
    BY <1>6, <1>a, <2>1 DEF TypeOK, Run, Execute, Set, Goto, PCs, FlushPCs, CallPCs
  <2> QED
    BY <1>6, <1>a, <2>2, <2>3 DEF TypeOK, Run, hot, grid, work, local
<1>7. CASE Preempt(t, "preempt", "recheck", "post")
  BY <1>7, <1>0, <1>a, <1>b DEF TypeOK, Preempt, Goto, Set, PCs, CallPCs, FlushPCs,
    ExecPCs, ParPCs, hot, grid, work, control, local, history
<1>8. CASE Flush(t)
  BY <1>8, <1>0, <1>a, <1>b DEF TypeOK, Flush, Goto, Set, PCs, CallPCs, FlushPCs, ExecPCs,
    ParPCs, hot, grid, work, control, local, history, Place, ReturnPCs, RoutinePCs
<1>9. CASE FlushExchange(t)
  BY <1>9, <1>0, <1>a, <1>b DEF TypeOK, FlushExchange, Goto, Set, PCs, CallPCs, FlushPCs,
    ExecPCs, ParPCs, hot, grid, work, control, local, history, Place, ReturnPCs, RoutinePCs
<1>10. CASE Yield(t)
  BY <1>10, <1>0, <1>a, <1>b DEF TypeOK, Yield, Goto, Set, PCs, CallPCs, FlushPCs, ExecPCs,
    ParPCs, hot, grid, work, control, local, history
<1>11. CASE ExchangeIdle(t, "yieldx", after[t])
  <2>1. after[t] \in PCs /\ "flush" \in PCs
    BY <1>a DEF TypeOK, PCs, CallPCs, FlushPCs
  <2>2. pc' \in [Threads -> PCs]
    <3>1. pc' = [pc EXCEPT ![t] = "flush"] \/ pc' = [pc EXCEPT ![t] = after[t]]
      BY <1>11 DEF ExchangeIdle, Goto, Set
    <3> QED
      BY <1>a, <2>1, <3>1 DEF TypeOK
  <2>3. ret' \in [Threads -> PCs]
    <3>1. ret' = ret \/ ret' = [ret EXCEPT ![t] = after[t]]
      BY <1>11 DEF ExchangeIdle, Set
    <3> QED
      BY <1>a, <2>1, <3>1 DEF TypeOK
  <2> QED
    BY <1>11, <1>a, <2>2, <2>3 DEF TypeOK, ExchangeIdle, grid, work, local, history
<1>12. CASE Resume(t)
  BY <1>12, <1>0, <1>a, <1>b, Suspended DEF TypeOK, Resume, Goto, Set, PCs, CallPCs,
    FlushPCs, ExecPCs, ParPCs, hot, grid, work, control, local, history, SuspendPCs
<1>13. CASE ExchangeIdle(t, "resumex", "free")
  <2>1. "free" \in PCs /\ "flush" \in PCs
    BY <1>a DEF TypeOK, PCs, CallPCs, FlushPCs
  <2>2. pc' \in [Threads -> PCs]
    <3>1. pc' = [pc EXCEPT ![t] = "flush"] \/ pc' = [pc EXCEPT ![t] = "free"]
      BY <1>13 DEF ExchangeIdle, Goto, Set
    <3> QED
      BY <1>a, <2>1, <3>1 DEF TypeOK
  <2>3. ret' \in [Threads -> PCs]
    <3>1. ret' = ret \/ ret' = [ret EXCEPT ![t] = "free"]
      BY <1>13 DEF ExchangeIdle, Set
    <3> QED
      BY <1>a, <2>1, <3>1 DEF TypeOK
  <2> QED
    BY <1>13, <1>a, <2>2, <2>3 DEF TypeOK, ExchangeIdle, grid, work, local, history
<1>14. CASE TakeJob(t)
  <2>1. pc' \in [Threads -> PCs]
    BY <1>14, <1>a DEF TypeOK, TakeJob, Goto, Set, PCs, ExecPCs
  <2>2. after' \in [Threads -> PCs]
    BY <1>14, <1>a DEF TypeOK, TakeJob, Set, PCs, ParPCs
  <2>3. jobs' \in Nat
    BY <1>14, <1>a DEF TypeOK, TakeJob
  <2> QED
    BY <1>14, <1>a, <2>1, <2>2, <2>3 DEF TypeOK, TakeJob, hot, grid, local, history
<1>15. CASE TakeExternal(t)
  BY <1>15, <1>0, <1>a, <1>b DEF TypeOK, TakeExternal, Goto, Set, PCs, CallPCs, FlushPCs,
    ExecPCs, ParPCs, hot, grid, work, control, local, history
<1>16. CASE ExecuteGuard(t)
  BY <1>16, <1>0, <1>a, <1>b DEF TypeOK, ExecuteGuard, Goto, Set, PCs, CallPCs, FlushPCs,
    ExecPCs, ParPCs, hot, grid, work, control, local, history
<1>17. CASE Preempt(t, "x1", "x2", "par")
  BY <1>17, <1>0, <1>a, <1>b DEF TypeOK, Preempt, Goto, Set, PCs, CallPCs, FlushPCs,
    ExecPCs, ParPCs, hot, grid, work, control, local, history
<1>18. CASE ExecuteRecheck(t)
  BY <1>18, <1>0, <1>a, <1>b DEF TypeOK, ExecuteRecheck, Goto, Set, PCs, CallPCs, FlushPCs,
    ExecPCs, ParPCs, hot, grid, work, control, local, history
<1>19. CASE ExecuteParallel(t, "drain", "check")
  BY <1>19, <1>0, <1>a, <1>b DEF TypeOK, ExecuteParallel, Goto, Set, PCs, CallPCs,
    FlushPCs, ExecPCs, ParPCs, hot, grid, work, control, local, history
<1>20. CASE DoubleCheck(t)
  BY <1>20, <1>0, <1>a, <1>b DEF TypeOK, DoubleCheck, Goto, Set, PCs, CallPCs, FlushPCs,
    ExecPCs, ParPCs, hot, grid, work, control, local, history
<1>21. CASE Defer(t)
  BY <1>21, <1>0, <1>a, <1>b DEF TypeOK, Defer, Goto, Set, PCs, CallPCs, FlushPCs, ExecPCs,
    ParPCs, hot, grid, work, control, local, history
<1>22. CASE Mark(t)
  <2>1. pc' \in [Threads -> PCs]
    BY <1>22, <1>a DEF TypeOK, Mark, Set, Goto, PCs, ExecPCs
  <2>2. index' \in 1 .. N + 1 /\ step' \in Nat /\ next' \in Nat
    BY <1>22, <1>a, <1>0 DEF TypeOK, Mark
  <2>3. count' \in BOOLEAN
    BY <1>22 DEF Mark
  <2> QED
    BY <1>22, <1>a, <2>1, <2>2, <2>3 DEF TypeOK, Mark, work, history
<1>23. CASE Pop(t)
  <2>1. index \in Threads
    BY <1>23, <1>0, <1>a DEF Pop, Threads, TypeOK
  <2>2. Head(buffer[index]) \in Items /\ Tail(buffer[index]) \in Seq(Items)
    <3>1. buffer[index] \in Seq(Items) /\ buffer[index] # << >>
      BY <1>23, <1>a, <2>1 DEF TypeOK, Pop, Eligible
    <3> QED
      BY <3>1
  <2>3. buffer' \in [Threads -> Seq(Items)]
    BY <1>23, <1>a, <2>1, <2>2 DEF TypeOK, Pop, Set
  <2>4. arg' \in [Threads -> Routines \cup {None}] /\ ver' \in [Threads -> Nat]
    BY <1>23, <1>a, <2>2 DEF TypeOK, Pop, Set, Items
  <2>5. pc' \in [Threads -> PCs]
    BY <1>23, <1>a DEF TypeOK, Pop, Set, Goto, PCs, ExecPCs
  <2> QED
    BY <1>23, <1>a, <2>3, <2>4, <2>5 DEF TypeOK, Pop, hot, work, local, history
<1>24. CASE NextBuffer(t)
  <2>0. index \in 1 .. N + 1 /\ index <= N
    BY <1>24, <1>a DEF NextBuffer, TypeOK
  <2>1. index \in Threads /\ index + 1 \in 1 .. N + 1 /\ (index < N => index + 1 \in Threads)
    BY <1>0, <2>0 DEF Threads
  <2>2. step' \in Nat
    BY <1>24, <1>a, <2>1 DEF TypeOK, NextBuffer
  <2>3. versions' \in [Threads -> Nat]
    BY <1>24, <1>a, <2>1 DEF TypeOK, NextBuffer, Set
  <2>4. next' \in Nat /\ index' \in 1 .. N + 1
    BY <1>24, <1>a, <2>1 DEF TypeOK, NextBuffer
  <2>5. UNCHANGED <<hot, buffer, barrierVersion, current, work, control, count, history>>
    BY <1>24 DEF NextBuffer
  <2> QED
    BY <1>a, <2>2, <2>3, <2>4, <2>5 DEF TypeOK, hot, work, control, history
<1>25. CASE EndPass(t)
  <2>1. pc' \in [Threads -> PCs]
    BY <1>25, <1>a DEF TypeOK, EndPass, Set, Goto, PCs, ExecPCs, FlushPCs
  <2>2. index' \in 1 .. N + 1 /\ current' \in Nat /\ next' \in Nat
    BY <1>25, <1>a, <1>0 DEF TypeOK, EndPass
  <2>3. count' \in BOOLEAN
    BY <1>25 DEF EndPass
  <2> QED
    BY <1>25, <1>a, <2>1, <2>2, <2>3 DEF TypeOK, EndPass, hot, work, history
<1>26. CASE Task(t)
  <2>1. CASE arg[t] = None
    <3>0. Goto(t, "ran") /\ next' = ver[t]
      BY <1>26, <2>1 DEF Task
    <3>1. pc' \in [Threads -> PCs] /\ next' \in Nat
      BY <1>a, <3>0 DEF TypeOK, Set, Goto, PCs, ExecPCs
    <3>2. UNCHANGED <<ret, arg, ver, log>>
      BY <1>26, <2>1 DEF Task
    <3>3. UNCHANGED <<hot, buffer, barrierVersion, versions, current, work, after, todo,
                      local, fence, follows>>
      BY <1>26 DEF Task
    <3> QED
      BY <1>a, <3>1, <3>2, <3>3 DEF TypeOK, hot, work, local
  <2>2. CASE arg[t] # None
    <3>1. arg[t] \in Routines /\ Child[arg[t]] \in Routines \cup {None}
      BY <1>a, <2>2, WarpAssumption DEF TypeOK
    <3>2. Execute(t, "ran") /\ UNCHANGED next
      BY <1>26, <2>2 DEF Task
    <3>3. log' \in Seq(Routines)
      BY <1>a, <3>1, <3>2 DEF TypeOK, Execute
    <3>4. /\ arg' \in [Threads -> Routines \cup {None}] /\ ver' \in [Threads -> Nat]
          /\ ret' \in [Threads -> PCs] /\ pc' \in [Threads -> PCs]
      BY <1>a, <3>1, <3>2 DEF TypeOK, Execute, Set, Goto, PCs, ExecPCs, CallPCs
    <3> QED
      BY <1>26, <1>a, <3>2, <3>3, <3>4 DEF TypeOK, Task, hot, work, local
  <2> QED
    BY <2>1, <2>2
<1>27. CASE Ran(t)
  BY <1>27, <1>0, <1>a, <1>b DEF TypeOK, Ran, Goto, Set, PCs, CallPCs, FlushPCs, ExecPCs,
    ParPCs, hot, grid, work, control, local, history, Threads
<1>28. CASE TryParallel(t)
  BY <1>28, <1>0, <1>a, <1>b DEF TypeOK, TryParallel, Goto, Set, PCs, CallPCs, FlushPCs,
    ExecPCs, ParPCs, hot, grid, work, control, local, history
<1>29. CASE Preempt(t, "parpreempt", "pardrain", "free")
  BY <1>29, <1>0, <1>a, <1>b DEF TypeOK, Preempt, Goto, Set, PCs, CallPCs, FlushPCs,
    ExecPCs, ParPCs, hot, grid, work, control, local, history
<1>30. CASE ExecuteParallel(t, "pardrain", "yield")
  BY <1>30, <1>0, <1>a, <1>b DEF TypeOK, ExecuteParallel, Goto, Set, PCs, CallPCs,
    FlushPCs, ExecPCs, ParPCs, hot, grid, work, control, local, history
<1>31. CASE Chain(t)
  <2>1. pc' \in [Threads -> PCs]
    BY <1>31, <1>a DEF TypeOK, Chain, Goto, Set, PCs, CallPCs, ParPCs
  <2>2. parJobs' \in SUBSET Routines
    BY <1>31, <1>a, <1>b DEF TypeOK, Chain, Place, RoutinePCs
  <2> QED
    BY <1>31, <1>a, <2>1, <2>2 DEF TypeOK, Chain, hot, grid, local, history
<1>32. CASE Link(t)
  BY <1>32, <1>0, <1>a, <1>b DEF TypeOK, Link, Goto, Set, PCs, CallPCs, FlushPCs, ExecPCs,
    ParPCs, hot, grid, work, control, local, history, Place, ReturnPCs, RoutinePCs
<1>33. CASE Submit(t)
  BY <1>33, <1>0, <1>a, <1>b DEF TypeOK, Submit, Goto, Set, PCs, CallPCs, FlushPCs,
    ExecPCs, ParPCs, hot, grid, work, control, local, history, Place, ReturnPCs, RoutinePCs
<1>34. CASE TakeParallel(t)
  BY <1>34, <1>0, <1>a, <1>b DEF TypeOK, TakeParallel, Goto, Set, PCs, CallPCs, FlushPCs,
    ExecPCs, ParPCs, hot, grid, work, control, local, history
<1>35. CASE ParallelTask(t)
  <2>1. arg[t] \in Routines
    BY <1>35, <1>b DEF Place, ParallelTask, RoutinePCs
  <2>2. log' \in Seq(Routines)
    BY <1>35, <1>a, <2>1 DEF TypeOK, ParallelTask
  <2>3. pc' \in [Threads -> PCs] /\ arg' \in [Threads -> Routines \cup {None}]
    BY <1>35, <1>a DEF TypeOK, ParallelTask, Set, Goto, PCs, FlushPCs
  <2> QED
    BY <1>35, <1>a, <2>2, <2>3 DEF TypeOK, ParallelTask, hot, grid, work, local
<1> QED
  BY <1>1, <1>2, <1>3, <1>4, <1>5, <1>6, <1>7, <1>8, <1>9, <1>10, <1>11, <1>12, <1>13,
    <1>14, <1>15, <1>16, <1>17, <1>18, <1>19, <1>20, <1>21, <1>22, <1>23, <1>24, <1>25,
    <1>26, <1>27, <1>28, <1>29, <1>30, <1>31, <1>32, <1>33, <1>34, <1>35 DEF Step

\* What a step of t leaves alone, and what it does to the owner.
LEMMA OthersStay ==
  ASSUME WarpInv, NEW t \in Threads, Call(t) \/ Step(t), NEW u \in Threads, u # t
  PROVE  /\ pc'[u] = pc[u] /\ ret'[u] = ret[u] /\ arg'[u] = arg[u]
         /\ after'[u] = after[u] /\ todo'[u] = todo[u]
         /\ owner = u => owner' = u
<1> USE NoneApart DEF WarpInv, TypeOK
<1>1. CASE Call(t)
  BY <1>1 DEF Call, Goto, Set, hot, control
<1>2. CASE Post(t)
  BY <1>2 DEF Post, Goto, Set, hot, control
<1>3. CASE TakeVersion(t)
  BY <1>3 DEF TakeVersion, Goto, Set, hot, control
<1>4. CASE Guard(t)
  BY <1>4 DEF Guard, Goto, Set, hot, control
<1>5. CASE Recheck(t)
  BY <1>5 DEF Recheck, Goto, Set, hot, control
<1>6. CASE Run(t)
  BY <1>6 DEF Run, Goto, Set, Execute, hot, control
<1>7. CASE Preempt(t, "preempt", "recheck", "post")
  BY <1>7 DEF Preempt, Goto, Set, hot, control
<1>8. CASE Flush(t)
  BY <1>8 DEF Flush, Goto, Set, hot, control
<1>9. CASE FlushExchange(t)
  BY <1>9 DEF FlushExchange, Goto, Set, hot, control
<1>10. CASE Yield(t)
  BY <1>10 DEF Yield, Goto, Set, hot, control, Place, OwnPCs
<1>11. CASE ExchangeIdle(t, "yieldx", after[t])
  BY <1>11 DEF ExchangeIdle, Goto, Set, hot, control
<1>12. CASE Resume(t)
  BY <1>12 DEF Resume, Goto, Set, hot, control
<1>13. CASE ExchangeIdle(t, "resumex", "free")
  BY <1>13 DEF ExchangeIdle, Goto, Set, hot, control
<1>14. CASE TakeJob(t)
  BY <1>14 DEF TakeJob, Goto, Set, hot, control
<1>15. CASE TakeExternal(t)
  BY <1>15 DEF TakeExternal, Goto, Set, hot, control
<1>16. CASE ExecuteGuard(t)
  BY <1>16 DEF ExecuteGuard, Goto, Set, hot, control
<1>17. CASE Preempt(t, "x1", "x2", "par")
  BY <1>17 DEF Preempt, Goto, Set, hot, control
<1>18. CASE ExecuteRecheck(t)
  BY <1>18 DEF ExecuteRecheck, Goto, Set, hot, control
<1>19. CASE ExecuteParallel(t, "drain", "check")
  BY <1>19 DEF ExecuteParallel, Goto, Set, hot, control
<1>20. CASE DoubleCheck(t)
  BY <1>20 DEF DoubleCheck, Goto, Set, hot, control
<1>21. CASE Defer(t)
  BY <1>21 DEF Defer, Goto, Set, hot, control
<1>22. CASE Mark(t)
  BY <1>22 DEF Mark, Goto, Set, hot, control
<1>23. CASE Pop(t)
  BY <1>23 DEF Pop, Goto, Set, hot, control
<1>24. CASE NextBuffer(t)
  BY <1>24 DEF NextBuffer, Goto, Set, hot, control
<1>25. CASE EndPass(t)
  BY <1>25 DEF EndPass, Goto, Set, hot, control
<1>26. CASE Task(t)
  BY <1>26 DEF Task, Goto, Set, Execute, hot, control
<1>27. CASE Ran(t)
  BY <1>27 DEF Ran, Goto, Set, hot, control
<1>28. CASE TryParallel(t)
  BY <1>28 DEF TryParallel, Goto, Set, hot, control
<1>29. CASE Preempt(t, "parpreempt", "pardrain", "free")
  BY <1>29 DEF Preempt, Goto, Set, hot, control
<1>30. CASE ExecuteParallel(t, "pardrain", "yield")
  BY <1>30 DEF ExecuteParallel, Goto, Set, hot, control
<1>31. CASE Chain(t)
  BY <1>31 DEF Chain, Goto, Set, hot, control
<1>32. CASE Link(t)
  BY <1>32 DEF Link, Goto, Set, hot, control
<1>33. CASE Submit(t)
  BY <1>33 DEF Submit, Goto, Set, hot, control
<1>34. CASE TakeParallel(t)
  BY <1>34 DEF TakeParallel, Goto, Set, hot, control
<1>35. CASE ParallelTask(t)
  BY <1>35 DEF ParallelTask, Goto, Set, hot, control
<1> QED
  BY <1>1, <1>2, <1>3, <1>4, <1>5, <1>6, <1>7, <1>8, <1>9, <1>10, <1>11, <1>12, <1>13,
    <1>14, <1>15, <1>16, <1>17, <1>18, <1>19, <1>20, <1>21, <1>22, <1>23, <1>24, <1>25,
    <1>26, <1>27, <1>28, <1>29, <1>30, <1>31, <1>32, <1>33, <1>34, <1>35 DEF Step

\* Control: a thread goes only where it may be.
LEMMA PlaceStep ==
  ASSUME WarpInv, NEW t \in Threads, Call(t) \/ Step(t)
  PROVE  Place(t)'
<1> USE NoneApart DEF WarpInv, TypeOK
<1>a. Place(t) /\ Script(t)
  OBVIOUS
<1>1. CASE Call(t)
  <2> DEFINE c == Head(todo[t])
  <2>1. c \in Calls /\ c = todo[t][1] /\ 1 \in 1 .. Len(todo[t])
    BY <1>1, NextCall DEF Call
  <2>2. /\ c.kind \in Kinds
        /\ c.kind # "barrier" => c.routine \in Routines
        /\ t \in Externals => c.kind = "post"
        /\ c.kind = "await" => c.routine \in Awaited
    BY <2>1, <1>a DEF Calls, Kinds, Script
  <2>3. ret'[t] = "free" /\ after'[t] = "free" /\ arg'[t] = c.routine
    BY <1>1 DEF Call, Set
  <2>4. /\ c.kind = "post" => pc'[t] = "post"
        /\ c.kind = "routine" => pc'[t] = "guard"
        /\ c.kind = "barrier" => pc'[t] = "version"
        /\ c.kind = "await" => pc'[t] = "submit"
        /\ c.kind = "parallel" => pc'[t] = "chain"
        /\ c.kind = "parallel_post" => pc'[t] = "chainpost"
    BY <1>1 DEF Call, Goto, Set
  <2> HIDE DEF c
  <2> QED
    BY <2>2, <2>3, <2>4 DEF Place, OwnPCs, ReturnPCs, FreshPCs, RoutinePCs, Kinds
<1>2. CASE Post(t)
  BY <1>2, <1>a DEF Post, Goto, Set, hot, control, Place, OwnPCs, ReturnPCs, FreshPCs,
    RoutinePCs
<1>3. CASE TakeVersion(t)
  BY <1>3, <1>a DEF TakeVersion, Goto, Set, hot, control, Place, OwnPCs, ReturnPCs,
    FreshPCs, RoutinePCs
<1>4. CASE Guard(t)
  BY <1>4, <1>a DEF Guard, Goto, Set, hot, control, Place, OwnPCs, ReturnPCs, FreshPCs,
    RoutinePCs
<1>5. CASE Recheck(t)
  BY <1>5, <1>a DEF Recheck, Goto, Set, hot, control, Place, OwnPCs, ReturnPCs, FreshPCs,
    RoutinePCs
<1>6. CASE Run(t)
  BY <1>6, <1>a, WarpAssumption DEF Run, Goto, Set, Execute, hot, control, Place, OwnPCs,
    ReturnPCs, FreshPCs, RoutinePCs
<1>7. CASE Preempt(t, "preempt", "recheck", "post")
  BY <1>7, <1>a DEF Preempt, Goto, Set, hot, control, Place, OwnPCs, ReturnPCs, FreshPCs,
    RoutinePCs
<1>8. CASE Flush(t)
  BY <1>8, <1>a DEF Flush, Goto, Set, hot, control, Place, OwnPCs, ReturnPCs, FreshPCs,
    RoutinePCs
<1>9. CASE FlushExchange(t)
  BY <1>9, <1>a DEF FlushExchange, Goto, Set, hot, control, Place, OwnPCs, ReturnPCs,
    FreshPCs, RoutinePCs
<1>10. CASE Yield(t)
  BY <1>10, <1>a DEF Yield, Goto, Set, hot, control, Place, OwnPCs, ReturnPCs, FreshPCs,
    RoutinePCs
<1>11. CASE ExchangeIdle(t, "yieldx", after[t])
  BY <1>11, <1>a DEF ExchangeIdle, Goto, Set, hot, control, Place, OwnPCs, ReturnPCs,
    FreshPCs, RoutinePCs
<1>12. CASE Resume(t)
  BY <1>12, <1>a DEF Resume, Goto, Set, hot, control, Place, OwnPCs, ReturnPCs, FreshPCs,
    RoutinePCs
<1>13. CASE ExchangeIdle(t, "resumex", "free")
  BY <1>13, <1>a DEF ExchangeIdle, Goto, Set, hot, control, Place, OwnPCs, ReturnPCs,
    FreshPCs, RoutinePCs
<1>14. CASE TakeJob(t)
  BY <1>14, <1>a DEF TakeJob, Goto, Set, hot, control, Place, OwnPCs, ReturnPCs, FreshPCs,
    RoutinePCs
<1>15. CASE TakeExternal(t)
  BY <1>15, <1>a DEF TakeExternal, Goto, Set, hot, control, Place, OwnPCs, ReturnPCs,
    FreshPCs, RoutinePCs
<1>16. CASE ExecuteGuard(t)
  BY <1>16, <1>a DEF ExecuteGuard, Goto, Set, hot, control, Place, OwnPCs, ReturnPCs,
    FreshPCs, RoutinePCs
<1>17. CASE Preempt(t, "x1", "x2", "par")
  BY <1>17, <1>a DEF Preempt, Goto, Set, hot, control, Place, OwnPCs, ReturnPCs, FreshPCs,
    RoutinePCs
<1>18. CASE ExecuteRecheck(t)
  BY <1>18, <1>a DEF ExecuteRecheck, Goto, Set, hot, control, Place, OwnPCs, ReturnPCs,
    FreshPCs, RoutinePCs
<1>19. CASE ExecuteParallel(t, "drain", "check")
  BY <1>19, <1>a DEF ExecuteParallel, Goto, Set, hot, control, Place, OwnPCs, ReturnPCs,
    FreshPCs, RoutinePCs
<1>20. CASE DoubleCheck(t)
  BY <1>20, <1>a DEF DoubleCheck, Goto, Set, hot, control, Place, OwnPCs, ReturnPCs,
    FreshPCs, RoutinePCs
<1>21. CASE Defer(t)
  BY <1>21, <1>a DEF Defer, Goto, Set, hot, control, Place, OwnPCs, ReturnPCs, FreshPCs,
    RoutinePCs
<1>22. CASE Mark(t)
  BY <1>22, <1>a DEF Mark, Goto, Set, hot, control, Place, OwnPCs, ReturnPCs, FreshPCs,
    RoutinePCs
<1>23. CASE Pop(t)
  BY <1>23, <1>a DEF Pop, Goto, Set, hot, control, Place, OwnPCs, ReturnPCs, FreshPCs,
    RoutinePCs
<1>24. CASE NextBuffer(t)
  BY <1>24, <1>a DEF NextBuffer, Goto, Set, hot, control, Place, OwnPCs, ReturnPCs,
    FreshPCs, RoutinePCs
<1>25. CASE EndPass(t)
  BY <1>25, <1>a DEF EndPass, Goto, Set, hot, control, Place, OwnPCs, ReturnPCs, FreshPCs,
    RoutinePCs
<1>26. CASE Task(t)
  BY <1>26, <1>a, WarpAssumption DEF Task, Goto, Set, Execute, hot, control, Place, OwnPCs,
    ReturnPCs, FreshPCs, RoutinePCs
<1>27. CASE Ran(t)
  BY <1>27, <1>a DEF Ran, Goto, Set, hot, control, Place, OwnPCs, ReturnPCs, FreshPCs,
    RoutinePCs
<1>28. CASE TryParallel(t)
  BY <1>28, <1>a DEF TryParallel, Goto, Set, hot, control, Place, OwnPCs, ReturnPCs,
    FreshPCs, RoutinePCs
<1>29. CASE Preempt(t, "parpreempt", "pardrain", "free")
  BY <1>29, <1>a DEF Preempt, Goto, Set, hot, control, Place, OwnPCs, ReturnPCs, FreshPCs,
    RoutinePCs
<1>30. CASE ExecuteParallel(t, "pardrain", "yield")
  BY <1>30, <1>a DEF ExecuteParallel, Goto, Set, hot, control, Place, OwnPCs, ReturnPCs,
    FreshPCs, RoutinePCs
<1>31. CASE Chain(t)
  BY <1>31, <1>a DEF Chain, Goto, Set, hot, control, Place, OwnPCs, ReturnPCs, FreshPCs,
    RoutinePCs
<1>32. CASE Link(t)
  BY <1>32, <1>a DEF Link, Goto, Set, hot, control, Place, OwnPCs, ReturnPCs, FreshPCs,
    RoutinePCs
<1>33. CASE Submit(t)
  BY <1>33, <1>a DEF Submit, Goto, Set, hot, control, Place, OwnPCs, ReturnPCs, FreshPCs,
    RoutinePCs
<1>34. CASE TakeParallel(t)
  BY <1>34, <1>a DEF TakeParallel, Goto, Set, hot, control, Place, OwnPCs, ReturnPCs,
    FreshPCs, RoutinePCs
<1>35. CASE ParallelTask(t)
  BY <1>35, <1>a DEF ParallelTask, Goto, Set, hot, control, Place, OwnPCs, ReturnPCs,
    FreshPCs, RoutinePCs
<1> QED
  BY <1>1, <1>2, <1>3, <1>4, <1>5, <1>6, <1>7, <1>8, <1>9, <1>10, <1>11, <1>12, <1>13,
    <1>14, <1>15, <1>16, <1>17, <1>18, <1>19, <1>20, <1>21, <1>22, <1>23, <1>24, <1>25,
    <1>26, <1>27, <1>28, <1>29, <1>30, <1>31, <1>32, <1>33, <1>34, <1>35 DEF Step

LEMMA ScriptStep ==
  ASSUME WarpInv, NEW t \in Threads, Call(t) \/ Step(t)
  PROVE  Script(t)'
<1>1. CASE Call(t)
  <2>1. todo'[t] = Tail(todo[t])
    BY <1>1 DEF Call, Set, WarpInv, TypeOK
  <2>2. \A i \in 1 .. Len(Tail(todo[t])) :
           Tail(todo[t])[i] = todo[t][i + 1] /\ i + 1 \in 1 .. Len(todo[t])
    BY <1>1, NextCall DEF Call, WarpInv
  <2>3. Script(t)
    BY DEF WarpInv
  <2> QED
    BY <2>1, <2>2, <2>3 DEF Script
<1>2. CASE Step(t)
  <2>1. todo' = todo
    BY <1>2 DEF Step, Post, TakeVersion, Guard, Recheck, Run, Preempt, Flush,
       FlushExchange, Yield, ExchangeIdle, Resume, TakeJob, TakeExternal, ExecuteGuard,
       ExecuteRecheck, ExecuteParallel, DoubleCheck, Defer, Mark, Pop, NextBuffer, EndPass,
       Task, Ran, TryParallel, Chain, Link, Submit, TakeParallel, ParallelTask, control
  <2> QED
    BY <2>1 DEF Script, WarpInv
<1> QED
  BY <1>1, <1>2

\* Moving t to l changes the holders of a suspension by t at most.
LEMMA HoldersAre ==
  ASSUME TypeOK, NEW t \in Threads, NEW l, Goto(t, l)
  PROVE  /\ l \in SuspendPCs => Holders' = Holders \cup {t}
         /\ l \notin SuspendPCs => Holders' = Holders \ {t}
BY DEF TypeOK, Goto, Set, Holders

\* The ways a step can move a suspension on.
Kept == /\ Holders' \subseteq Holders
        /\ UNCHANGED <<suspended, parallel, parJobs>>
Suspends(t) == /\ Holders' \subseteq Holders \cup {t}
               /\ suspended' = suspended + 1 /\ UNCHANGED <<parallel, parJobs>>
ToPool(t) == /\ t \in Holders /\ Holders' = Holders \ {t}
             /\ parJobs' = parJobs \cup {arg[t]} /\ UNCHANGED <<suspended, parallel>>
ToChain(t) == /\ t \in Holders /\ Holders' = Holders \ {t}
              /\ parallel' = parallel \cup {arg[t]} /\ UNCHANGED <<suspended, parJobs>>
Drains == /\ Holders' \subseteq Holders
          /\ parallel' = {} /\ parJobs' = parJobs \cup parallel /\ UNCHANGED suspended
Takes(t) == /\ \E r \in parJobs : parJobs' = parJobs \ {r}
            /\ Holders' = Holders \cup {t} /\ UNCHANGED <<suspended, parallel>>
Resumes(t) == /\ t \in Holders /\ Holders' = Holders \ {t}
              /\ suspended' = suspended - 1 /\ UNCHANGED <<parallel, parJobs>>

LEMMA SuspendEffect ==
  ASSUME WarpInv, NEW t \in Threads, Call(t) \/ Step(t)
  PROVE  \/ Kept \/ Suspends(t) \/ ToPool(t) \/ ToChain(t) \/ Drains \/ Takes(t)
         \/ Resumes(t)
<1>a. TypeOK
  BY DEF WarpInv
<1>b. Place(t)
  BY DEF WarpInv
<1>1. CASE Call(t)
  <2> DEFINE c == Head(todo[t])
  <2>1. c.kind \in Kinds
    BY <1>a, <1>1, NextCall DEF Call, Calls, Kinds
  <2>2. pc[t] \notin SuspendPCs /\ UNCHANGED <<parallel, parJobs>>
    BY <1>1 DEF Call, SuspendPCs, work
  <2>3. CASE c.kind \in {"parallel", "parallel_post", "await"}
    <3>1. suspended' = suspended + 1
      BY <1>1, <2>3 DEF Call
    <3>2. Holders' \subseteq Holders \cup {t}
      BY <1>a, <1>1, HoldersAre DEF Call
    <3> QED
      BY <3>1, <3>2, <2>2 DEF Suspends
  <2>4. CASE c.kind \in {"post", "routine", "barrier"}
    <3>1. suspended' = suspended
      BY <1>1, <2>4 DEF Call
    <3>2. \E l \in {"post", "guard", "version"} : Goto(t, l)
      BY <1>1, <2>4 DEF Call
    <3>3. Holders' \subseteq Holders
      BY <1>a, <3>2, HoldersAre DEF SuspendPCs
    <3> QED
      BY <3>1, <3>3, <2>2 DEF Kept
  <2> QED
    BY <2>1, <2>3, <2>4 DEF Kinds
<1>2. CASE Post(t)
  BY <1>a, <1>b, <1>2, HoldersAre DEF Post, Kept, SuspendPCs, hot, work, Place, ReturnPCs
<1>3. CASE TakeVersion(t)
  BY <1>a, <1>3, HoldersAre DEF TakeVersion, Kept, SuspendPCs, hot, work
<1>4. CASE Guard(t)
  BY <1>a, <1>4, HoldersAre DEF Guard, Kept, SuspendPCs, hot, work
<1>5. CASE Recheck(t)
  BY <1>a, <1>5, HoldersAre DEF Recheck, Kept, SuspendPCs, hot, work
<1>6. CASE Run(t)
  BY <1>a, <1>6, HoldersAre DEF Run, Kept, SuspendPCs, hot, work, Execute
<1>7. CASE Preempt(t, "preempt", "recheck", "post")
  BY <1>a, <1>7, HoldersAre DEF Preempt, Kept, SuspendPCs, hot, work
<1>8. CASE Flush(t)
  BY <1>a, <1>b, <1>8, HoldersAre DEF Flush, Kept, SuspendPCs, hot, work, Place, ReturnPCs
<1>9. CASE FlushExchange(t)
  BY <1>a, <1>b, <1>9, HoldersAre DEF FlushExchange, Kept, SuspendPCs, hot, work, Place,
    ReturnPCs
<1>10. CASE Yield(t)
  BY <1>a, <1>10, HoldersAre DEF Yield, Kept, SuspendPCs, hot, work
<1>11. CASE ExchangeIdle(t, "yieldx", after[t])
  BY <1>a, <1>b, <1>11, HoldersAre DEF ExchangeIdle, Kept, SuspendPCs, hot, work, Place
<1>12. CASE Resume(t)
  BY <1>a, <1>12, HoldersAre DEF Resume, Resumes, SuspendPCs, hot, work, Holders
<1>13. CASE ExchangeIdle(t, "resumex", "free")
  BY <1>a, <1>b, <1>13, HoldersAre DEF ExchangeIdle, Kept, SuspendPCs, hot, work, Place
<1>14. CASE TakeJob(t)
  BY <1>a, <1>14, HoldersAre DEF TakeJob, Kept, SuspendPCs, hot, work
<1>15. CASE TakeExternal(t)
  BY <1>a, <1>15, HoldersAre DEF TakeExternal, Kept, SuspendPCs, hot, work
<1>16. CASE ExecuteGuard(t)
  BY <1>a, <1>16, HoldersAre DEF ExecuteGuard, Kept, SuspendPCs, hot, work
<1>17. CASE Preempt(t, "x1", "x2", "par")
  BY <1>a, <1>17, HoldersAre DEF Preempt, Kept, SuspendPCs, hot, work
<1>18. CASE ExecuteRecheck(t)
  BY <1>a, <1>18, HoldersAre DEF ExecuteRecheck, Kept, SuspendPCs, hot, work
<1>19. CASE ExecuteParallel(t, "drain", "check")
  BY <1>a, <1>19, HoldersAre DEF ExecuteParallel, Drains, SuspendPCs, hot, work
<1>20. CASE DoubleCheck(t)
  BY <1>a, <1>20, HoldersAre DEF DoubleCheck, Kept, SuspendPCs, hot, work
<1>21. CASE Defer(t)
  BY <1>a, <1>21, HoldersAre DEF Defer, Kept, SuspendPCs, hot, work
<1>22. CASE Mark(t)
  BY <1>a, <1>22, HoldersAre DEF Mark, Kept, SuspendPCs, hot, work
<1>23. CASE Pop(t)
  BY <1>a, <1>23, HoldersAre DEF Pop, Kept, SuspendPCs, hot, work
<1>24. CASE NextBuffer(t)
  BY <1>24 DEF NextBuffer, Kept, Holders, hot, work, control
<1>25. CASE EndPass(t)
  BY <1>a, <1>25, HoldersAre DEF EndPass, Kept, SuspendPCs, hot, work
<1>26. CASE Task(t)
  BY <1>a, <1>26, HoldersAre DEF Task, Kept, SuspendPCs, hot, work, Execute
<1>27. CASE Ran(t)
  BY <1>a, <1>27, HoldersAre DEF Ran, Kept, SuspendPCs, hot, work
<1>28. CASE TryParallel(t)
  BY <1>a, <1>28, HoldersAre DEF TryParallel, Kept, SuspendPCs, hot, work
<1>29. CASE Preempt(t, "parpreempt", "pardrain", "free")
  BY <1>a, <1>29, HoldersAre DEF Preempt, Kept, SuspendPCs, hot, work
<1>30. CASE ExecuteParallel(t, "pardrain", "yield")
  BY <1>a, <1>30, HoldersAre DEF ExecuteParallel, Drains, SuspendPCs, hot, work
<1>31. CASE Chain(t)
  <2>0. t \in Holders
    BY <1>31 DEF Chain, Holders, SuspendPCs
  <2>1. CASE Goto(t, "ptask") /\ UNCHANGED parJobs
    BY <1>a, <1>31, <2>0, <2>1, HoldersAre DEF Chain, Kept, SuspendPCs, hot
  <2>2. CASE parJobs' = parJobs \cup {arg[t]} /\ Goto(t, "free")
    BY <1>a, <1>31, <2>0, <2>2, HoldersAre DEF Chain, ToPool, SuspendPCs, hot
  <2>3. CASE Goto(t, "link") /\ UNCHANGED parJobs
    BY <1>a, <1>31, <2>0, <2>3, HoldersAre DEF Chain, Kept, SuspendPCs, hot
  <2> QED
    BY <1>31, <2>1, <2>2, <2>3 DEF Chain
<1>32. CASE Link(t)
  BY <1>a, <1>32, HoldersAre DEF Link, ToChain, SuspendPCs, hot, work, Holders
<1>33. CASE Submit(t)
  BY <1>a, <1>33, HoldersAre DEF Submit, ToPool, SuspendPCs, hot, work, Holders
<1>34. CASE TakeParallel(t)
  BY <1>a, <1>34, HoldersAre DEF TakeParallel, Takes, SuspendPCs, hot, work
<1>35. CASE ParallelTask(t)
  BY <1>a, <1>35, HoldersAre DEF ParallelTask, Kept, SuspendPCs, Holders, hot, work
<1> QED
  BY <1>1, <1>2, <1>3, <1>4, <1>5, <1>6, <1>7, <1>8, <1>9, <1>10, <1>11, <1>12, <1>13,
    <1>14, <1>15, <1>16, <1>17, <1>18, <1>19, <1>20, <1>21, <1>22, <1>23, <1>24, <1>25,
    <1>26, <1>27, <1>28, <1>29, <1>30, <1>31, <1>32, <1>33, <1>34, <1>35 DEF Step

LEMMA OneMore ==
  ASSUME NEW S, NEW x, IsFiniteSet(S)
  PROVE  /\ IsFiniteSet(S \cup {x}) /\ Cardinality(S \cup {x}) \in Nat
         /\ Cardinality(S \cup {x}) <= Cardinality(S) + 1
<1>1. IsFiniteSet(S \cup {x}) /\ Cardinality(S) \in Nat
  BY FS_AddElement, FS_CardinalityType
<1>2. Cardinality(S \cup {x}) \in {Cardinality(S), Cardinality(S) + 1}
  BY FS_AddElement
<1> QED
  BY <1>1, <1>2

LEMMA CountedStep ==
  ASSUME WarpInv, NEW t \in Threads, Call(t) \/ Step(t)
  PROVE  Counted'
<1>1. /\ IsFiniteSet(Holders) /\ IsFiniteSet(Holders')
      /\ Holders \subseteq Threads /\ Holders' \subseteq Threads
  BY ThreadsFinite, FS_Subset DEF Holders
<1>2. /\ IsFiniteSet(parallel) /\ IsFiniteSet(parJobs) /\ suspended \in Nat
      /\ Cardinality(Holders) + Cardinality(parallel) + Cardinality(parJobs) <= suspended
  BY DEF WarpInv, Counted, TypeOK
<1>3. /\ Cardinality(Holders) \in Nat /\ Cardinality(Holders') \in Nat
      /\ Cardinality(parallel) \in Nat /\ Cardinality(parJobs) \in Nat
  BY <1>1, <1>2, FS_CardinalityType
<1>4. CASE Kept
  BY <1>1, <1>2, <1>3, <1>4, FS_Subset DEF Kept, Counted
<1>5. CASE Suspends(t)
  <2>1. IsFiniteSet(Holders \cup {t})
        /\ Cardinality(Holders \cup {t}) <= Cardinality(Holders) + 1
        /\ Cardinality(Holders \cup {t}) \in Nat
    BY <1>1, OneMore
  <2>2. Cardinality(Holders') <= Cardinality(Holders \cup {t})
    BY <1>5, <2>1, FS_Subset DEF Suspends
  <2> QED
    BY <1>2, <1>3, <1>5, <2>1, <2>2 DEF Suspends, Counted
<1>6. ASSUME t \in Holders, Holders' = Holders \ {t}
      PROVE  Cardinality(Holders') = Cardinality(Holders) - 1
  BY <1>1, <1>6, FS_RemoveElement
<1>7. CASE ToPool(t)
  <2>1. /\ IsFiniteSet(parJobs') /\ Cardinality(parJobs') \in Nat
        /\ Cardinality(parJobs') <= Cardinality(parJobs) + 1
    BY <1>2, <1>7, OneMore DEF ToPool
  <2> QED
    BY <1>2, <1>3, <1>6, <1>7, <2>1 DEF ToPool, Counted
<1>8. CASE ToChain(t)
  <2>1. /\ IsFiniteSet(parallel') /\ Cardinality(parallel') \in Nat
        /\ Cardinality(parallel') <= Cardinality(parallel) + 1
    BY <1>2, <1>8, OneMore DEF ToChain
  <2> QED
    BY <1>2, <1>3, <1>6, <1>8, <2>1 DEF ToChain, Counted
<1>9. CASE Drains
  <2>1. /\ IsFiniteSet(parJobs') /\ Cardinality(parJobs') \in Nat
        /\ Cardinality(parJobs') <= Cardinality(parJobs) + Cardinality(parallel)
    <3>1. /\ IsFiniteSet(parJobs \cup parallel)
          /\ Cardinality(parJobs \cup parallel) =
                Cardinality(parJobs) + Cardinality(parallel)
                - Cardinality(parJobs \cap parallel)
      BY <1>2, FS_Union
    <3>2. Cardinality(parJobs \cap parallel) \in Nat
      BY <1>2, FS_Intersection, FS_CardinalityType
    <3> QED
      BY <1>3, <1>9, <3>1, <3>2, FS_CardinalityType DEF Drains
  <2>2. IsFiniteSet(parallel') /\ Cardinality(parallel') = 0
    BY <1>9, FS_EmptySet DEF Drains
  <2>3. Cardinality(Holders') <= Cardinality(Holders)
    BY <1>1, <1>9, FS_Subset DEF Drains
  <2> QED
    BY <1>2, <1>3, <1>9, <2>1, <2>2, <2>3 DEF Drains, Counted
<1>10. CASE Takes(t)
  <2>1. Cardinality(Holders') <= Cardinality(Holders) + 1
    BY <1>1, <1>10, OneMore DEF Takes
  <2>2. PICK r \in parJobs : parJobs' = parJobs \ {r}
    BY <1>10 DEF Takes
  <2>3. /\ IsFiniteSet(parJobs') /\ Cardinality(parJobs') \in Nat
        /\ Cardinality(parJobs') = Cardinality(parJobs) - 1
    BY <1>2, <1>3, <2>2, FS_RemoveElement, FS_CardinalityType
  <2> QED
    BY <1>2, <1>3, <1>10, <2>1, <2>3 DEF Takes, Counted
<1>11. CASE Resumes(t)
  BY <1>2, <1>3, <1>6, <1>11 DEF Resumes, Counted
<1> QED
  BY <1>4, <1>5, <1>7, <1>8, <1>9, <1>10, <1>11, SuspendEffect

\* A thread sets out to run ordinary routines only when it reads suspend_count as 0.
LEMMA StartsUnsuspended ==
  ASSUME WarpInv, NEW t \in Threads, Call(t) \/ Step(t),
         pc[t] \notin StartPCs, pc'[t] \in StartPCs
  PROVE  suspended = 0
<1>a. TypeOK /\ Place(t)
  BY DEF WarpInv
<1>b. pc \in [Threads -> PCs]
  BY <1>a DEF TypeOK
<1>1. CASE Call(t)
  <2>1. Head(todo[t]).kind \in Kinds
    BY <1>a, <1>1, NextCall DEF Call, Calls, Kinds
  <2> QED
    BY <1>b, <1>1, <2>1 DEF Call, Goto, Set, StartPCs, Kinds
<1>2. CASE Post(t)
  BY <1>a, <1>b, <1>2 DEF Post, Goto, Set, StartPCs, Place, ReturnPCs
<1>3. CASE TakeVersion(t)
  BY <1>a, <1>b, <1>3 DEF TakeVersion, Goto, Set, StartPCs
<1>4. CASE Guard(t)
  BY <1>a, <1>b, <1>4 DEF Guard, Goto, Set, StartPCs
<1>5. CASE Recheck(t)
  BY <1>a, <1>b, <1>5 DEF Recheck, Goto, Set, StartPCs
<1>6. CASE Run(t)
  BY <1>a, <1>b, <1>6 DEF Run, Goto, Set, StartPCs, Execute
<1>7. CASE Preempt(t, "preempt", "recheck", "post")
  BY <1>a, <1>b, <1>7 DEF Preempt, Goto, Set, StartPCs
<1>8. CASE Flush(t)
  BY <1>a, <1>b, <1>8 DEF Flush, Goto, Set, StartPCs, Place, ReturnPCs
<1>9. CASE FlushExchange(t)
  BY <1>a, <1>b, <1>9 DEF FlushExchange, Goto, Set, StartPCs, Place, ReturnPCs
<1>10. CASE Yield(t)
  BY <1>a, <1>b, <1>10 DEF Yield, Goto, Set, StartPCs
<1>11. CASE ExchangeIdle(t, "yieldx", after[t])
  BY <1>a, <1>b, <1>11 DEF ExchangeIdle, Goto, Set, StartPCs, Place, ReturnPCs
<1>12. CASE Resume(t)
  BY <1>a, <1>b, <1>12 DEF Resume, Goto, Set, StartPCs
<1>13. CASE ExchangeIdle(t, "resumex", "free")
  BY <1>a, <1>b, <1>13 DEF ExchangeIdle, Goto, Set, StartPCs, Place, ReturnPCs
<1>14. CASE TakeJob(t)
  BY <1>a, <1>b, <1>14 DEF TakeJob, Goto, Set, StartPCs
<1>15. CASE TakeExternal(t)
  BY <1>a, <1>b, <1>15 DEF TakeExternal, Goto, Set, StartPCs
<1>16. CASE ExecuteGuard(t)
  BY <1>a, <1>b, <1>16 DEF ExecuteGuard, Goto, Set, StartPCs
<1>17. CASE Preempt(t, "x1", "x2", "par")
  BY <1>a, <1>b, <1>17 DEF Preempt, Goto, Set, StartPCs
<1>18. CASE ExecuteRecheck(t)
  BY <1>a, <1>b, <1>18 DEF ExecuteRecheck, Goto, Set, StartPCs
<1>19. CASE ExecuteParallel(t, "drain", "check")
  BY <1>a, <1>b, <1>19 DEF ExecuteParallel, Goto, Set, StartPCs
<1>20. CASE DoubleCheck(t)
  BY <1>a, <1>b, <1>20 DEF DoubleCheck, Goto, Set, StartPCs
<1>21. CASE Defer(t)
  BY <1>a, <1>b, <1>21 DEF Defer, Goto, Set, StartPCs
<1>22. CASE Mark(t)
  BY <1>a, <1>b, <1>22 DEF Mark, Goto, Set, StartPCs
<1>23. CASE Pop(t)
  BY <1>a, <1>b, <1>23 DEF Pop, Goto, Set, StartPCs
<1>24. CASE NextBuffer(t)
  BY <1>a, <1>b, <1>24 DEF NextBuffer, Goto, Set, StartPCs, control
<1>25. CASE EndPass(t)
  BY <1>a, <1>b, <1>25 DEF EndPass, Goto, Set, StartPCs
<1>26. CASE Task(t)
  BY <1>a, <1>b, <1>26 DEF Task, Goto, Set, StartPCs, Execute
<1>27. CASE Ran(t)
  BY <1>a, <1>b, <1>27 DEF Ran, Goto, Set, StartPCs
<1>28. CASE TryParallel(t)
  BY <1>a, <1>b, <1>28 DEF TryParallel, Goto, Set, StartPCs
<1>29. CASE Preempt(t, "parpreempt", "pardrain", "free")
  BY <1>a, <1>b, <1>29 DEF Preempt, Goto, Set, StartPCs
<1>30. CASE ExecuteParallel(t, "pardrain", "yield")
  BY <1>a, <1>b, <1>30 DEF ExecuteParallel, Goto, Set, StartPCs
<1>31. CASE Chain(t)
  BY <1>a, <1>b, <1>31 DEF Chain, Goto, Set, StartPCs
<1>32. CASE Link(t)
  BY <1>a, <1>b, <1>32 DEF Link, Goto, Set, StartPCs
<1>33. CASE Submit(t)
  BY <1>a, <1>b, <1>33 DEF Submit, Goto, Set, StartPCs
<1>34. CASE TakeParallel(t)
  BY <1>a, <1>b, <1>34 DEF TakeParallel, Goto, Set, StartPCs
<1>35. CASE ParallelTask(t)
  BY <1>a, <1>b, <1>35 DEF ParallelTask, Goto, Set, StartPCs
<1> QED
  BY <1>1, <1>2, <1>3, <1>4, <1>5, <1>6, <1>7, <1>8, <1>9, <1>10, <1>11, <1>12, <1>13,
    <1>14, <1>15, <1>16, <1>17, <1>18, <1>19, <1>20, <1>21, <1>22, <1>23, <1>24, <1>25,
    <1>26, <1>27, <1>28, <1>29, <1>30, <1>31, <1>32, <1>33, <1>34, <1>35 DEF Step

\* A parallel routine gets into the pool, or starts, when nobody owns the warp or
\* from the chain that its owner drains.
LEMMA ReaderComes ==
  ASSUME WarpInv, NEW t \in Threads, Call(t) \/ Step(t), Reading', ~Reading
  PROVE  (Chain(t) /\ owner = None) \/ pc[t] \in {"drain", "pardrain"}
<1> SUFFICES ASSUME ~(Chain(t) /\ owner = None), pc[t] \notin {"drain", "pardrain"}
             PROVE  FALSE
  OBVIOUS
<1>a. TypeOK /\ Place(t)
  BY DEF WarpInv
<1>b. \A u \in Threads : u # t => pc'[u] = pc[u] /\ arg'[u] = arg[u]
  BY OthersStay
<1>c. \A r \in parJobs : r \in Awaited
  BY DEF Reading
<1>d. pc \in [Threads -> PCs] /\ arg \in [Threads -> Routines \cup {None}]
  BY <1>a DEF TypeOK
<1>e. ASSUME parJobs' \subseteq parJobs \cup Awaited,
             pc'[t] = "ptask" => arg'[t] \in Awaited
      PROVE  FALSE
  BY <1>b, <1>c, <1>e DEF Reading
<1>1. CASE Call(t)
  <2>1. Head(todo[t]).kind \in Kinds
    BY <1>a, <1>1, NextCall DEF Call, Calls, Kinds
  <2>2. pc'[t] # "ptask"
    BY <1>d, <1>1, <2>1 DEF Call, Goto, Set, Kinds
  <2> QED
    BY <1>1, <1>e, <2>2 DEF Call, work
<1>2. CASE Post(t)
  BY <1>a, <1>d, <1>e, <1>2 DEF Post, Goto, Set, work, Place, ReturnPCs
<1>3. CASE TakeVersion(t)
  BY <1>a, <1>d, <1>e, <1>3 DEF TakeVersion, Goto, Set, work
<1>4. CASE Guard(t)
  BY <1>a, <1>d, <1>e, <1>4 DEF Guard, Goto, Set, work
<1>5. CASE Recheck(t)
  BY <1>a, <1>d, <1>e, <1>5 DEF Recheck, Goto, Set, work
<1>6. CASE Run(t)
  BY <1>a, <1>d, <1>e, <1>6 DEF Run, Goto, Set, work, Execute
<1>7. CASE Preempt(t, "preempt", "recheck", "post")
  BY <1>a, <1>d, <1>e, <1>7 DEF Preempt, Goto, Set, work
<1>8. CASE Flush(t)
  BY <1>a, <1>d, <1>e, <1>8 DEF Flush, Goto, Set, work, Place, ReturnPCs
<1>9. CASE FlushExchange(t)
  BY <1>a, <1>d, <1>e, <1>9 DEF FlushExchange, Goto, Set, work, Place, ReturnPCs
<1>10. CASE Yield(t)
  BY <1>a, <1>d, <1>e, <1>10 DEF Yield, Goto, Set, work
<1>11. CASE ExchangeIdle(t, "yieldx", after[t])
  BY <1>a, <1>d, <1>e, <1>11 DEF ExchangeIdle, Goto, Set, work, Place, ReturnPCs
<1>12. CASE Resume(t)
  BY <1>a, <1>d, <1>e, <1>12 DEF Resume, Goto, Set, work
<1>13. CASE ExchangeIdle(t, "resumex", "free")
  BY <1>a, <1>d, <1>e, <1>13 DEF ExchangeIdle, Goto, Set, work, Place, ReturnPCs
<1>14. CASE TakeJob(t)
  BY <1>a, <1>d, <1>e, <1>14 DEF TakeJob, Goto, Set, work
<1>15. CASE TakeExternal(t)
  BY <1>a, <1>d, <1>e, <1>15 DEF TakeExternal, Goto, Set, work
<1>16. CASE ExecuteGuard(t)
  BY <1>a, <1>d, <1>e, <1>16 DEF ExecuteGuard, Goto, Set, work
<1>17. CASE Preempt(t, "x1", "x2", "par")
  BY <1>a, <1>d, <1>e, <1>17 DEF Preempt, Goto, Set, work
<1>18. CASE ExecuteRecheck(t)
  BY <1>a, <1>d, <1>e, <1>18 DEF ExecuteRecheck, Goto, Set, work
<1>19. CASE ExecuteParallel(t, "drain", "check")
  BY <1>a, <1>d, <1>e, <1>19 DEF ExecuteParallel, Goto, Set, work
<1>20. CASE DoubleCheck(t)
  BY <1>a, <1>d, <1>e, <1>20 DEF DoubleCheck, Goto, Set, work
<1>21. CASE Defer(t)
  BY <1>a, <1>d, <1>e, <1>21 DEF Defer, Goto, Set, work
<1>22. CASE Mark(t)
  BY <1>a, <1>d, <1>e, <1>22 DEF Mark, Goto, Set, work
<1>23. CASE Pop(t)
  BY <1>a, <1>d, <1>e, <1>23 DEF Pop, Goto, Set, work
<1>24. CASE NextBuffer(t)
  BY <1>a, <1>d, <1>e, <1>24 DEF NextBuffer, Goto, Set, work, control, Reading
<1>25. CASE EndPass(t)
  BY <1>a, <1>d, <1>e, <1>25 DEF EndPass, Goto, Set, work
<1>26. CASE Task(t)
  BY <1>a, <1>d, <1>e, <1>26 DEF Task, Goto, Set, work, Execute
<1>27. CASE Ran(t)
  BY <1>a, <1>d, <1>e, <1>27 DEF Ran, Goto, Set, work
<1>28. CASE TryParallel(t)
  BY <1>a, <1>d, <1>e, <1>28 DEF TryParallel, Goto, Set, work
<1>29. CASE Preempt(t, "parpreempt", "pardrain", "free")
  BY <1>a, <1>d, <1>e, <1>29 DEF Preempt, Goto, Set, work
<1>30. CASE ExecuteParallel(t, "pardrain", "yield")
  BY <1>a, <1>d, <1>e, <1>30 DEF ExecuteParallel, Goto, Set, work
<1>31. CASE Chain(t)
  BY <1>a, <1>d, <1>e, <1>31 DEF Chain, Goto, Set, work
<1>32. CASE Link(t)
  BY <1>a, <1>d, <1>e, <1>32 DEF Link, Goto, Set, work
<1>33. CASE Submit(t)
  BY <1>a, <1>d, <1>e, <1>33 DEF Submit, Goto, Set, work, Place, ReturnPCs
<1>34. CASE TakeParallel(t)
  BY <1>a, <1>d, <1>e, <1>34, <1>c DEF TakeParallel, Goto, Set, work
<1>35. CASE ParallelTask(t)
  BY <1>a, <1>d, <1>e, <1>35 DEF ParallelTask, Goto, Set, work
<1> QED
  BY <1>1, <1>2, <1>3, <1>4, <1>5, <1>6, <1>7, <1>8, <1>9, <1>10, <1>11, <1>12, <1>13,
    <1>14, <1>15, <1>16, <1>17, <1>18, <1>19, <1>20, <1>21, <1>22, <1>23, <1>24, <1>25,
    <1>26, <1>27, <1>28, <1>29, <1>30, <1>31, <1>32, <1>33, <1>34, <1>35 DEF Step

LEMMA ExcludedStep ==
  ASSUME WarpInv, NEW t \in Threads, Call(t) \/ Step(t)
  PROVE  Excluded'
<1> SUFFICES ASSUME Reading', NEW u \in Threads, pc'[u] \in StartPCs PROVE FALSE
  BY DEF Excluded
<1>a. TypeOK /\ Place(t) /\ Place(u) /\ Counted /\ Excluded
  BY DEF WarpInv
<1>b. u # t => pc'[u] = pc[u]
  BY OthersStay
<1>1. CASE Reading
  <2>1. suspended >= 1
    <3>1. CASE \E r \in parJobs : r \notin Awaited
      <4>1. parJobs # {} /\ IsFiniteSet(parJobs) /\ IsFiniteSet(parallel)
        BY <1>a, <3>1 DEF Counted
      <4>2. IsFiniteSet(Holders)
        BY ThreadsFinite, FS_Subset DEF Holders
      <4>3. Cardinality(parJobs) # 0 /\ Cardinality(parJobs) \in Nat
            /\ Cardinality(Holders) \in Nat /\ Cardinality(parallel) \in Nat
        BY <4>1, <4>2, FS_EmptySet, FS_CardinalityType
      <4> QED
        BY <1>a, <4>3 DEF Counted, TypeOK
    <3>2. CASE \E v \in Threads : pc[v] = "ptask"
      BY <1>a, <3>2, Suspended DEF SuspendPCs
    <3> QED
      BY <1>1, <3>1, <3>2 DEF Reading
  <2>2. pc[u] \notin StartPCs /\ u = t
    BY <1>1, <1>a, <1>b DEF Excluded
  <2>3. suspended = 0
    BY <2>2, StartsUnsuspended
  <2> QED
    BY <2>1, <2>3
<1>2. CASE ~Reading
  <2>1. CASE Chain(t) /\ owner = None
    <3>1. u # t
      BY <1>a, <2>1 DEF Chain, Goto, Set, StartPCs, TypeOK
    <3>2. owner = u
      BY <1>a, <1>b, <3>1 DEF Place, StartPCs, OwnPCs
    <3> QED
      BY <2>1, <3>2, NoneApart
  <2>2. CASE pc[t] \in {"drain", "pardrain"}
    <3>1. owner = t
      BY <1>a, <2>2 DEF Place, OwnPCs
    <3>2. u = t
      BY <1>a, <1>b, <3>1 DEF Place, StartPCs, OwnPCs
    <3>3. pc[t] \notin StartPCs
      BY <2>2 DEF StartPCs
    <3>4. ExecuteParallel(t, "drain", "check") \/ ExecuteParallel(t, "pardrain", "yield")
      BY <2>2 DEF Call, Step, Post, TakeVersion, Guard, Recheck, Run, Preempt, Flush,
         FlushExchange, Yield, ExchangeIdle, Resume, TakeJob, TakeExternal, ExecuteGuard,
         ExecuteRecheck, DoubleCheck, Defer, Mark, Pop, NextBuffer, EndPass,
         Task, Ran, TryParallel, Chain, Link, Submit, TakeParallel, ParallelTask
    <3> QED
      BY <1>a, <3>2, <3>4 DEF ExecuteParallel, Goto, Set, StartPCs, TypeOK
  <2> QED
    BY <1>2, <2>1, <2>2, ReaderComes
<1> QED
  BY <1>1, <1>2

LEMMA WarpStep == WarpInv /\ [Next]_vars => WarpInv'
<1> SUFFICES ASSUME WarpInv, [Next]_vars PROVE WarpInv'
  OBVIOUS
<1>1. ASSUME NEW t \in Threads, Call(t) \/ Step(t) PROVE WarpInv'
  <2>1. ASSUME NEW u \in Threads PROVE Place(u)' /\ Script(u)'
    <3>1. CASE u = t
      BY <1>1, <3>1, PlaceStep, ScriptStep
    <3>2. CASE u # t
      <4>1. /\ pc'[u] = pc[u] /\ ret'[u] = ret[u] /\ arg'[u] = arg[u]
            /\ after'[u] = after[u] /\ todo'[u] = todo[u]
            /\ owner = u => owner' = u
        BY <1>1, <3>2, OthersStay
      <4>2. Place(u) /\ Script(u)
        BY DEF WarpInv
      <4>3. Place(u)'
        BY <4>1, <4>2 DEF Place
      <4>4. Script(u)'
        BY <4>1, <4>2 DEF Script
      <4> QED
        BY <4>3, <4>4
    <3> QED
      BY <3>1, <3>2
  <2> QED
    BY <1>1, <2>1, TypeStep, CountedStep, ExcludedStep DEF WarpInv
<1>2. CASE UNCHANGED vars
  <2>1. TypeOK'
    BY <1>2 DEF WarpInv, TypeOK, vars, hot, grid, work, control, local, history
  <2>2. \A u \in Threads : Place(u)' /\ Script(u)'
    BY <1>2 DEF WarpInv, Place, Script, vars, hot, control
  <2>3. Counted'
    BY <1>2 DEF WarpInv, Counted, Holders, vars, hot, work, control
  <2>4. Excluded'
    BY <1>2 DEF WarpInv, Excluded, Reading, vars, work, control
  <2> QED
    BY <2>1, <2>2, <2>3, <2>4 DEF WarpInv
<1> QED
  BY <1>1, <1>2 DEF Next

LEMMA WarpInvariant == Spec => []WarpInv
  BY WarpInit, WarpStep, PTL DEF Spec

-----------------------------------------------------------------------------
(* Results                                                                   *)

(***************************************************************************)
(* Whatever the threads call, in any interleaving, every variable of the   *)
(* warp keeps its type; above all suspend_count never goes below zero: each *)
(* resume() belongs to one suspend(), also when the routine was chained     *)
(* for the owner or sent through the pool.                                  *)
(***************************************************************************)
THEOREM WarpTyped == Spec => []TypeOK
<1>1. WarpInv => TypeOK
  BY DEF WarpInv
<1> QED
  BY <1>1, WarpInvariant, PTL

(***************************************************************************)
(* Two routines of a warp never run at the same time, for any number of    *)
(* threads: thread_warp is compared and exchanged by every path that runs  *)
(* one, and no path runs one after it has yielded.                         *)
(***************************************************************************)
THEOREM WarpExclusive == Spec => []OneRoutineAtATime
<1>1. ASSUME WarpInv PROVE OneRoutineAtATime
  <2>1. \A t \in Inside : owner = t
    BY <1>1 DEF WarpInv, Place, Inside, OwnPCs
  <2>2. Inside \subseteq {owner}
    BY <2>1
  <2>3. Cardinality(Inside) <= Cardinality({owner})
    BY <2>2, FS_Singleton, FS_Subset
  <2>4. Cardinality({owner}) = 1
    BY FS_Singleton
  <2> QED
    BY <2>1, <2>3, <2>4 DEF OneRoutineAtATime
<1> QED
  BY <1>1, WarpInvariant, PTL

(***************************************************************************)
(* While a routine of queue_routine_parallel() runs, no ordinary routine   *)
(* of the warp does, although the owner and the parallel side only read    *)
(* each other's atomic: whoever starts an ordinary routine has read         *)
(* suspend_count as 0 while it owned the warp, and whoever lets a parallel  *)
(* one go found no owner, or is the owner, after it was suspended.          *)
(***************************************************************************)
THEOREM WarpReadersExclude == Spec => []ParallelExcludesRoutines
<1>1. ASSUME WarpInv PROVE ParallelExcludesRoutines
  <2> SUFFICES ASSUME NEW t \in Parallel, arg[t] \notin Awaited PROVE Inside = {}
    BY DEF ParallelExcludesRoutines
  <2>1. Reading
    BY DEF Reading, Parallel
  <2> QED
    BY <1>1, <2>1 DEF WarpInv, Excluded, Inside, StartPCs
<1> QED
  BY <1>1, WarpInvariant, PTL

-----------------------------------------------------------------------------
(***************************************************************************)
(* Each routine once, and the order of barriers: RunsOnceInOrder.          *)
(*                                                                         *)
(* Once: a ghost function place says of every routine where it is - in a   *)
(* script, in the hand of a thread, in the pool, the chain or a buffer,    *)
(* popped, or in the log.  Each holder has it alone (Placed), so what is   *)
(* executed was not in the log.                                            *)
(*                                                                         *)
(* In order: an entry that a barrier v put before another is Before v and  *)
(* the other After v.  Versions are distinct above current (Ahead), and    *)
(* current reaches v only when every buffer was passed over with nothing   *)
(* Before v left in it, but for the buffers that come before the barrier's *)
(* own in the pass.  So a routine that is popped follows nothing that is   *)
(* still in a buffer (PopOrdered).                                         *)
(***************************************************************************)

Stages == {"unborn", "todo", "hand", "ext", "par", "chain", "buffer", "task", "log"}
\* Where the routines are that a barrier may have put before another.
Late == {"buffer", "task", "log"}

\* Labels at which a thread has a routine it has not yet handed on, the routine,
\* and the one it executes as the owner.
HandPCs == RoutinePCs \cup {"post"}
Holds(t) == IF pc[t] \in HandPCs THEN arg[t] ELSE None
Runs(t) == IF pc[t] = "task" THEN arg[t] ELSE None

\* place[r] says where routine r is.  Each is in one place, and the routine it
\* will post is not there yet.
TodoAt(place) ==
    /\ \A t \in Threads : \A i \in 1 .. Len(todo[t]) :
          todo[t][i].routine # None => place[todo[t][i].routine] = "todo"
    /\ \A t, u \in Threads : \A i \in 1 .. Len(todo[t]), j \in 1 .. Len(todo[u]) :
          todo[t][i].routine # None /\ todo[t][i].routine = todo[u][j].routine
             => t = u /\ i = j
HandAt(place) ==
    /\ \A t \in Threads : Holds(t) # None => place[Holds(t)] = "hand"
    /\ \A t, u \in Threads : Holds(t) # None /\ Holds(t) = Holds(u) => t = u
TaskAt(place) ==
    /\ \A t \in Threads : Runs(t) # None => place[Runs(t)] = "task"
    /\ \A r \in Routines : place[r] = "task" => \E t \in Threads : Runs(t) = r
PoolAt(place) ==
    /\ \A r \in extJobs : place[r] = "ext"
    /\ \A r \in parJobs : place[r] = "par"
    /\ \A r \in parallel : place[r] = "chain"
BufferAt(place) ==
    /\ \A t \in Threads : \A i \in 1 .. Len(buffer[t]) :
          buffer[t][i].routine # None => place[buffer[t][i].routine] = "buffer"
    /\ \A t, u \in Threads : \A i \in 1 .. Len(buffer[t]), j \in 1 .. Len(buffer[u]) :
          buffer[t][i].routine # None /\ buffer[t][i].routine = buffer[u][j].routine
             => t = u /\ i = j
    /\ \A r \in Routines : place[r] = "buffer" =>
          \E t \in Threads : \E i \in 1 .. Len(buffer[t]) : buffer[t][i].routine = r
LogAt(place) ==
    /\ \A j \in 1 .. Len(log) : place[log[j]] = "log"
    /\ RunsOnce
    /\ \A r \in Routines : place[r] = "log" => \E j \in 1 .. Len(log) : log[j] = r
ChildAt(place) ==
    \A r \in Routines : Child[r] # None /\ place[r] # "log" => place[Child[r]] = "unborn"
FenceAt(place) ==
    /\ \A t \in Threads : \A r \in fence[t] : place[r] \in Late
    /\ \A q \in Routines : /\ \A r \in follows[q] : place[r] \in Late
                           /\ follows[q] # {} => place[q] \in Late
Placed(place) ==
    /\ place \in [Routines -> Stages]
    /\ TodoAt(place) /\ HandAt(place) /\ TaskAt(place) /\ PoolAt(place)
    /\ BufferAt(place) /\ LogAt(place) /\ ChildAt(place) /\ FenceAt(place)

\* The owner is inside execute_internal()'s loops: one that has popped a routine
\* returns to "ran".
Back(t) == pc[t] = "ran" \/ (pc[t] \in ReturnPCs /\ ret[t] = "ran")
Scans(t) == pc[t] \in {"scan", "task"} \/ Back(t)
Scanning == owner # None /\ Scans(owner)

\* The version of buffer b, with the barrier that was popped from it and is not
\* stored yet.
Version(b) ==
    IF owner # None /\ index = b /\ pc[owner] = "task" /\ arg[owner] = None THEN ver[owner]
    ELSE IF owner # None /\ index = b /\ Back(owner) THEN next
    ELSE versions[b]

\* The barrier u was queued by thread c, or is about to be, and is not popped.
Pending(c, u) ==
    /\ u > 0
    /\ \/ \E i \in 1 .. Len(buffer[c]) : buffer[c][i].version = u
       \/ pc[c] = "post" /\ ver[c] = u

\* A barrier has a version, a routine has none; the owner's locals.
Labels(t) ==
    /\ pc[t] \in {"post", "task"} => (arg[t] = None <=> ver[t] > 0)
    /\ pc[t] \in RoutinePCs \ {"ptask"} => ver[t] = 0
    /\ pc[t] = "version" => arg[t] = None
Locals(t) ==
    /\ Scans(t) /\ pc[t] # "scan" => index <= N
    /\ pc[t] \in {"scan", "task"} /\ index <= N => next = versions[index]
Marked ==
    /\ \A t \in Threads : Labels(t) /\ Locals(t)
    /\ \A t \in Threads : \A i \in 1 .. Len(buffer[t]) :
          buffer[t][i].routine = None <=> buffer[t][i].version > 0

\* Versions are taken upwards; current goes up by one, to a version popped.
Rising ==
    \A c \in Threads :
        /\ \A i, j \in 1 .. Len(buffer[c]) :
              i < j /\ buffer[c][j].version > 0 => buffer[c][i].version < buffer[c][j].version
        /\ pc[c] = "post" /\ ver[c] > 0 =>
              \A i \in 1 .. Len(buffer[c]) : buffer[c][i].version < ver[c]
Stepping == step \in {current, current + 1} /\ step <= barrierVersion
Ahead ==
    /\ \A b \in Threads : Version(b) <= barrierVersion
    /\ \A c \in Threads : \A u \in Nat : Pending(c, u) =>
          /\ u <= barrierVersion /\ u > step /\ u > Version(c)
          /\ \A b \in Threads : Version(b) # u
          /\ \A d \in Threads : Pending(d, u) => d = c
    /\ \A b, c \in Threads : Version(b) = Version(c) /\ Version(b) > current => b = c

\* The i-th of buffer b was there when the barrier v of thread c was queued: it
\* is before v, and current reaches v only for a pass that comes to b before c.
Before(b, i, c, v) ==
    /\ Version(b) < v /\ \A k \in 1 .. i - 1 : buffer[b][k].version < v
    /\ current >= v => b < c /\ ~(Scanning /\ index > b)
    /\ Scanning /\ step >= v => b < c \/ index <= b
\* What thread c queues at position j of its buffer is after the barrier v.
After(c, j, v) ==
    \/ Version(c) = v \/ (Version(c) >= v /\ current >= v)
    \/ \E k \in 1 .. j - 1 : buffer[c][k].version = v
\* ... and what it queues next.
AfterAll(c, v) == After(c, Len(buffer[c]) + 1, v) \/ (pc[c] = "post" /\ ver[c] = v)

FenceOrdered ==
    \A c, b \in Threads : \A i \in 1 .. Len(buffer[b]) :
        buffer[b][i].routine \in fence[c] =>
            \E v \in Nat \ {0} : Before(b, i, c, v) /\ AfterAll(c, v)
BufferOrdered ==
    \A c, b \in Threads : \A j \in 1 .. Len(buffer[c]), i \in 1 .. Len(buffer[b]) :
        buffer[c][j].routine # None /\ buffer[b][i].routine \in follows[buffer[c][j].routine]
            => \E v \in Nat \ {0} : Before(b, i, c, v) /\ After(c, j, v)
TaskOrdered ==
    \A t \in Threads : Runs(t) # None =>
        \A r \in follows[Runs(t)] : \E j \in 1 .. Len(log) : log[j] = r

GridInv ==
    /\ Marked /\ Rising /\ Stepping /\ Ahead
    /\ FenceOrdered /\ BufferOrdered
OrderInv ==
    /\ \E place \in [Routines -> Stages] : Placed(place)
    /\ GridInv /\ TaskOrdered /\ BarrierOrder

LEMMA TailAt ==
  ASSUME NEW S, NEW s \in Seq(S), s # << >>
  PROVE  /\ Head(s) = s[1] /\ 1 \in 1 .. Len(s) /\ Head(s) \in S
         /\ Tail(s) \in Seq(S) /\ Len(Tail(s)) = Len(s) - 1 /\ Len(s) \in Nat
         /\ \A i \in 1 .. Len(Tail(s)) : Tail(s)[i] = s[i + 1] /\ i + 1 \in 1 .. Len(s)
  OBVIOUS

LEMMA AppendAt ==
  ASSUME NEW S, NEW s \in Seq(S), NEW x \in S
  PROVE  /\ Append(s, x) \in Seq(S) /\ Len(Append(s, x)) = Len(s) + 1 /\ Len(s) \in Nat
         /\ \A i \in 1 .. Len(s) : Append(s, x)[i] = s[i]
         /\ Append(s, x)[Len(s) + 1] = x
  OBVIOUS

\* What a thread that takes no step holds and runs.
LEMMA OthersHold ==
  ASSUME WarpInv, NEW t \in Threads, Call(t) \/ Step(t), NEW u \in Threads, u # t
  PROVE  Holds(u)' = Holds(u) /\ Runs(u)' = Runs(u)
  BY OthersStay DEF Holds, Runs

LEMMA HoldsType ==
  ASSUME TypeOK, NEW u \in Threads
  PROVE  Holds(u) \in Routines \cup {None} /\ Runs(u) \in Routines \cup {None}
  BY DEF TypeOK, Holds, Runs

LEMMA EntryType ==
  ASSUME TypeOK, NEW u \in Threads
  PROVE  /\ buffer[u] \in Seq(Items) /\ Len(buffer[u]) \in Nat
         /\ \A i \in 1 .. Len(buffer[u]) :
               buffer[u][i].routine \in Routines \cup {None} /\ buffer[u][i].version \in Nat
         /\ todo[u] \in Seq(Calls) /\ Len(todo[u]) \in Nat
         /\ \A i \in 1 .. Len(todo[u]) : todo[u][i].routine \in Routines \cup {None}
<1>1. buffer[u] \in Seq(Items) /\ todo[u] \in Seq(Calls)
  BY DEF TypeOK
<1>2. \A i \in 1 .. Len(buffer[u]) : buffer[u][i] \in Items
  BY <1>1
<1>3. \A i \in 1 .. Len(todo[u]) : todo[u][i] \in Calls
  BY <1>1
<1> QED
  BY <1>1, <1>2, <1>3 DEF Items, Calls

(* Each clause of Placed under a step that leaves its part of the state alone:
   p is where the routines are, q where they are after it. *)
LEMMA TodoFrame ==
  ASSUME TypeOK, NEW p, NEW q, TodoAt(p), todo' = todo,
         \A r \in Routines : p[r] = "todo" => q[r] = "todo"
  PROVE  TodoAt(q)'
  BY EntryType DEF TodoAt

LEMMA HandFrame ==
  ASSUME TypeOK, NEW p, NEW q, HandAt(p),
         \A u \in Threads : Holds(u)' \in {None, Holds(u)},
         \A u \in Threads : Holds(u)' # None => q[Holds(u)] = "hand"
  PROVE  HandAt(q)'
<1>1. ASSUME NEW t \in Threads, Holds(t)' # None
      PROVE  q[Holds(t)'] = "hand"
  <2>1. Holds(t)' = Holds(t)
    BY <1>1
  <2> QED
    BY <1>1, <2>1
<1>2. ASSUME NEW t \in Threads, NEW u \in Threads, Holds(t)' # None, Holds(t)' = Holds(u)'
      PROVE  t = u
  <2>1. Holds(t)' = Holds(t) /\ Holds(u)' = Holds(u)
    BY <1>2
  <2> QED
    BY <1>2, <2>1 DEF HandAt
<1> QED
  BY <1>1, <1>2 DEF HandAt

LEMMA TaskFrame ==
  ASSUME TypeOK, NEW p, NEW q, TaskAt(p), \A u \in Threads : Runs(u)' = Runs(u),
         \A r \in Routines : p[r] = "task" <=> q[r] = "task"
  PROVE  TaskAt(q)'
<1>1. ASSUME NEW t \in Threads, Runs(t)' # None PROVE q[Runs(t)'] = "task"
  <2>1. Runs(t)' = Runs(t) /\ Runs(t) \in Routines \cup {None}
    BY HoldsType
  <2> QED
    BY <1>1, <2>1 DEF TaskAt
<1>2. ASSUME NEW r \in Routines, q[r] = "task" PROVE \E t \in Threads : Runs(t)' = r
  <2>1. PICK t \in Threads : Runs(t) = r
    BY <1>2 DEF TaskAt
  <2> QED
    BY <2>1
<1> QED
  BY <1>1, <1>2 DEF TaskAt

LEMMA BufferFrame ==
  ASSUME TypeOK, NEW p, NEW q, BufferAt(p), buffer' = buffer,
         \A r \in Routines : p[r] = "buffer" <=> q[r] = "buffer"
  PROVE  BufferAt(q)'
  BY EntryType DEF BufferAt

LEMMA LogFrame ==
  ASSUME TypeOK, NEW p, NEW q, LogAt(p), log' = log,
         \A r \in Routines : p[r] = "log" <=> q[r] = "log"
  PROVE  LogAt(q)'
<1>1. \A j \in 1 .. Len(log) : log[j] \in Routines
  BY DEF TypeOK
<1> QED
  BY <1>1 DEF LogAt, RunsOnce

LEMMA ChildFrame ==
  ASSUME NEW p, NEW q, ChildAt(p),
         \A r \in Routines : p[r] = "log" => q[r] = "log",
         \A r \in Routines : p[r] = "unborn" => q[r] = "unborn"
  PROVE  ChildAt(q)'
<1>1. \A r \in Routines : Child[r] \in Routines \cup {None}
  BY WarpAssumption
<1> QED
  BY <1>1 DEF ChildAt

LEMMA FenceFrame ==
  ASSUME TypeOK, NEW p, NEW q, FenceAt(p), fence' = fence, follows' = follows,
         \A r \in Routines : p[r] \in Late => q[r] \in Late
  PROVE  FenceAt(q)'
  BY DEF FenceAt, TypeOK

\* ... and under one that gives thread t a routine, takes a call from a script,
\* or executes a routine.
LEMMA HandNew ==
  ASSUME TypeOK, NEW p, NEW q, HandAt(p), NEW t \in Threads, NEW r \in Routines,
         Holds(t)' = r, p[r] # "hand", q[r] = "hand",
         \A u \in Threads : u # t => Holds(u)' = Holds(u),
         \A u \in Threads : u # t /\ Holds(u) # None => q[Holds(u)] = "hand"
  PROVE  HandAt(q)'
<1>1. ASSUME NEW u \in Threads, Holds(u)' # None PROVE q[Holds(u)'] = "hand"
  <2>1. CASE u = t
    BY <2>1
  <2>2. CASE u # t
    <3>1. Holds(u)' = Holds(u)
      BY <2>2
    <3> QED
      BY <1>1, <2>2, <3>1
  <2> QED
    BY <2>1, <2>2
<1>2. ASSUME NEW u \in Threads, NEW v \in Threads, Holds(u)' # None, Holds(u)' = Holds(v)'
      PROVE  u = v
  <2>1. \A w \in Threads : w # t => Holds(w)' = Holds(w) /\ Holds(w) # r
    BY NoneApart DEF HandAt
  <2> QED
    BY <1>2, <2>1 DEF HandAt
<1> QED
  BY <1>1, <1>2 DEF HandAt

LEMMA TodoNext ==
  ASSUME TypeOK, NEW p, NEW q, TodoAt(p), NEW t \in Threads, todo[t] # << >>,
         todo' = Set(todo, t, Tail(todo[t])),
         \A r \in Routines : r # Head(todo[t]).routine /\ p[r] = "todo" => q[r] = "todo"
  PROVE  TodoAt(q)'
<1>1. /\ Head(todo[t]) = todo[t][1] /\ 1 \in 1 .. Len(todo[t])
      /\ \A i \in 1 .. Len(Tail(todo[t])) :
            Tail(todo[t])[i] = todo[t][i + 1] /\ i + 1 \in 1 .. Len(todo[t])
      /\ Len(Tail(todo[t])) = Len(todo[t]) - 1 /\ Len(todo[t]) \in Nat
  BY TailAt, EntryType
<1>2. /\ todo'[t] = Tail(todo[t])
      /\ \A u \in Threads : u # t => todo'[u] = todo[u]
  BY DEF TypeOK, Set
<1>4. \A u \in Threads : Len(todo'[u]) \in Nat
  BY <1>2, TailAt, EntryType
\* What is left of a script at i was at k before the call.
<1>3. ASSUME NEW u \in Threads, NEW i \in 1 .. Len(todo'[u])
      PROVE  \E k \in 1 .. Len(todo[u]) : /\ todo'[u][i] = todo[u][k]
                                          /\ u = t => k = i + 1 /\ k # 1
                                          /\ u # t => k = i
  <2>1. CASE u = t
    <3>1. i \in 1 .. Len(Tail(todo[t])) /\ todo'[u][i] = Tail(todo[t])[i]
      BY <1>2, <2>1
    <3>2. i + 1 \in 1 .. Len(todo[t]) /\ Tail(todo[t])[i] = todo[t][i + 1]
      BY <1>1, <3>1, Zenon
    <3>3. i + 1 # 1
      BY <3>1, EntryType
    <3> QED
      BY <2>1, <3>1, <3>2, <3>3, Zenon
  <2>2. CASE u # t
    BY <1>2, <2>2
  <2> QED
    BY <2>1, <2>2
<1>6. ASSUME NEW u \in Threads, NEW i \in 1 .. Len(todo'[u]), todo'[u][i].routine # None
      PROVE  q[todo'[u][i].routine] = "todo"
  <2>1. PICK k \in 1 .. Len(todo[u]) : /\ todo'[u][i] = todo[u][k]
                                       /\ u = t => k = i + 1 /\ k # 1
    BY <1>3
  <2>2. todo[u][k].routine \in Routines /\ p[todo[u][k].routine] = "todo"
    BY <1>6, <2>1, EntryType DEF TodoAt
  <2>3. todo[u][k].routine # todo[t][1].routine
    BY <1>1, <1>6, <2>1 DEF TodoAt
  <2>4. q[todo[u][k].routine] = "todo"
    BY <1>1, <2>2, <2>3
  <2> QED
    BY <2>1, <2>4
<1>7. ASSUME NEW u \in Threads, NEW v \in Threads, NEW i \in 1 .. Len(todo'[u]),
             NEW j \in 1 .. Len(todo'[v]),
             todo'[u][i].routine # None, todo'[u][i].routine = todo'[v][j].routine
      PROVE  u = v /\ i = j
  <2>1. PICK k \in 1 .. Len(todo[u]) : /\ todo'[u][i] = todo[u][k]
                                       /\ u = t => k = i + 1
                                       /\ u # t => k = i
    BY <1>3
  <2>2. PICK m \in 1 .. Len(todo[v]) : /\ todo'[v][j] = todo[v][m]
                                       /\ v = t => m = j + 1
                                       /\ v # t => m = j
    BY <1>3
  <2>3. u = v /\ k = m
    <3>1. todo[u][k].routine # None /\ todo[u][k].routine = todo[v][m].routine
      BY <1>7, <2>1, <2>2
    <3> QED
      BY <3>1 DEF TodoAt
  <2>4. i \in Int /\ j \in Int
    <3>1. Len(todo'[u]) \in Nat /\ Len(todo'[v]) \in Nat
      BY <1>4
    <3> QED
      BY <3>1
  <2>5. CASE u = t
    <3>1. i + 1 = j + 1
      BY <2>1, <2>2, <2>3, <2>5
    <3> QED
      BY <2>3, <2>4, <3>1
  <2>6. CASE u # t
    BY <2>1, <2>2, <2>3, <2>6
  <2> QED
    BY <2>5, <2>6
<1> QED
  BY <1>6, <1>7 DEF TodoAt

LEMMA LogNew ==
  ASSUME TypeOK, NEW p, NEW q, LogAt(p), NEW r \in Routines, p[r] # "log",
         log' = Append(log, r),
         \A x \in Routines : q[x] = "log" <=> (p[x] = "log" \/ x = r)
  PROVE  LogAt(q)'
<1>1. log \in Seq(Routines)
  BY DEF TypeOK
<1>2. /\ Len(log') = Len(log) + 1 /\ Len(log) \in Nat
      /\ \A i \in 1 .. Len(log) : log'[i] = log[i] /\ log[i] \in Routines
      /\ log'[Len(log) + 1] = r
  BY <1>1
<1>3. \A i \in 1 .. Len(log') : i \in 1 .. Len(log) \/ i = Len(log) + 1
  BY <1>2
<1>4. \A i \in 1 .. Len(log) : log'[i] # r /\ p[log[i]] = "log"
  BY <1>2 DEF LogAt
<1>5. \A j \in 1 .. Len(log') : q[log'[j]] = "log"
  BY <1>2, <1>3, <1>4
<1>6. RunsOnce'
  <2> SUFFICES ASSUME NEW i \in 1 .. Len(log'), NEW j \in 1 .. Len(log'), log'[i] = log'[j]
               PROVE  i = j
    BY DEF RunsOnce
  <2>1. RunsOnce
    BY DEF LogAt
  <2> QED
    BY <1>2, <1>3, <1>4, <2>1 DEF RunsOnce
<1>7. ASSUME NEW x \in Routines, q[x] = "log" PROVE \E j \in 1 .. Len(log') : log'[j] = x
  <2>1. CASE x = r
    <3>1. Len(log) + 1 \in 1 .. Len(log')
      BY <1>2
    <3> QED
      BY <1>2, <2>1, <3>1
  <2>2. CASE p[x] = "log"
    <3>1. PICK j \in 1 .. Len(log) : log[j] = x
      BY <2>2 DEF LogAt
    <3>2. j \in 1 .. Len(log') /\ log'[j] = x
      BY <1>2, <3>1
    <3> QED
      BY <3>2
  <2> QED
    BY <1>7, <2>1, <2>2
<1> QED
  BY <1>5, <1>6, <1>7 DEF LogAt

\* Steps that move no routine.
Idle ==
    /\ UNCHANGED <<todo, buffer, extJobs, parJobs, parallel, log, fence, follows>>
    /\ \A u \in Threads : Holds(u)' \in {None, Holds(u)} /\ Runs(u)' = Runs(u)
Idles(t) ==
    \/ Guard(t) \/ Recheck(t) \/ Preempt(t, "preempt", "recheck", "post")
    \/ Flush(t) \/ FlushExchange(t)
    \/ Yield(t) \/ ExchangeIdle(t, "yieldx", after[t])
    \/ Resume(t) \/ ExchangeIdle(t, "resumex", "free") \/ TakeJob(t)
    \/ ExecuteGuard(t) \/ Preempt(t, "x1", "x2", "par") \/ ExecuteRecheck(t)
    \/ DoubleCheck(t) \/ Defer(t) \/ Mark(t) \/ NextBuffer(t) \/ EndPass(t)
    \/ (Task(t) /\ arg[t] = None) \/ Ran(t)
    \/ TryParallel(t) \/ Preempt(t, "parpreempt", "pardrain", "free")
    \/ (Chain(t) /\ (owner # None \/ pc[t] = "chain"))

LEMMA IdleEffect ==
  ASSUME WarpInv, NEW t \in Threads, Idles(t)
  PROVE  Idle
<1>a. TypeOK /\ Place(t)
  BY DEF WarpInv
<1>b. pc \in [Threads -> PCs] /\ arg \in [Threads -> Routines \cup {None}]
      /\ ret \in [Threads -> PCs]
  BY <1>a DEF TypeOK
<1>c. \A u \in Threads : u # t => Holds(u)' = Holds(u) /\ Runs(u)' = Runs(u)
  BY OthersHold DEF Idles, Step
<1>d. ASSUME UNCHANGED <<todo, buffer, extJobs, parJobs, parallel, log, fence, follows>>,
             Holds(t)' \in {None, Holds(t)}, Runs(t)' = Runs(t)
      PROVE  Idle
  BY <1>c, <1>d DEF Idle
<1> USE DEF Holds, Runs, HandPCs, RoutinePCs, Goto, Set, hot, grid, work, control, history
<1>1. CASE Guard(t)
  BY <1>b, <1>d, <1>1 DEF Guard
<1>2. CASE Recheck(t)
  BY <1>b, <1>d, <1>2 DEF Recheck
<1>3. CASE Preempt(t, "preempt", "recheck", "post")
  BY <1>b, <1>d, <1>3 DEF Preempt
<1>4. CASE Flush(t)
  BY <1>a, <1>b, <1>d, <1>4 DEF Flush, Place, ReturnPCs
<1>5. CASE FlushExchange(t)
  BY <1>a, <1>b, <1>d, <1>5 DEF FlushExchange, Place, ReturnPCs
<1>6. CASE Yield(t)
  BY <1>b, <1>d, <1>6 DEF Yield
<1>7. CASE ExchangeIdle(t, "yieldx", after[t])
  BY <1>a, <1>b, <1>d, <1>7 DEF ExchangeIdle, Place
<1>8. CASE Resume(t)
  BY <1>b, <1>d, <1>8 DEF Resume
<1>9. CASE ExchangeIdle(t, "resumex", "free")
  BY <1>b, <1>d, <1>9 DEF ExchangeIdle
<1>10. CASE TakeJob(t)
  BY <1>b, <1>d, <1>10 DEF TakeJob
<1>11. CASE ExecuteGuard(t)
  BY <1>b, <1>d, <1>11 DEF ExecuteGuard
<1>12. CASE Preempt(t, "x1", "x2", "par")
  BY <1>b, <1>d, <1>12 DEF Preempt
<1>13. CASE ExecuteRecheck(t)
  BY <1>b, <1>d, <1>13 DEF ExecuteRecheck
<1>14. CASE DoubleCheck(t)
  BY <1>b, <1>d, <1>14 DEF DoubleCheck
<1>15. CASE Defer(t)
  BY <1>b, <1>d, <1>15 DEF Defer
<1>16. CASE Mark(t)
  BY <1>b, <1>d, <1>16 DEF Mark
<1>17. CASE NextBuffer(t)
  BY <1>b, <1>d, <1>17 DEF NextBuffer
<1>18. CASE EndPass(t)
  BY <1>b, <1>d, <1>18 DEF EndPass
<1>19. CASE Task(t) /\ arg[t] = None
  BY <1>b, <1>d, <1>19 DEF Task
<1>20. CASE Ran(t)
  BY <1>b, <1>d, <1>20 DEF Ran
<1>21. CASE TryParallel(t)
  BY <1>b, <1>d, <1>21 DEF TryParallel
<1>22. CASE Preempt(t, "parpreempt", "pardrain", "free")
  BY <1>b, <1>d, <1>22 DEF Preempt
<1>23. CASE Chain(t) /\ (owner # None \/ pc[t] = "chain")
  BY <1>b, <1>d, <1>23 DEF Chain
<1> QED
  BY <1>1, <1>2, <1>3, <1>4, <1>5, <1>6, <1>7, <1>8, <1>9, <1>10, <1>11, <1>12, <1>13,
    <1>14, <1>15, <1>16, <1>17, <1>18, <1>19, <1>20, <1>21, <1>22, <1>23 DEF Idles

LEMMA IdlePlaced ==
  ASSUME TypeOK, NEW p, Placed(p), Idle
  PROVE  Placed(p)'
<1>1. TodoAt(p)' /\ BufferAt(p)' /\ LogAt(p)' /\ ChildAt(p)' /\ FenceAt(p)'
  BY TodoFrame, BufferFrame, LogFrame, ChildFrame, FenceFrame DEF Placed, Idle
<1>2. HandAt(p)'
  <2>1. \A u \in Threads : Holds(u)' # None => p[Holds(u)] = "hand"
    BY DEF Placed, HandAt, Idle
  <2> QED
    BY <2>1, HandFrame DEF Placed, Idle
<1>3. TaskAt(p)'
  BY TaskFrame DEF Placed, Idle
<1>4. PoolAt(p)'
  BY DEF Placed, PoolAt, Idle
<1> QED
  BY <1>1, <1>2, <1>3, <1>4 DEF Placed

LEMMA PlacedInit == Init => \E q : Placed(q)
<1> SUFFICES ASSUME Init PROVE \E q : Placed(q)
  OBVIOUS
<1>0. todo \in Scripts /\ TypeOK
  BY WarpInit DEF Init, WarpInv
<1>1. PICK q : q = [r \in Routines |->
                      IF \E t \in Threads : \E i \in 1 .. Len(todo[t]) : todo[t][i].routine = r
                      THEN "todo" ELSE "unborn"]
  OBVIOUS
<1>2. q \in [Routines -> Stages]
  BY <1>1 DEF Stages
<1>3. TodoAt(q)
  <2>1. \A t \in Threads : \A i \in 1 .. Len(todo[t]) :
          todo[t][i].routine # None => q[todo[t][i].routine] = "todo"
    BY <1>0, <1>1, EntryType
  <2>2. \A t, u \in Threads : \A i \in 1 .. Len(todo[t]), j \in 1 .. Len(todo[u]) :
          todo[t][i].routine # None /\ todo[t][i].routine = todo[u][j].routine
             => t = u /\ i = j
    BY <1>0, RoutineAssumption
  <2> QED
    BY <2>1, <2>2 DEF TodoAt
<1>4. HandAt(q) /\ TaskAt(q)
  <2>1. \A t \in Threads : Holds(t) = None /\ Runs(t) = None
    BY DEF Init, Holds, Runs, HandPCs, RoutinePCs
  <2>2. \A r \in Routines : q[r] # "task"
    BY <1>1
  <2> QED
    BY <2>1, <2>2 DEF HandAt, TaskAt
<1>5. PoolAt(q) /\ LogAt(q) /\ BufferAt(q)
  BY <1>1 DEF Init, PoolAt, LogAt, BufferAt, RunsOnce
<1>6. ChildAt(q)
  <2> SUFFICES ASSUME NEW r \in Routines, Child[r] # None, q[Child[r]] # "unborn" PROVE FALSE
    BY DEF ChildAt
  <2>1. Child[r] \in Routines
    BY WarpAssumption
  <2>2. PICK t \in Threads : \E i \in 1 .. Len(todo[t]) : todo[t][i].routine = Child[r]
    BY <1>1, <2>1
  <2> QED
    BY <1>0, <2>2, RoutineAssumption
<1>7. FenceAt(q)
  BY DEF Init, FenceAt
<1> QED
  BY <1>2, <1>3, <1>4, <1>5, <1>6, <1>7 DEF Placed

\* Where every routine is; one of them moves and the others stay.
Placings == [Routines -> Stages]
Moves(p, q, r, b) == q[r] = b /\ \A x \in Routines : x # r => q[x] = p[x]

LEMMA MoveOne ==
  \A p \in Placings, r \in Routines, b \in Stages :
     \E q \in Placings : Moves(p, q, r, b)
<1> TAKE p \in Placings, r \in Routines, b \in Stages
<1>1. [p EXCEPT ![r] = b] \in Placings
  BY DEF Placings
<1>2. Moves(p, [p EXCEPT ![r] = b], r, b)
  BY DEF Placings, Moves
<1> QED
  BY <1>1, <1>2, Zenon

LEMMA CallPlaced ==
  ASSUME WarpInv, NEW p, Placed(p), NEW t \in Threads, Call(t)
  PROVE  \E q : Placed(q)'
<1> DEFINE r == Head(todo[t]).routine
<1>a. TypeOK /\ p \in [Routines -> Stages]
  BY DEF WarpInv, Placed
<1>b. Head(todo[t]) \in Calls /\ Head(todo[t]) = todo[t][1] /\ 1 \in 1 .. Len(todo[t])
  BY <1>a, NextCall DEF Call
<1>c. todo[t] # << >> /\ todo' = Set(todo, t, Tail(todo[t]))
  BY DEF Call
<1>d. UNCHANGED <<buffer, extJobs, parJobs, parallel, log, fence, follows>>
  BY DEF Call, grid, work, history
<1>e. \A u \in Threads : u # t => Holds(u)' = Holds(u) /\ Runs(u)' = Runs(u)
  BY OthersHold
<1>f. /\ pc[t] = "free" /\ arg'[t] = r
      /\ r = None => pc'[t] = "version"
      /\ r # None => pc'[t] \in HandPCs
      /\ pc'[t] # "task"
  <2>1. pc[t] = "free" /\ arg'[t] = r
    BY <1>a DEF Call, Set, TypeOK
  <2>2. /\ Head(todo[t]).kind \in Kinds
        /\ r = None <=> Head(todo[t]).kind = "barrier"
    BY <1>b, NoneApart DEF Calls, Kinds
  <2> HIDE DEF r
  <2>3. /\ Head(todo[t]).kind = "post" => pc'[t] = "post"
        /\ Head(todo[t]).kind = "routine" => pc'[t] = "guard"
        /\ Head(todo[t]).kind = "barrier" => pc'[t] = "version"
        /\ Head(todo[t]).kind = "await" => pc'[t] = "submit"
        /\ Head(todo[t]).kind = "parallel" => pc'[t] = "chain"
        /\ Head(todo[t]).kind = "parallel_post" => pc'[t] = "chainpost"
    BY <1>a DEF Call, Goto, Set, TypeOK
  <2> QED
    BY <2>1, <2>2, <2>3 DEF Kinds, HandPCs, RoutinePCs
<1>g. Holds(t) = None /\ Runs(t) = None /\ Runs(t)' = None /\ Holds(t)' = r
  BY <1>f DEF Holds, Runs, HandPCs, RoutinePCs
<1>h. \A u \in Threads : Runs(u)' = Runs(u)
  BY <1>e, <1>g
<1>1. CASE r = None
  <2>1. TodoAt(p)'
    BY <1>a, <1>c, TodoNext DEF Placed
  <2>2. HandAt(p)'
    <3>1. \A u \in Threads : Holds(u)' = Holds(u)
      BY <1>1, <1>e, <1>g
    <3>2. \A u \in Threads : Holds(u)' # None => p[Holds(u)] = "hand"
      BY <3>1 DEF Placed, HandAt
    <3> QED
      BY <1>a, <3>1, <3>2, HandFrame DEF Placed
  <2>3. TaskAt(p)' /\ BufferAt(p)' /\ LogAt(p)' /\ ChildAt(p)' /\ FenceAt(p)'
    BY <1>a, <1>d, <1>h, TaskFrame, BufferFrame, LogFrame, ChildFrame, FenceFrame DEF Placed
  <2>4. PoolAt(p)'
    BY <1>d DEF Placed, PoolAt
  <2> QED
    BY <2>1, <2>2, <2>3, <2>4, <1>a DEF Placed
<1>2. CASE r # None
  <2>0. r \in Routines
    BY <1>b, <1>2 DEF Calls
  <2> HIDE DEF r
  <2>1. PICK q \in [Routines -> Stages] :
           q[r] = "hand" /\ \A x \in Routines : x # r => q[x] = p[x]
    <3>1. "hand" \in Stages
      BY DEF Stages
    <3>p. p \in Placings
      BY <1>a DEF Placings
    <3>q. \E q \in Placings : Moves(p, q, r, "hand")
      BY <3>p, <2>0, <3>1, MoveOne, Zenon
    <3> QED
      BY <3>q, Zenon DEF Placings, Moves
  <2>2. p[r] = "todo"
    BY <1>b, <1>2 DEF Placed, TodoAt, r
  <2>3. \A x \in Routines : q[x] = p[x] \/ (x = r /\ p[x] = "todo" /\ q[x] = "hand")
    BY <2>1, <2>2
  <2>4. TodoAt(q)'
    <3>1. \A x \in Routines : x # r /\ p[x] = "todo" => q[x] = "todo"
      BY <2>1
    <3> QED
      BY <1>a, <1>c, <3>1, TodoNext DEF Placed, r
  <2>5. HandAt(q)'
    <3>1. \A u \in Threads : u # t /\ Holds(u) # None => q[Holds(u)] = "hand"
      BY <1>a, <2>3, HoldsType DEF Placed, HandAt
    <3> QED
      BY <1>a, <1>e, <1>g, <2>0, <2>1, <2>2, <3>1, HandNew DEF Placed
  <2>6. TaskAt(q)' /\ BufferAt(q)' /\ LogAt(q)'
    BY <1>a, <1>d, <1>h, <2>3, TaskFrame, BufferFrame, LogFrame DEF Placed
  <2>7. ChildAt(q)' /\ FenceAt(q)'
    BY <1>a, <1>d, <2>3, ChildFrame, FenceFrame DEF Placed, Late
  <2>8. PoolAt(q)'
    BY <1>a, <1>d, <2>3 DEF Placed, PoolAt, TypeOK
  <2> QED
    BY <2>1, <2>4, <2>5, <2>6, <2>7, <2>8 DEF Placed
<1> QED
  BY <1>1, <1>2

(* A thread hands its routine on to one of the sets, or executes a parallel one;
   or takes one of a set. *)
LEMMA HandPlaced ==
  ASSUME WarpInv, NEW p, Placed(p), NEW t \in Threads,
         \/ Post(t) /\ t \in Externals
         \/ Chain(t) /\ owner = None /\ pc[t] = "chainpost"
         \/ Link(t) \/ Submit(t) \/ ParallelTask(t)
  PROVE  \E q : Placed(q)'
<1> DEFINE r == arg[t]
<1>a. TypeOK /\ Place(t) /\ p \in [Routines -> Stages]
  BY DEF WarpInv, Placed
<1>b. pc[t] \in HandPCs /\ pc[t] # "task" /\ r \in Routines
  BY <1>a DEF Post, Chain, Link, Submit, ParallelTask, HandPCs, RoutinePCs, Place
<1>c. UNCHANGED <<todo, buffer, fence, follows>>
  BY DEF Post, Chain, Link, Submit, ParallelTask, hot, grid, history
<1>d. \A u \in Threads : u # t => Holds(u)' = Holds(u) /\ Runs(u)' = Runs(u)
  BY OthersHold DEF Step
<1>e. pc'[t] \notin HandPCs /\ pc'[t] # "task"
  BY <1>a DEF Post, Chain, Link, Submit, ParallelTask, HandPCs, RoutinePCs, Goto, Set,
    TypeOK, Place, ReturnPCs
<1>f. Holds(t) = r /\ Runs(t) = None /\ Holds(t)' = None /\ Runs(t)' = None
  BY <1>b, <1>e DEF Holds, Runs
<1>g. p[r] = "hand"
  BY <1>b, <1>f, NoneApart DEF Placed, HandAt
<1>h. r # None /\ \A u \in Threads : u # t => Holds(u) # r
  BY <1>b, <1>f, NoneApart DEF Placed, HandAt
<1>i. \A u \in Threads : Runs(u)' = Runs(u) /\ Holds(u)' \in {None, Holds(u)}
  BY <1>d, <1>f
<1> HIDE DEF r
<1>j. \E b \in {"ext", "par", "chain", "log"} :
         /\ extJobs' = IF b = "ext" THEN extJobs \cup {r} ELSE extJobs
         /\ parJobs' = IF b = "par" THEN parJobs \cup {r} ELSE parJobs
         /\ parallel' = IF b = "chain" THEN parallel \cup {r} ELSE parallel
         /\ log' = IF b = "log" THEN Append(log, r) ELSE log
  <2>1. CASE Post(t) /\ t \in Externals
    BY <2>1 DEF Post, r
  <2>2. CASE Chain(t) /\ owner = None /\ pc[t] = "chainpost"
    BY <2>2 DEF Chain, r, history
  <2>3. CASE Link(t)
    BY <2>3 DEF Link, r, history
  <2>4. CASE Submit(t)
    BY <2>4 DEF Submit, r, history
  <2>5. CASE ParallelTask(t)
    BY <2>5 DEF ParallelTask, r, work
  <2> QED
    BY <2>1, <2>2, <2>3, <2>4, <2>5
<1>k. PICK b \in {"ext", "par", "chain", "log"} :
         /\ extJobs' = IF b = "ext" THEN extJobs \cup {r} ELSE extJobs
         /\ parJobs' = IF b = "par" THEN parJobs \cup {r} ELSE parJobs
         /\ parallel' = IF b = "chain" THEN parallel \cup {r} ELSE parallel
         /\ log' = IF b = "log" THEN Append(log, r) ELSE log
  BY <1>j
<1>1. PICK q \in [Routines -> Stages] :
         q[r] = b /\ \A x \in Routines : x # r => q[x] = p[x]
  <2>1. b \in Stages
    BY DEF Stages
  <2>2. r \in Routines
    BY <1>b DEF r
  <2>p. p \in Placings
    BY <1>a DEF Placings
  <2>q. \E q \in Placings : Moves(p, q, r, b)
    BY <2>p, <2>1, <2>2, MoveOne, Zenon
  <2> QED
    BY <2>q, Zenon DEF Placings, Moves
<1>2. \A x \in Routines : q[x] = p[x] \/ (x = r /\ p[x] = "hand" /\ q[x] = b)
  BY <1>1, <1>g
<1>3. TodoAt(q)' /\ TaskAt(q)' /\ BufferAt(q)'
  BY <1>a, <1>c, <1>i, <1>2, TodoFrame, TaskFrame, BufferFrame DEF Placed
<1>4. HandAt(q)'
  <2>1. \A u \in Threads : Holds(u)' # None => q[Holds(u)] = "hand"
    BY <1>a, <1>d, <1>f, <1>h, <1>2, HoldsType DEF Placed, HandAt
  <2> QED
    BY <1>a, <1>i, <2>1, HandFrame DEF Placed
<1>5. ChildAt(q)' /\ FenceAt(q)'
  BY <1>a, <1>c, <1>2, ChildFrame, FenceFrame DEF Placed, Late
<1>6. PoolAt(q)'
  BY <1>a, <1>b, <1>k, <1>1, <1>2 DEF Placed, PoolAt, TypeOK
<1>7. LogAt(q)'
  <2>1. CASE b = "log"
    <3>1. log' = Append(log, r) /\ p[r] # "log" /\ r \in Routines
      BY <1>b, <1>g, <1>k, <2>1 DEF r
    <3>2. \A x \in Routines : q[x] = "log" <=> (p[x] = "log" \/ x = r)
      BY <1>1, <1>2, <2>1
    <3> QED
      BY <1>a, <3>1, <3>2, LogNew DEF Placed
  <2>2. CASE b # "log"
    BY <1>a, <1>k, <1>2, <2>2, LogFrame DEF Placed
  <2> QED
    BY <2>1, <2>2
<1> QED
  BY <1>1, <1>3, <1>4, <1>5, <1>6, <1>7 DEF Placed

LEMMA TakePlaced ==
  ASSUME WarpInv, NEW p, Placed(p), NEW t \in Threads, TakeExternal(t) \/ TakeParallel(t)
  PROVE  \E q : Placed(q)'
<1>a. TypeOK /\ Place(t) /\ p \in [Routines -> Stages]
  BY DEF WarpInv, Placed
<1>b. pc[t] = "free"
  BY DEF TakeExternal, TakeParallel
<1>c. UNCHANGED <<todo, buffer, parallel, log, fence, follows>>
  BY DEF TakeExternal, TakeParallel, grid, history
<1>d. \A u \in Threads : u # t => Holds(u)' = Holds(u) /\ Runs(u)' = Runs(u)
  BY OthersHold DEF Step
<1>1. PICK r \in extJobs \cup parJobs :
         /\ arg'[t] = r
         /\ \/ extJobs' = extJobs \ {r} /\ parJobs' = parJobs /\ r \in extJobs
            \/ parJobs' = parJobs \ {r} /\ extJobs' = extJobs /\ r \in parJobs
  <2>1. CASE TakeExternal(t)
    BY <1>a, <2>1 DEF TakeExternal, Set, TypeOK
  <2>2. CASE TakeParallel(t)
    BY <1>a, <2>2 DEF TakeParallel, Set, TypeOK
  <2> QED
    BY <2>1, <2>2
<1>2. r \in Routines /\ r # None
  BY <1>a, NoneApart DEF TypeOK
<1>3. Holds(t) = None /\ Runs(t) = None /\ Holds(t)' = r /\ Runs(t)' = None
  BY <1>a, <1>b, <1>1 DEF Holds, Runs, HandPCs, RoutinePCs, TakeExternal, TakeParallel,
    Goto, Set, TypeOK
<1>4. p[r] \in {"ext", "par"}
  BY <1>1 DEF Placed, PoolAt
<1>5. PICK q \in [Routines -> Stages] :
         q[r] = "hand" /\ \A x \in Routines : x # r => q[x] = p[x]
  <2>1. "hand" \in Stages
    BY DEF Stages
  <2>p. p \in Placings
    BY <1>a DEF Placings
  <2>q. \E q \in Placings : Moves(p, q, r, "hand")
    BY <2>p, <1>2, <2>1, MoveOne, Zenon
  <2> QED
    BY <2>q, Zenon DEF Placings, Moves
<1>6. \A x \in Routines : q[x] = p[x] \/ (x = r /\ p[x] \in {"ext", "par"} /\ q[x] = "hand")
  BY <1>4, <1>5
<1>7. \A u \in Threads : Runs(u)' = Runs(u)
  BY <1>d, <1>3
<1>8. TodoAt(q)' /\ TaskAt(q)' /\ BufferAt(q)' /\ LogAt(q)'
  BY <1>a, <1>c, <1>6, <1>7, TodoFrame, TaskFrame, BufferFrame, LogFrame DEF Placed
<1>9. HandAt(q)'
  <2>1. \A u \in Threads : u # t /\ Holds(u) # None => q[Holds(u)] = "hand"
    BY <1>a, <1>6, HoldsType DEF Placed, HandAt
  <2> QED
    BY <1>a, <1>d, <1>2, <1>3, <1>4, <1>5, <2>1, HandNew DEF Placed
<1>10. ChildAt(q)' /\ FenceAt(q)'
  BY <1>a, <1>c, <1>6, ChildFrame, FenceFrame DEF Placed, Late
<1>11. PoolAt(q)'
  <2>1. p[r] = "ext" => r \notin parJobs
    BY DEF Placed, PoolAt
  <2>2. p[r] = "par" => r \notin extJobs
    BY DEF Placed, PoolAt
  <2>3. r \notin extJobs' /\ r \notin parJobs' /\ r \notin parallel'
    BY <1>c, <1>1, <1>4, <2>1, <2>2 DEF Placed, PoolAt
  <2>4. extJobs' \subseteq extJobs /\ parJobs' \subseteq parJobs /\ parallel' = parallel
    BY <1>c, <1>1
  <2> QED
    BY <1>a, <1>5, <2>3, <2>4 DEF Placed, PoolAt, TypeOK
<1> QED
  BY <1>5, <1>8, <1>9, <1>10, <1>11 DEF Placed

\* execute_parallel() moves the chain to the pool.
LEMMA DrainPlaced ==
  ASSUME WarpInv, NEW p, Placed(p), NEW t \in Threads,
         \/ ExecuteParallel(t, "drain", "check")
         \/ ExecuteParallel(t, "pardrain", "yield")
  PROVE  \E q : Placed(q)'
<1>a. TypeOK /\ p \in [Routines -> Stages]
  BY DEF WarpInv, Placed
<1>b. /\ UNCHANGED <<todo, buffer, extJobs, log, fence, follows>>
      /\ parallel' = {} /\ parJobs' = parJobs \cup parallel
  BY DEF ExecuteParallel, grid, history
<1>c. \A u \in Threads : u # t => Holds(u)' = Holds(u) /\ Runs(u)' = Runs(u)
  BY OthersHold DEF Step
<1>d. \A u \in Threads : Runs(u)' = Runs(u) /\ Holds(u)' = Holds(u)
  <2>1. /\ pc[t] \notin HandPCs /\ pc'[t] \notin HandPCs
        /\ pc[t] # "task" /\ pc'[t] # "task"
    BY <1>a DEF ExecuteParallel, Goto, Set, TypeOK, HandPCs, RoutinePCs
  <2> QED
    BY <1>c, <2>1 DEF Holds, Runs
<1>1. PICK q : q = [x \in Routines |-> IF x \in parallel THEN "par" ELSE p[x]]
  OBVIOUS
<1>2. q \in [Routines -> Stages]
  BY <1>a, <1>1 DEF Stages
<1>3. \A x \in Routines : q[x] = p[x] \/ (x \in parallel /\ p[x] = "chain" /\ q[x] = "par")
  BY <1>1 DEF Placed, PoolAt
<1>4. TodoAt(q)' /\ TaskAt(q)' /\ BufferAt(q)' /\ LogAt(q)'
  BY <1>a, <1>b, <1>d, <1>3, TodoFrame, TaskFrame, BufferFrame, LogFrame DEF Placed
<1>5. HandAt(q)'
  <2>1. \A u \in Threads : Holds(u)' # None => q[Holds(u)] = "hand"
    BY <1>a, <1>d, <1>3, HoldsType DEF Placed, HandAt
  <2> QED
    BY <1>a, <1>d, <2>1, HandFrame DEF Placed
<1>6. ChildAt(q)' /\ FenceAt(q)'
  BY <1>a, <1>b, <1>3, ChildFrame, FenceFrame DEF Placed, Late
<1>7. PoolAt(q)'
  BY <1>a, <1>b, <1>1, <1>3 DEF Placed, PoolAt, TypeOK
<1> QED
  BY <1>2, <1>4, <1>5, <1>6, <1>7 DEF Placed

\* What is in the buffers after one more entry, or one less.
LEMMA PostEntries ==
  ASSUME TypeOK, NEW t \in Threads, NEW x \in Items,
         buffer' = Set(buffer, t, Append(buffer[t], x))
  PROVE  /\ Len(buffer'[t]) = Len(buffer[t]) + 1 /\ buffer'[t][Len(buffer[t]) + 1] = x
         /\ Len(buffer[t]) + 1 \in 1 .. Len(buffer'[t])
         /\ \A u \in Threads : Len(buffer[u]) \in Nat /\ Len(buffer'[u]) \in Nat
         /\ \A u \in Threads : u # t => buffer'[u] = buffer[u]
         /\ \A u \in Threads : \A i \in 1 .. Len(buffer'[u]) :
               i \in 1 .. Len(buffer[u]) \/ (u = t /\ i = Len(buffer[t]) + 1)
         /\ \A u \in Threads : \A i \in 1 .. Len(buffer[u]) :
               i \in 1 .. Len(buffer'[u]) /\ buffer'[u][i] = buffer[u][i]
<1>1. buffer[t] \in Seq(Items)
  BY DEF TypeOK
<1>2. /\ Len(Append(buffer[t], x)) = Len(buffer[t]) + 1 /\ Len(buffer[t]) \in Nat
      /\ \A i \in 1 .. Len(buffer[t]) : Append(buffer[t], x)[i] = buffer[t][i]
      /\ Append(buffer[t], x)[Len(buffer[t]) + 1] = x
  BY <1>1, AppendAt
<1>3. buffer'[t] = Append(buffer[t], x) /\ \A u \in Threads : u # t => buffer'[u] = buffer[u]
  BY DEF TypeOK, Set
<1>4. \A u \in Threads : Len(buffer[u]) \in Nat
  BY EntryType
<1>5. Len(buffer'[t]) = Len(buffer[t]) + 1 /\ buffer'[t][Len(buffer[t]) + 1] = x
  BY <1>2, <1>3
<1>6. \A u \in Threads : Len(buffer'[u]) \in Nat
  BY <1>2, <1>3, <1>4, <1>5
<1>7. Len(buffer[t]) + 1 \in 1 .. Len(buffer'[t])
  BY <1>2, <1>5
<1>8. \A i \in 1 .. Len(buffer'[t]) : i \in 1 .. Len(buffer[t]) \/ i = Len(buffer[t]) + 1
  BY <1>2, <1>5
<1>9. \A i \in 1 .. Len(buffer[t]) : i \in 1 .. Len(buffer'[t]) /\ buffer'[t][i] = buffer[t][i]
  BY <1>2, <1>3, <1>5
<1> QED
  BY <1>3, <1>4, <1>5, <1>6, <1>7, <1>8, <1>9

LEMMA PopEntries ==
  ASSUME TypeOK, NEW b \in Threads, buffer[b] # << >>,
         buffer' = Set(buffer, b, Tail(buffer[b]))
  PROVE  /\ 1 \in 1 .. Len(buffer[b]) /\ Head(buffer[b]) = buffer[b][1]
         /\ Len(buffer'[b]) = Len(buffer[b]) - 1
         /\ \A u \in Threads : Len(buffer[u]) \in Nat /\ Len(buffer'[u]) \in Nat
         /\ \A u \in Threads : u # b => buffer'[u] = buffer[u]
         /\ \A i \in 1 .. Len(buffer'[b]) :
               i + 1 \in 1 .. Len(buffer[b]) /\ buffer'[b][i] = buffer[b][i + 1] /\ i + 1 # 1
         /\ \A i \in 1 .. Len(buffer[b]) :
               i # 1 => i - 1 \in 1 .. Len(buffer'[b]) /\ buffer'[b][i - 1] = buffer[b][i]
<1>1. buffer[b] \in Seq(Items)
  BY DEF TypeOK
<1>2. /\ 1 \in 1 .. Len(buffer[b]) /\ Head(buffer[b]) = buffer[b][1]
      /\ Len(Tail(buffer[b])) = Len(buffer[b]) - 1 /\ Len(buffer[b]) \in Nat
      /\ \A i \in 1 .. Len(Tail(buffer[b])) :
            Tail(buffer[b])[i] = buffer[b][i + 1] /\ i + 1 \in 1 .. Len(buffer[b])
  BY <1>1, TailAt
<1>3. buffer'[b] = Tail(buffer[b]) /\ \A u \in Threads : u # b => buffer'[u] = buffer[u]
  BY DEF TypeOK, Set
<1>4. \A u \in Threads : Len(buffer[u]) \in Nat /\ Len(buffer'[u]) \in Nat
  <2> TAKE u \in Threads
  <2>1. Len(buffer[u]) \in Nat
    BY EntryType
  <2>2. CASE u = b
    <3>1. Len(Tail(buffer[b])) \in Nat
      BY <1>2
    <3> QED
      BY <1>3, <2>1, <2>2, <3>1
  <2>3. CASE u # b
    BY <1>3, <2>1, <2>3
  <2> QED
    BY <2>1, <2>2, <2>3
<1>5. \A i \in 1 .. Len(buffer'[b]) :
         i + 1 \in 1 .. Len(buffer[b]) /\ buffer'[b][i] = buffer[b][i + 1] /\ i + 1 # 1
  <2> TAKE i \in 1 .. Len(buffer'[b])
  <2>1. Len(buffer'[b]) \in Nat /\ i \in Int /\ i >= 1
    BY <1>4
  <2>2. i \in 1 .. Len(Tail(buffer[b])) /\ buffer'[b][i] = Tail(buffer[b])[i]
    BY <1>3
  <2>3. i + 1 \in 1 .. Len(buffer[b]) /\ Tail(buffer[b])[i] = buffer[b][i + 1]
    BY <1>2, <2>2, Zenon
  <2>4. i + 1 # 1
    BY <2>1
  <2> QED
    BY <2>2, <2>3, <2>4
<1>6. \A i \in 1 .. Len(buffer[b]) :
         i # 1 => i - 1 \in 1 .. Len(buffer'[b]) /\ buffer'[b][i - 1] = buffer[b][i]
  <2> SUFFICES ASSUME NEW i \in 1 .. Len(buffer[b]), i # 1
               PROVE  i - 1 \in 1 .. Len(buffer'[b]) /\ buffer'[b][i - 1] = buffer[b][i]
    OBVIOUS
  <2>1. i \in Int /\ i - 1 >= 1 /\ i - 1 <= Len(buffer[b]) - 1 /\ (i - 1) + 1 = i
    BY <1>2
  <2>2. Len(buffer'[b]) = Len(buffer[b]) - 1
    BY <1>2, <1>3
  <2>3. i - 1 \in 1 .. Len(buffer'[b])
    BY <1>4, <2>1, <2>2
  <2>4. buffer'[b][i - 1] = buffer[b][(i - 1) + 1]
    BY <1>5, <2>3
  <2> QED
    BY <2>1, <2>3, <2>4
<1> QED
  BY <1>2, <1>3, <1>4, <1>5, <1>6

\* Where an entry was before a pop.
LEMMA PopFrom ==
  ASSUME TypeOK, NEW b \in Threads, buffer[b] # << >>,
         buffer' = Set(buffer, b, Tail(buffer[b])),
         NEW u \in Threads, NEW i \in 1 .. Len(buffer'[u])
  PROVE  /\ i \in Nat /\ i >= 1
         /\ \E k \in 1 .. Len(buffer[u]) : /\ buffer'[u][i] = buffer[u][k]
                                           /\ u = b => k = i + 1
                                           /\ u # b => k = i
<1>0. Len(buffer'[u]) \in Nat
  BY PopEntries
<1>1. CASE u = b
  <2>1. i \in 1 .. Len(buffer'[b]) /\ buffer'[u][i] = buffer'[b][i]
    BY <1>1
  <2>2. i + 1 \in 1 .. Len(buffer[b]) /\ buffer'[b][i] = buffer[b][i + 1]
    BY <2>1, PopEntries
  <2> QED
    BY <1>0, <1>1, <2>2
<1>2. CASE u # b
  <2>1. buffer'[u] = buffer[u]
    BY <1>2, PopEntries
  <2> QED
    BY <1>0, <1>2, <2>1
<1> QED
  BY <1>1, <1>2

LEMMA BufferAdd ==
  ASSUME TypeOK, NEW p, NEW q, BufferAt(p), NEW t \in Threads, NEW x \in Items,
         buffer' = Set(buffer, t, Append(buffer[t], x)),
         x.routine # None => p[x.routine] # "buffer",
         \A r \in Routines : q[r] = "buffer" <=> (p[r] = "buffer" \/ r = x.routine)
  PROVE  BufferAt(q)'
<1>1. /\ buffer'[t][Len(buffer[t]) + 1] = x
      /\ Len(buffer[t]) + 1 \in 1 .. Len(buffer'[t])
      /\ \A u \in Threads : \A i \in 1 .. Len(buffer'[u]) :
            i \in 1 .. Len(buffer[u]) \/ (u = t /\ i = Len(buffer[t]) + 1)
      /\ \A u \in Threads : \A i \in 1 .. Len(buffer[u]) :
            i \in 1 .. Len(buffer'[u]) /\ buffer'[u][i] = buffer[u][i]
  BY PostEntries
<1>2. \A u \in Threads : \A i \in 1 .. Len(buffer[u]) :
         buffer[u][i].routine \in Routines \cup {None}
  BY EntryType
<1>3. x.routine \in Routines \cup {None}
  BY DEF Items
<1>4. ASSUME NEW u \in Threads, NEW i \in 1 .. Len(buffer'[u]), buffer'[u][i].routine # None
      PROVE  q[buffer'[u][i].routine] = "buffer"
  <2>1. CASE i \in 1 .. Len(buffer[u])
    <3>1. /\ buffer'[u][i] = buffer[u][i] /\ buffer[u][i].routine \in Routines
          /\ p[buffer[u][i].routine] = "buffer"
      BY <1>1, <1>2, <1>4, <2>1 DEF BufferAt
    <3> QED
      BY <3>1
  <2>2. CASE u = t /\ i = Len(buffer[t]) + 1
    BY <1>1, <1>3, <1>4, <2>2
  <2> QED
    BY <1>1, <2>1, <2>2
<1>5. ASSUME NEW u \in Threads, NEW v \in Threads, NEW i \in 1 .. Len(buffer'[u]),
             NEW j \in 1 .. Len(buffer'[v]),
             buffer'[u][i].routine # None, buffer'[u][i].routine = buffer'[v][j].routine
      PROVE  u = v /\ i = j
  <2>1. \A w \in Threads : \A k \in 1 .. Len(buffer[w]) :
           buffer[w][k].routine # None => buffer[w][k].routine # x.routine
    BY DEF BufferAt
  <2>2. CASE i \in 1 .. Len(buffer[u]) /\ j \in 1 .. Len(buffer[v])
    <3>1. buffer'[u][i] = buffer[u][i] /\ buffer'[v][j] = buffer[v][j]
      BY <1>1, <2>2
    <3>2. buffer[u][i].routine # None /\ buffer[u][i].routine = buffer[v][j].routine
      BY <1>5, <3>1
    <3> QED
      BY <2>2, <3>2 DEF BufferAt
  <2>3. CASE i \in 1 .. Len(buffer[u]) /\ v = t /\ j = Len(buffer[t]) + 1
    <3>1. buffer'[u][i] = buffer[u][i] /\ buffer'[v][j] = x
      BY <1>1, <2>3
    <3> QED
      BY <1>5, <2>1, <2>3, <3>1
  <2>4. CASE u = t /\ i = Len(buffer[t]) + 1 /\ j \in 1 .. Len(buffer[v])
    <3>1. buffer'[v][j] = buffer[v][j] /\ buffer'[u][i] = x
      BY <1>1, <2>4
    <3> QED
      BY <1>5, <2>1, <2>4, <3>1
  <2>5. CASE u = t /\ i = Len(buffer[t]) + 1 /\ v = t /\ j = Len(buffer[t]) + 1
    BY <2>5
  <2> QED
    BY <1>1, <2>2, <2>3, <2>4, <2>5
<1>6. ASSUME NEW r \in Routines, q[r] = "buffer"
      PROVE  \E u \in Threads : \E i \in 1 .. Len(buffer'[u]) : buffer'[u][i].routine = r
  <2>1. CASE p[r] = "buffer"
    <3>1. PICK u \in Threads : \E i \in 1 .. Len(buffer[u]) : buffer[u][i].routine = r
      BY <2>1 DEF BufferAt
    <3>2. PICK i \in 1 .. Len(buffer[u]) : buffer[u][i].routine = r
      BY <3>1
    <3>3. i \in 1 .. Len(buffer'[u]) /\ buffer'[u][i] = buffer[u][i]
      BY <1>1
    <3> QED
      BY <3>2, <3>3
  <2>2. CASE r = x.routine
    BY <1>1, <2>2
  <2> QED
    BY <1>6, <2>1, <2>2
<1> QED
  BY <1>4, <1>5, <1>6 DEF BufferAt

LEMMA BufferDrop ==
  ASSUME TypeOK, NEW p, NEW q, BufferAt(p), NEW b \in Threads, buffer[b] # << >>,
         buffer' = Set(buffer, b, Tail(buffer[b])),
         \A r \in Routines : q[r] = "buffer" <=> (p[r] = "buffer" /\ r # buffer[b][1].routine)
  PROVE  BufferAt(q)'
<1>1. /\ 1 \in 1 .. Len(buffer[b])
      /\ \A u \in Threads : u # b => buffer'[u] = buffer[u]
      /\ \A u \in Threads : Len(buffer[u]) \in Nat /\ Len(buffer'[u]) \in Nat
      /\ \A i \in 1 .. Len(buffer'[b]) :
            i + 1 \in 1 .. Len(buffer[b]) /\ buffer'[b][i] = buffer[b][i + 1] /\ i + 1 # 1
      /\ \A i \in 1 .. Len(buffer[b]) :
            i # 1 => i - 1 \in 1 .. Len(buffer'[b]) /\ buffer'[b][i - 1] = buffer[b][i]
  BY PopEntries
\* What is in a buffer at i was at k before.
<1>2. ASSUME NEW u \in Threads, NEW i \in 1 .. Len(buffer'[u])
      PROVE  \E k \in 1 .. Len(buffer[u]) : /\ buffer'[u][i] = buffer[u][k]
                                            /\ u = b => k = i + 1 /\ k # 1
                                            /\ u # b => k = i
  <2>1. CASE u = b
    BY <1>1, <2>1
  <2>2. CASE u # b
    BY <1>1, <2>2
  <2> QED
    BY <2>1, <2>2
<1>3. ASSUME NEW u \in Threads, NEW i \in 1 .. Len(buffer'[u]), buffer'[u][i].routine # None
      PROVE  q[buffer'[u][i].routine] = "buffer"
  <2>1. PICK k \in 1 .. Len(buffer[u]) : /\ buffer'[u][i] = buffer[u][k]
                                         /\ u = b => k # 1
    BY <1>2
  <2>2. buffer[u][k].routine \in Routines /\ p[buffer[u][k].routine] = "buffer"
    BY <1>3, <2>1, EntryType DEF BufferAt
  <2>3. buffer[u][k].routine # buffer[b][1].routine
    BY <1>1, <1>3, <2>1 DEF BufferAt
  <2>4. q[buffer[u][k].routine] = "buffer"
    BY <2>2, <2>3
  <2> QED
    BY <2>1, <2>4
<1>4. ASSUME NEW u \in Threads, NEW v \in Threads, NEW i \in 1 .. Len(buffer'[u]),
             NEW j \in 1 .. Len(buffer'[v]),
             buffer'[u][i].routine # None, buffer'[u][i].routine = buffer'[v][j].routine
      PROVE  u = v /\ i = j
  <2>1. PICK k \in 1 .. Len(buffer[u]) : /\ buffer'[u][i] = buffer[u][k]
                                         /\ u = b => k = i + 1
                                         /\ u # b => k = i
    BY <1>2
  <2>2. PICK m \in 1 .. Len(buffer[v]) : /\ buffer'[v][j] = buffer[v][m]
                                         /\ v = b => m = j + 1
                                         /\ v # b => m = j
    BY <1>2
  <2>3. u = v /\ k = m
    <3>1. buffer[u][k].routine # None /\ buffer[u][k].routine = buffer[v][m].routine
      BY <1>4, <2>1, <2>2
    <3> QED
      BY <3>1 DEF BufferAt
  <2>4. i \in Int /\ j \in Int
    <3>1. Len(buffer'[u]) \in Nat /\ Len(buffer'[v]) \in Nat
      BY <1>1
    <3> QED
      BY <3>1
  <2>5. CASE u = b
    <3>1. i + 1 = j + 1
      BY <2>1, <2>2, <2>3, <2>5
    <3> QED
      BY <2>3, <2>4, <3>1
  <2>6. CASE u # b
    BY <2>1, <2>2, <2>3, <2>6
  <2> QED
    BY <2>5, <2>6
<1>5. ASSUME NEW r \in Routines, q[r] = "buffer"
      PROVE  \E u \in Threads : \E i \in 1 .. Len(buffer'[u]) : buffer'[u][i].routine = r
  <2>1. PICK u \in Threads : \E i \in 1 .. Len(buffer[u]) : buffer[u][i].routine = r
    BY <1>5 DEF BufferAt
  <2>2. PICK i \in 1 .. Len(buffer[u]) : buffer[u][i].routine = r
    BY <2>1
  <2>3. CASE u = b
    <3>1. i # 1
      BY <1>5, <2>2, <2>3
    <3>2. i - 1 \in 1 .. Len(buffer'[u]) /\ buffer'[u][i - 1] = buffer[u][i]
      BY <1>1, <2>3, <3>1
    <3> QED
      BY <2>2, <3>2
  <2>4. CASE u # b
    BY <1>1, <2>2, <2>4
  <2> QED
    BY <2>3, <2>4
<1> QED
  BY <1>3, <1>4, <1>5 DEF BufferAt

LEMMA VersionPlaced ==
  ASSUME WarpInv, NEW p, Placed(p), NEW t \in Threads, TakeVersion(t), arg[t] = None
  PROVE  Placed(p)'
<1>a. TypeOK
  BY DEF WarpInv
<1>b. /\ UNCHANGED <<todo, buffer, extJobs, parJobs, parallel, log, follows, arg>>
      /\ fence' = Set(fence, t, fence[t] \cup Buffered)
  BY DEF TakeVersion, work
<1>c. \A u \in Threads : u # t => Holds(u)' = Holds(u) /\ Runs(u)' = Runs(u)
  BY OthersHold DEF Step
<1>d. Holds(t) = None /\ Runs(t) = None /\ Holds(t)' = None /\ Runs(t)' = None
  BY <1>a, <1>b DEF TakeVersion, Goto, Set, TypeOK, Holds, Runs, HandPCs, RoutinePCs
<1>e. \A u \in Threads : Holds(u)' = Holds(u) /\ Runs(u)' = Runs(u)
  BY <1>c, <1>d
<1>1. TodoAt(p)' /\ TaskAt(p)' /\ BufferAt(p)' /\ LogAt(p)' /\ ChildAt(p)'
  BY <1>a, <1>b, <1>e, TodoFrame, TaskFrame, BufferFrame, LogFrame, ChildFrame DEF Placed
<1>2. HandAt(p)'
  <2>1. \A u \in Threads : Holds(u)' # None => p[Holds(u)] = "hand"
    BY <1>e DEF Placed, HandAt
  <2> QED
    BY <1>a, <1>e, <2>1, HandFrame DEF Placed
<1>3. PoolAt(p)'
  BY <1>b DEF Placed, PoolAt
<1>4. FenceAt(p)'
  <2>1. \A r \in Buffered : p[r] = "buffer"
    <3> SUFFICES ASSUME NEW r \in Buffered PROVE p[r] = "buffer"
      OBVIOUS
    <3>1. PICK u \in Threads : r \in {buffer[u][i].routine : i \in 1 .. Len(buffer[u])}
      BY DEF Buffered
    <3>2. PICK i \in 1 .. Len(buffer[u]) : r = buffer[u][i].routine
      BY <3>1
    <3> QED
      BY <3>2 DEF Placed, BufferAt, Buffered
  <2>2. /\ fence'[t] = fence[t] \cup Buffered
        /\ \A u \in Threads : u # t => fence'[u] = fence[u]
    BY <1>a, <1>b DEF TypeOK, Set
  <2>3. \A u \in Threads : \A r \in fence'[u] : p[r] \in Late
    BY <2>1, <2>2 DEF Placed, FenceAt, Late
  <2> QED
    BY <1>b, <2>3 DEF Placed, FenceAt
<1> QED
  BY <1>1, <1>2, <1>3, <1>4 DEF Placed

LEMMA PostPlaced ==
  ASSUME WarpInv, NEW p, Placed(p), NEW t \in Threads, Post(t), t \notin Externals
  PROVE  \E q : Placed(q)'
<1> DEFINE r == arg[t]
           x == Item(arg[t], ver[t])
<1>a. TypeOK /\ Place(t) /\ p \in [Routines -> Stages]
  BY DEF WarpInv, Placed
<1>b. /\ UNCHANGED <<todo, extJobs, parJobs, parallel, log, fence>>
      /\ buffer' = Set(buffer, t, Append(buffer[t], x))
      /\ follows' = IF r = None THEN follows ELSE Set(follows, r, fence[t])
  BY DEF Post
<1>c. x \in Items /\ x.routine = r /\ r \in Routines \cup {None}
  BY <1>a DEF TypeOK, Item, Items
<1>d. \A u \in Threads : u # t => Holds(u)' = Holds(u) /\ Runs(u)' = Runs(u)
  BY OthersHold DEF Step
<1>e. Holds(t) = r /\ Runs(t) = None /\ Holds(t)' = None /\ Runs(t)' = None
  BY <1>a DEF Post, Goto, Set, TypeOK, Holds, Runs, HandPCs, RoutinePCs
<1>f. \A u \in Threads : Runs(u)' = Runs(u) /\ Holds(u)' \in {None, Holds(u)}
  BY <1>d, <1>e
<1> HIDE DEF r, x
<1>1. CASE r = None
  <2>1. TodoAt(p)' /\ TaskAt(p)' /\ LogAt(p)' /\ ChildAt(p)'
    BY <1>a, <1>b, <1>f, TodoFrame, TaskFrame, LogFrame, ChildFrame DEF Placed
  <2>2. HandAt(p)'
    <3>1. \A u \in Threads : Holds(u)' # None => p[Holds(u)] = "hand"
      BY <1>f DEF Placed, HandAt
    <3> QED
      BY <1>a, <1>f, <3>1, HandFrame DEF Placed
  <2>3. PoolAt(p)'
    BY <1>b DEF Placed, PoolAt
  <2>4. FenceAt(p)'
    BY <1>a, <1>b, <1>1, FenceFrame DEF Placed
  <2>5. BufferAt(p)'
    <3>1. \A y \in Routines : p[y] = "buffer" <=> (p[y] = "buffer" \/ y = x.routine)
      BY <1>1, <1>c, NoneApart
    <3> QED
      BY <1>1, <1>a, <1>b, <1>c, <3>1, BufferAdd DEF Placed
  <2> QED
    BY <2>1, <2>2, <2>3, <2>4, <2>5, <1>a DEF Placed
<1>2. CASE r # None
  <2>0. r \in Routines /\ p[r] = "hand"
    BY <1>2, <1>c, <1>e DEF Placed, HandAt
  <2>1. PICK q \in [Routines -> Stages] :
           q[r] = "buffer" /\ \A y \in Routines : y # r => q[y] = p[y]
    <3>1. "buffer" \in Stages
      BY DEF Stages
    <3>2. [p EXCEPT ![r] = "buffer"] \in [Routines -> Stages]
      BY <1>a, <2>0, <3>1
    <3> QED
      BY <1>a, <2>0, <3>2
  <2>2. \A y \in Routines : q[y] = p[y] \/ (y = r /\ p[y] = "hand" /\ q[y] = "buffer")
    BY <2>0, <2>1
  <2>3. TodoAt(q)' /\ TaskAt(q)' /\ LogAt(q)' /\ ChildAt(q)'
    BY <1>a, <1>b, <1>f, <2>2, TodoFrame, TaskFrame, LogFrame, ChildFrame DEF Placed
  <2>4. HandAt(q)'
    <3>1. \A u \in Threads : u # t /\ Holds(u) # None => Holds(u) # r
      BY <1>2, <1>e DEF Placed, HandAt
    <3>2. \A u \in Threads : Holds(u)' # None => q[Holds(u)] = "hand"
      BY <1>a, <1>d, <1>e, <2>1, <3>1, HoldsType DEF Placed, HandAt
    <3> QED
      BY <1>a, <1>f, <3>2, HandFrame DEF Placed
  <2>5. PoolAt(q)'
    BY <1>a, <1>b, <2>2 DEF Placed, PoolAt, TypeOK
  <2>6. BufferAt(q)'
    BY <1>a, <1>b, <1>c, <2>0, <2>1, <2>2, BufferAdd DEF Placed
  <2>7. FenceAt(q)'
    <3>1. /\ fence' = fence /\ follows'[r] = fence[t]
          /\ \A y \in Routines : y # r => follows'[y] = follows[y]
      BY <1>a, <1>b, <1>2, <2>0 DEF TypeOK, Set
    <3>2. \A y \in Routines : p[y] \in Late => q[y] \in Late
      BY <2>2 DEF Late
    <3>3. q[r] \in Late
      BY <2>1 DEF Late
    <3>4. /\ \A u \in Threads : fence[u] \subseteq Routines
          /\ \A y \in Routines : follows[y] \subseteq Routines
      BY <1>a DEF TypeOK
    <3> QED
      BY <3>1, <3>2, <3>3, <3>4 DEF Placed, FenceAt
  <2> QED
    BY <2>1, <2>3, <2>4, <2>5, <2>6, <2>7 DEF Placed
<1> QED
  BY <1>1, <1>2

LEMMA PopPlaced ==
  ASSUME WarpInv, NEW p, Placed(p), NEW t \in Threads, Pop(t)
  PROVE  \E q : Placed(q)'
<1> DEFINE r == buffer[index][1].routine
<1>a. TypeOK /\ p \in [Routines -> Stages]
  BY DEF WarpInv, Placed
<1>0. index \in Threads /\ buffer[index] # << >>
  BY <1>a, WarpAssumption DEF Pop, Eligible, TypeOK, Threads
<1>b. /\ UNCHANGED <<todo, extJobs, parJobs, parallel, log, fence, follows>>
      /\ buffer' = Set(buffer, index, Tail(buffer[index]))
  BY DEF Pop, work, history
<1>c. /\ 1 \in 1 .. Len(buffer[index]) /\ Head(buffer[index]) = buffer[index][1]
      /\ r \in Routines \cup {None}
  BY <1>a, <1>b, <1>0, PopEntries, EntryType
<1>d. \A u \in Threads : u # t => Holds(u)' = Holds(u) /\ Runs(u)' = Runs(u)
  BY OthersHold DEF Step
<1>e. Holds(t) = None /\ Runs(t) = None /\ Holds(t)' = None /\ Runs(t)' = r
  <2>1. arg'[t] = r /\ pc[t] = "scan" /\ pc'[t] = "task"
    BY <1>a, <1>c DEF Pop, Goto, Set, TypeOK
  <2> QED
    BY <2>1 DEF Holds, Runs, HandPCs, RoutinePCs
<1>f. \A u \in Threads : Holds(u)' = Holds(u)
  BY <1>d, <1>e
<1> HIDE DEF r
<1>1. CASE r = None
  <2>0. \A u \in Threads : Runs(u)' = Runs(u)
    BY <1>1, <1>d, <1>e
  <2>1. TodoAt(p)' /\ TaskAt(p)' /\ LogAt(p)' /\ ChildAt(p)' /\ FenceAt(p)'
    BY <1>a, <1>b, <2>0, TodoFrame, TaskFrame, LogFrame, ChildFrame, FenceFrame DEF Placed
  <2>2. HandAt(p)'
    <3>1. \A u \in Threads : Holds(u)' # None => p[Holds(u)] = "hand"
      BY <1>f DEF Placed, HandAt
    <3> QED
      BY <1>a, <1>f, <3>1, HandFrame DEF Placed
  <2>3. PoolAt(p)'
    BY <1>b DEF Placed, PoolAt
  <2>4. BufferAt(p)'
    <3>1. \A y \in Routines : y # buffer[index][1].routine
      BY <1>1, NoneApart DEF r
    <3> QED
      BY <1>a, <1>b, <1>0, <3>1, BufferDrop DEF Placed
  <2> QED
    BY <2>1, <2>2, <2>3, <2>4, <1>a DEF Placed
<1>2. CASE r # None
  <2>0. r \in Routines /\ p[r] = "buffer"
    BY <1>2, <1>c, <1>0 DEF Placed, BufferAt, r
  <2>1. PICK q \in [Routines -> Stages] :
           q[r] = "task" /\ \A y \in Routines : y # r => q[y] = p[y]
    <3>1. "task" \in Stages
      BY DEF Stages
    <3>p. p \in Placings
      BY <1>a DEF Placings
    <3>q. \E q \in Placings : Moves(p, q, r, "task")
      BY <3>p, <2>0, <3>1, MoveOne, Zenon
    <3> QED
      BY <3>q, Zenon DEF Placings, Moves
  <2>2. \A y \in Routines : q[y] = p[y] \/ (y = r /\ p[y] = "buffer" /\ q[y] = "task")
    BY <2>0, <2>1
  <2>3. TodoAt(q)' /\ LogAt(q)' /\ ChildAt(q)' /\ FenceAt(q)'
    BY <1>a, <1>b, <2>2, TodoFrame, LogFrame, ChildFrame, FenceFrame DEF Placed, Late
  <2>4. HandAt(q)'
    <3>1. \A u \in Threads : Holds(u)' # None => q[Holds(u)] = "hand"
      BY <1>a, <1>f, <2>2, HoldsType DEF Placed, HandAt
    <3> QED
      BY <1>a, <1>f, <3>1, HandFrame DEF Placed
  <2>5. PoolAt(q)'
    BY <1>a, <1>b, <2>2 DEF Placed, PoolAt, TypeOK
  <2>6. BufferAt(q)'
    <3>1. \A y \in Routines :
             q[y] = "buffer" <=> (p[y] = "buffer" /\ y # buffer[index][1].routine)
      BY <2>1, <2>2 DEF r
    <3> QED
      BY <1>a, <1>b, <1>0, <3>1, BufferDrop DEF Placed
  <2>7. TaskAt(q)'
    <3>1. \A u \in Threads : Runs(u)' # None => q[Runs(u)'] = "task"
      <4> TAKE u \in Threads
      <4>1. CASE u = t
        BY <1>e, <2>1, <4>1
      <4>2. CASE u # t
        <5>1. Runs(u)' = Runs(u) /\ Runs(u) \in Routines \cup {None}
          BY <1>a, <1>d, <4>2, HoldsType
        <5> QED
          BY <2>2, <5>1 DEF Placed, TaskAt
      <4> QED
        BY <4>1, <4>2
    <3>2. ASSUME NEW y \in Routines, q[y] = "task" PROVE \E u \in Threads : Runs(u)' = y
      <4>1. CASE y = r
        BY <1>e, <4>1
      <4>2. CASE y # r
        <5>1. PICK u \in Threads : Runs(u) = y
          BY <2>1, <3>2, <4>2 DEF Placed, TaskAt
        <5>2. u # t
          BY <1>e, <5>1, NoneApart
        <5> QED
          BY <1>d, <5>1, <5>2
      <4> QED
        BY <4>1, <4>2
    <3> QED
      BY <3>1, <3>2 DEF TaskAt
  <2> QED
    BY <2>1, <2>3, <2>4, <2>5, <2>6, <2>7 DEF Placed
<1> QED
  BY <1>1, <1>2

\* A routine is executed, and what it posts is in the hand of the thread.
LEMMA ExecutePlaced ==
  ASSUME WarpInv, NEW p, Placed(p), NEW t \in Threads,
         Run(t) \/ (Task(t) /\ arg[t] # None)
  PROVE  \E q : Placed(q)'
<1> DEFINE r == arg[t]
           c == Child[arg[t]]
<1>a. TypeOK /\ Place(t) /\ p \in [Routines -> Stages]
  BY DEF WarpInv, Placed
<1>b. /\ UNCHANGED <<todo, buffer, extJobs, parJobs, parallel, fence, follows>>
      /\ log' = Append(log, r)
  BY DEF Run, Task, Execute, grid, work
<1>c. r \in Routines /\ c \in Routines \cup {None}
  BY <1>a, WarpAssumption DEF Run, Place, RoutinePCs, TypeOK
<1>d. \A u \in Threads : u # t => Holds(u)' = Holds(u) /\ Runs(u)' = Runs(u)
  BY OthersHold DEF Step
<1>e. /\ pc[t] \in {"run", "task"} /\ arg'[t] = c
      /\ c = None => pc'[t] \in {"yield", "ran"}
      /\ c # None => pc'[t] = "post"
  BY <1>a DEF Run, Task, Execute, Goto, Set, TypeOK
<1>f. /\ pc[t] = "run" => Holds(t) = r /\ Runs(t) = None
      /\ pc[t] = "task" => Holds(t) = None /\ Runs(t) = r
      /\ Holds(t)' = c /\ Runs(t)' = None
  BY <1>e DEF Holds, Runs, HandPCs, RoutinePCs
<1> HIDE DEF r
<1>g. p[r] = (IF pc[t] = "run" THEN "hand" ELSE "task")
  BY <1>c, <1>e, <1>f, NoneApart DEF Placed, HandAt, TaskAt
<1>h. c # None => p[c] = "unborn"
  BY <1>c, <1>g DEF Placed, ChildAt, r
<1>i. c # None => /\ c \in Routines
                  /\ \A y \in Routines : Child[y] = c => y = r
  BY <1>c, RoutineAssumption DEF r
<1> HIDE DEF c
<1>1. PICK q : q = [y \in Routines |-> IF y = r THEN "log" ELSE IF y = c THEN "hand" ELSE p[y]]
  OBVIOUS
<1>2. q \in [Routines -> Stages] /\ q[r] = "log"
  BY <1>1, <1>a, <1>c DEF Stages
<1>3. \A y \in Routines : \/ y = r /\ p[y] \in {"hand", "task"} /\ q[y] = "log"
                          \/ y # r /\ y = c /\ p[y] = "unborn" /\ q[y] = "hand"
                          \/ y # r /\ y # c /\ q[y] = p[y]
  BY <1>1, <1>c, <1>g, <1>h, NoneApart
<1>4. TodoAt(q)' /\ BufferAt(q)' /\ FenceAt(q)'
  BY <1>a, <1>b, <1>3, TodoFrame, BufferFrame, FenceFrame DEF Placed, Late
<1>5. PoolAt(q)'
  BY <1>a, <1>b, <1>3 DEF Placed, PoolAt, TypeOK
<1>6. LogAt(q)'
  <2>1. \A y \in Routines : q[y] = "log" <=> (p[y] = "log" \/ y = r)
    BY <1>2, <1>3
  <2>2. p[r] # "log"
    BY <1>g
  <2> QED
    BY <1>a, <1>b, <1>c, <2>1, <2>2, LogNew DEF Placed
<1>7. ChildAt(q)'
  <2> SUFFICES ASSUME NEW y \in Routines, Child[y] # None, q[y] # "log"
               PROVE  q[Child[y]] = "unborn"
    BY DEF ChildAt
  <2>1. y # r /\ Child[y] \in Routines
    BY <1>2, WarpAssumption
  <2>2. p[y] # "log"
    BY <1>3, <2>1
  <2>3. p[Child[y]] = "unborn"
    BY <2>2 DEF Placed, ChildAt
  <2>4. Child[y] # r
    BY <1>g, <2>3
  <2>5. Child[y] # c
    BY <1>i, <2>1
  <2> QED
    BY <1>3, <2>1, <2>3, <2>4, <2>5
<1>8. TaskAt(q)'
  <2>1. \A u \in Threads : Runs(u)' # None => q[Runs(u)'] = "task"
    <3> SUFFICES ASSUME NEW u \in Threads, Runs(u)' # None PROVE q[Runs(u)'] = "task"
      OBVIOUS
    <3>1. u # t /\ Runs(u)' = Runs(u)
      BY <1>d, <1>f
    <3>2. Runs(u) \in Routines /\ p[Runs(u)] = "task"
      BY <1>a, <3>1, HoldsType DEF Placed, TaskAt
    <3>3. Runs(u) # r
      <4>1. CASE pc[t] = "run"
        BY <1>g, <3>2, <4>1
      <4>2. CASE pc[t] = "task"
        \* Both would own the warp.
        <5>1. pc[u] = "task"
          BY <3>1 DEF Runs
        <5>2. Place(u)
          BY DEF WarpInv
        <5> QED
          BY <1>a, <3>1, <4>2, <5>1, <5>2 DEF Place, OwnPCs
      <4> QED
        BY <1>e, <4>1, <4>2
    <3> QED
      BY <1>3, <3>1, <3>2, <3>3
  <2>2. ASSUME NEW y \in Routines, q[y] = "task" PROVE \E u \in Threads : Runs(u)' = y
    <3>1. y # r /\ p[y] = "task"
      BY <1>3, <2>2
    <3>2. PICK u \in Threads : Runs(u) = y
      BY <3>1 DEF Placed, TaskAt
    <3>3. u # t
      BY <1>e, <1>f, <3>1, <3>2, NoneApart
    <3> QED
      BY <1>d, <3>2, <3>3
  <2> QED
    BY <2>1, <2>2 DEF TaskAt
<1>9. HandAt(q)'
  <2>1. \A u \in Threads : u # t /\ Holds(u) # None => q[Holds(u)] = "hand"
    <3> SUFFICES ASSUME NEW u \in Threads, u # t, Holds(u) # None
                 PROVE  q[Holds(u)] = "hand"
      OBVIOUS
    <3>1. Holds(u) \in Routines /\ p[Holds(u)] = "hand"
      BY <1>a, HoldsType DEF Placed, HandAt
    <3>2. Holds(u) # r
      <4>1. CASE pc[t] = "run"
        BY <1>f, <4>1 DEF Placed, HandAt
      <4>2. CASE pc[t] = "task"
        BY <1>g, <3>1, <4>2
      <4> QED
        BY <1>e, <4>1, <4>2
    <3> QED
      BY <1>3, <3>1, <3>2
  <2>2. CASE c = None
    <3>1. \A u \in Threads : Holds(u)' \in {None, Holds(u)}
      BY <1>d, <1>f, <2>2
    <3>2. \A u \in Threads : Holds(u)' # None => q[Holds(u)] = "hand"
      BY <1>d, <1>f, <2>1, <2>2
    <3> QED
      BY <1>a, <3>1, <3>2, HandFrame DEF Placed
  <2>3. CASE c # None
    <3>1. c \in Routines /\ p[c] = "unborn" /\ c # r /\ q[c] = "hand"
      BY <1>3, <1>g, <1>h, <1>i, <2>3
    <3> QED
      BY <1>a, <1>d, <1>f, <2>1, <3>1, HandNew DEF Placed
  <2> QED
    BY <2>2, <2>3
<1> QED
  BY <1>2, <1>4, <1>5, <1>6, <1>7, <1>8, <1>9 DEF Placed

\* Steps that leave the buffers, their versions and the pass over them alone.
Quiets(t) ==
    \/ Call(t)
    \/ (Post(t) /\ t \in Externals)
    \/ Guard(t)
    \/ Preempt(t, "preempt", "recheck", "post")
    \/ Recheck(t)
    \/ Run(t)
    \/ Flush(t)
    \/ FlushExchange(t)
    \/ Yield(t)
    \/ ExchangeIdle(t, "yieldx", after[t])
    \/ Resume(t)
    \/ ExchangeIdle(t, "resumex", "free")
    \/ TakeJob(t)
    \/ TakeExternal(t)
    \/ ExecuteGuard(t)
    \/ Preempt(t, "x1", "x2", "par")
    \/ ExecuteRecheck(t)
    \/ ExecuteParallel(t, "drain", "check")
    \/ DoubleCheck(t)
    \/ Defer(t)
    \/ TryParallel(t)
    \/ Preempt(t, "parpreempt", "pardrain", "free")
    \/ ExecuteParallel(t, "pardrain", "yield")
    \/ Chain(t)
    \/ Link(t)
    \/ Submit(t)
    \/ TakeParallel(t)
    \/ ParallelTask(t)
Quiet(t) ==
    /\ UNCHANGED <<buffer, barrierVersion, versions, current, next, index, step, fence, follows>>
    /\ \A u \in Threads : u # t => ver'[u] = ver[u]
    /\ pc[t] \notin {"scan", "task"} /\ pc'[t] \notin {"scan", "task"}
    /\ Back(t)' <=> Back(t)
    /\ \/ owner' = owner
       \/ ~Back(t) /\ owner = None /\ owner' = t
       \/ ~Back(t) /\ owner = t /\ owner' = None
    /\ pc[t] = "post" => ver[t] = 0
    /\ pc'[t] = "post" => ver'[t] = 0

LEMMA QuietEffect ==
  ASSUME WarpInv, NEW t \in Threads, Labels(t), Quiets(t)
  PROVE  Quiet(t) /\ Labels(t)'

<1>a. TypeOK /\ Place(t)
  BY DEF WarpInv
<1>b. /\ pc \in [Threads -> PCs] /\ arg \in [Threads -> Routines \cup {None}]
      /\ ret \in [Threads -> PCs] /\ ver \in [Threads -> Nat]
  BY <1>a DEF TypeOK
<1> USE NoneApart DEF Quiet, Labels, Back, RoutinePCs, Goto, Set, hot, grid, work, control,
      local, history
<1>1. CASE Call(t)
  <2>1. /\ pc[t] = "free" /\ ver'[t] = 0 /\ ret'[t] = "free"
        /\ \A u \in Threads : u # t => ver'[u] = ver[u]
    BY <1>b, <1>1 DEF Call
  <2>2. /\ pc'[t] \in {"post", "guard", "version", "submit", "chain", "chainpost"}
        /\ pc'[t] = "version" <=> arg'[t] = None
    <3>1. /\ Head(todo[t]).kind \in Kinds
          /\ Head(todo[t]).routine = None <=> Head(todo[t]).kind = "barrier"
      BY <1>a, <1>1, NextCall DEF Call, Calls, Kinds
    <3> QED
      BY <1>b, <1>1, <3>1 DEF Call, Kinds
  <2>3. /\ UNCHANGED <<buffer, barrierVersion, versions, current, next, index, step, fence>>
        /\ UNCHANGED <<follows, owner>>
    BY <1>1 DEF Call
  <2> QED
    BY <2>1, <2>2, <2>3 DEF ReturnPCs
<1>2. CASE Post(t) /\ t \in Externals
  BY <1>a, <1>b, <1>2 DEF Post, Place, ReturnPCs
<1>3. CASE Guard(t)
  BY <1>a, <1>b, <1>3 DEF Guard, Place, FreshPCs, ReturnPCs
<1>4. CASE Preempt(t, "preempt", "recheck", "post")
  BY <1>a, <1>b, <1>4 DEF Preempt, Place, FreshPCs, ReturnPCs
<1>5. CASE Recheck(t)
  <2>1. pc[t] = "recheck" /\ arg[t] \in Routines /\ ver[t] = 0
    BY <1>a, <1>5 DEF Recheck, Place
  <2>2. /\ UNCHANGED <<buffer, barrierVersion, versions, current, next, index, step, fence>>
        /\ UNCHANGED <<follows, owner, arg, ver>>
    BY <1>5 DEF Recheck
  <2>3. pc'[t] = "run" \/ (pc'[t] = "post" /\ ret'[t] = "yield")
    BY <1>b, <1>5 DEF Recheck
  <2> QED
    BY <1>b, <2>1, <2>2, <2>3 DEF ReturnPCs
<1>6. CASE Run(t)
  BY <1>a, <1>b, <1>6 DEF Run, Execute, Place, ReturnPCs
<1>7. CASE Flush(t)
  BY <1>a, <1>b, <1>7 DEF Flush, Place, ReturnPCs
<1>8. CASE FlushExchange(t)
  BY <1>a, <1>b, <1>8 DEF FlushExchange, Place, ReturnPCs
<1>9. CASE Yield(t)
  BY <1>a, <1>b, <1>9 DEF Yield, Place, OwnPCs, ReturnPCs
<1>10. CASE ExchangeIdle(t, "yieldx", after[t])
  BY <1>a, <1>b, <1>10 DEF ExchangeIdle, Place, ReturnPCs
<1>11. CASE Resume(t)
  BY <1>b, <1>11 DEF Resume, ReturnPCs
<1>12. CASE ExchangeIdle(t, "resumex", "free")
  BY <1>a, <1>b, <1>12 DEF ExchangeIdle, Place, ReturnPCs
<1>13. CASE TakeJob(t)
  BY <1>b, <1>13 DEF TakeJob, ReturnPCs
<1>14. CASE TakeExternal(t)
  BY <1>b, <1>14 DEF TakeExternal, ReturnPCs
<1>15. CASE ExecuteGuard(t)
  BY <1>b, <1>15 DEF ExecuteGuard, ReturnPCs
<1>16. CASE Preempt(t, "x1", "x2", "par")
  BY <1>b, <1>16 DEF Preempt, ReturnPCs
<1>17. CASE ExecuteRecheck(t)
  BY <1>b, <1>17 DEF ExecuteRecheck, ReturnPCs
<1>18. CASE ExecuteParallel(t, "drain", "check")
  BY <1>b, <1>18 DEF ExecuteParallel, ReturnPCs
<1>19. CASE DoubleCheck(t)
  BY <1>b, <1>19 DEF DoubleCheck, ReturnPCs
<1>20. CASE Defer(t)
  BY <1>b, <1>20 DEF Defer, ReturnPCs
<1>21. CASE TryParallel(t)
  BY <1>b, <1>21 DEF TryParallel, ReturnPCs
<1>22. CASE Preempt(t, "parpreempt", "pardrain", "free")
  BY <1>b, <1>22 DEF Preempt, ReturnPCs
<1>23. CASE ExecuteParallel(t, "pardrain", "yield")
  BY <1>b, <1>23 DEF ExecuteParallel, ReturnPCs
<1>24. CASE Chain(t)
  BY <1>b, <1>24 DEF Chain, ReturnPCs
<1>25. CASE Link(t)
  BY <1>a, <1>b, <1>25 DEF Link, Place, FreshPCs, ReturnPCs
<1>26. CASE Submit(t)
  BY <1>b, <1>26 DEF Submit, ReturnPCs
<1>27. CASE TakeParallel(t)
  BY <1>b, <1>27 DEF TakeParallel, ReturnPCs
<1>28. CASE ParallelTask(t)
  BY <1>b, <1>28 DEF ParallelTask, ReturnPCs
<1> QED
  BY <1>1, <1>2, <1>3, <1>4, <1>5, <1>6, <1>7, <1>8, <1>9, <1>10, <1>11, <1>12, <1>13,
    <1>14, <1>15, <1>16, <1>17, <1>18, <1>19, <1>20, <1>21, <1>22, <1>23, <1>24, <1>25, <1>26,
    <1>27, <1>28 DEF Quiets

\* The other steps.
LEMMA StepKinds ==
  ASSUME NEW t \in Threads, Call(t) \/ Step(t)
  PROVE  \/ Quiets(t) \/ (Post(t) /\ t \notin Externals) \/ TakeVersion(t) \/ Mark(t)
         \/ Pop(t) \/ NextBuffer(t) \/ EndPass(t) \/ Task(t) \/ Ran(t)
  BY DEF Step, Quiets

\* Only the owner is inside execute_internal()'s loops.
LEMMA ScansOwns ==
  ASSUME WarpInv, NEW t \in Threads, Scans(t)
  PROVE  owner = t
  BY DEF WarpInv, Place, Scans, Back, OwnPCs, ReturnPCs

\* What a step of t leaves alone of another thread, and of its pass.
LEMMA OthersScan ==
  ASSUME WarpInv, NEW t \in Threads, Labels(t), Call(t) \/ Step(t),
         NEW u \in Threads, u # t
  PROVE  /\ ver'[u] = ver[u] /\ (Back(u)' <=> Back(u)) /\ (Scans(u)' <=> Scans(u))
         /\ Scans(u) => UNCHANGED <<versions, current, next, index, step>>
<1>1. pc'[u] = pc[u] /\ ret'[u] = ret[u]
  BY OthersStay
<1>2. (Back(u)' <=> Back(u)) /\ (Scans(u)' <=> Scans(u))
  BY <1>1 DEF Back, Scans
<1>3. Scans(u) => owner # t
  BY ScansOwns
<1>4. pc[t] \in OwnPCs => owner = t
  BY DEF WarpInv, Place
<1>5. ver'[u] = ver[u] /\ (owner # t => UNCHANGED <<versions, current, next, index, step>>)
  <2> USE DEF WarpInv, TypeOK, Set, hot, grid, work, control, local, history
  <2>1. CASE Quiets(t)
    BY <2>1, QuietEffect DEF Quiet
  <2>2. CASE Post(t) /\ t \notin Externals
    BY <2>2 DEF Post
  <2>3. CASE TakeVersion(t)
    BY <2>3 DEF TakeVersion
  <2>4. CASE Mark(t)
    BY <2>4, <1>4 DEF Mark, OwnPCs
  <2>5. CASE Pop(t)
    BY <2>5 DEF Pop
  <2>6. CASE NextBuffer(t)
    BY <2>6, <1>4 DEF NextBuffer, OwnPCs
  <2>7. CASE EndPass(t)
    BY <2>7, <1>4 DEF EndPass, OwnPCs
  <2>8. CASE Task(t)
    BY <2>8, <1>4 DEF Task, Execute, OwnPCs
  <2>9. CASE Ran(t)
    BY <2>9, <1>4 DEF Ran, OwnPCs
  <2> QED
    BY <2>1, <2>2, <2>3, <2>4, <2>5, <2>6, <2>7, <2>8, <2>9, StepKinds
<1> QED
  BY <1>2, <1>3, <1>5

LEMMA OwnLabels ==
  ASSUME WarpInv, Marked, NEW t \in Threads, Call(t) \/ Step(t)
  PROVE  Labels(t)' /\ Locals(t)'
<1>a. TypeOK /\ Place(t) /\ Labels(t) /\ Locals(t)
  BY DEF WarpInv, Marked
<1>b. /\ pc \in [Threads -> PCs] /\ arg \in [Threads -> Routines \cup {None}]
      /\ ret \in [Threads -> PCs] /\ ver \in [Threads -> Nat]
      /\ versions \in [Threads -> Nat] /\ index \in 1 .. N + 1 /\ N \in Nat
  BY <1>a, WarpAssumption DEF TypeOK
<1>c. Threads = 1 .. N
  BY DEF Threads
<1>1. CASE Quiets(t)
  <2>1. Quiet(t) /\ Labels(t)'
    BY <1>a, <1>1, QuietEffect
  <2>2. Locals(t)'
    BY <1>a, <2>1 DEF Quiet, Locals, Scans
  <2> QED
    BY <2>1, <2>2
<1> USE DEF Labels, Locals, Scans, Back, ReturnPCs, RoutinePCs, Goto, Set
<1>2. CASE Post(t) /\ t \notin Externals
  BY <1>a, <1>b, <1>2 DEF Post, local
<1>3. CASE TakeVersion(t)
  <2>1. /\ pc[t] = "version" /\ pc'[t] = "post" /\ arg'[t] = None /\ ret'[t] = "free"
        /\ ver'[t] = barrierVersion + 1
    BY <1>a, <1>b, <1>3 DEF TakeVersion, Place, FreshPCs
  <2>2. ver'[t] > 0
    BY <1>a, <2>1 DEF TypeOK
  <2> QED
    BY <2>1, <2>2
<1>4. CASE Mark(t)
  BY <1>a, <1>b, <1>4 DEF Mark
<1>5. CASE Pop(t)
  <2>1. /\ pc[t] = "scan" /\ pc'[t] = "task" /\ index \in Threads /\ index <= N
        /\ UNCHANGED <<next, versions, index>>
        /\ arg'[t] = Head(buffer[index]).routine /\ ver'[t] = Head(buffer[index]).version
        /\ buffer[index] # << >> /\ buffer' = Set(buffer, index, Tail(buffer[index]))
    BY <1>b, <1>c, <1>5 DEF Pop, Eligible, local
  <2>2. arg'[t] = None <=> ver'[t] > 0
    BY <1>a, <2>1, PopEntries DEF Marked
  <2> QED
    BY <1>a, <2>1, <2>2
<1>6. CASE NextBuffer(t)
  <2>1. /\ pc[t] = "scan" /\ pc'[t] = "scan" /\ index \in Int /\ index' = index + 1
        /\ index < N => next' = versions[index + 1]
        /\ \A b \in Threads : b # index => versions'[b] = versions[b]
    BY <1>b, <1>c, <1>6 DEF NextBuffer, control
  <2>2. index' <= N => index < N /\ index + 1 \in Threads /\ index + 1 # index
    BY <1>b, <1>c, <2>1
  <2> QED
    BY <2>1, <2>2
<1>7. CASE EndPass(t)
  BY <1>a, <1>b, <1>7 DEF EndPass
<1>8. CASE Task(t)
  <2>1. pc[t] = "task" /\ index <= N /\ index' = index
    BY <1>a, <1>8 DEF Task, local
  <2>2. /\ pc'[t] = "ran" \/ (pc'[t] = "post" /\ arg'[t] # None /\ ver'[t] = 0)
    BY <1>a, <1>b, <1>8 DEF Task, Execute
  <2> QED
    BY <2>1, <2>2
<1>9. CASE Ran(t)
  <2>1. /\ pc[t] = "ran" /\ pc'[t] \in {"scan", "yield"} /\ index \in Threads
        /\ index' = index /\ next' = next /\ versions'[index] = next
    BY <1>a, <1>b, <1>c, <1>9 DEF Ran
  <2> QED
    BY <2>1
<1> QED
  BY <1>1, <1>2, <1>3, <1>4, <1>5, <1>6, <1>7, <1>8, <1>9, StepKinds

\* Every step but a post and a pop leaves the buffers alone.
LEMMA BuffersStay ==
  ASSUME WarpInv, NEW t \in Threads, Labels(t), Call(t) \/ Step(t),
         ~Pop(t), ~(Post(t) /\ t \notin Externals)
  PROVE  buffer' = buffer
  BY StepKinds, QuietEffect DEF Quiet, TakeVersion, Mark, NextBuffer, EndPass, Task, Ran, grid

LEMMA MarkedStep ==
  ASSUME WarpInv, Marked, NEW t \in Threads, Call(t) \/ Step(t)
  PROVE  Marked'
<1>a. TypeOK /\ Labels(t)
  BY DEF WarpInv, Marked
<1>1. ASSUME NEW u \in Threads PROVE Labels(u)' /\ Locals(u)'
  <2>1. CASE u = t
    BY <2>1, OwnLabels
  <2>2. CASE u # t
    <3>1. /\ pc'[u] = pc[u] /\ arg'[u] = arg[u] /\ ver'[u] = ver[u]
          /\ (Scans(u)' <=> Scans(u))
          /\ Scans(u) => UNCHANGED <<versions, next, index>>
      BY <1>a, <2>2, OthersStay, OthersScan
    <3>2. Labels(u) /\ Locals(u)
      BY DEF Marked
    <3>3. pc[u] \in {"scan", "task"} => Scans(u)
      BY DEF Scans
    <3> QED
      BY <3>1, <3>2, <3>3 DEF Labels, Locals
  <2> QED
    BY <2>1, <2>2
<1>2. ASSUME NEW u \in Threads, NEW i \in 1 .. Len(buffer'[u])
      PROVE  buffer'[u][i].routine = None <=> buffer'[u][i].version > 0
  <2>1. CASE Pop(t)
    <3>1. /\ index \in Threads /\ buffer[index] # << >>
          /\ buffer' = Set(buffer, index, Tail(buffer[index]))
      BY <1>a, <2>1, WarpAssumption DEF Pop, Eligible, TypeOK, Threads
    <3>2. PICK k \in 1 .. Len(buffer[u]) : buffer'[u][i] = buffer[u][k]
      BY <1>a, <3>1, PopFrom
    <3>3. buffer[u][k].routine = None <=> buffer[u][k].version > 0
      BY DEF Marked
    <3> QED
      BY <3>2, <3>3
  <2>2. CASE Post(t) /\ t \notin Externals
    <3> DEFINE x == Item(arg[t], ver[t])
    <3>1. x \in Items /\ buffer' = Set(buffer, t, Append(buffer[t], x))
      BY <1>a, <2>2 DEF Post, TypeOK, Item, Items
    <3>2. x.routine = None <=> x.version > 0
      BY <1>a, <2>2 DEF Post, Labels, Item
    <3> HIDE DEF x
    <3>3. \/ i \in 1 .. Len(buffer[u]) /\ buffer'[u][i] = buffer[u][i]
          \/ buffer'[u][i] = x
      BY <1>a, <3>1, PostEntries
    <3> QED
      BY <3>2, <3>3 DEF Marked
  <2>3. CASE ~Pop(t) /\ ~(Post(t) /\ t \notin Externals)
    BY <1>a, <2>3, BuffersStay DEF Marked
  <2> QED
    BY <2>1, <2>2, <2>3
<1> QED
  BY <1>1, <1>2 DEF Marked

\* The barrier c is about to queue.
Posting(c) == IF pc[c] = "post" THEN ver[c] ELSE 0

LEMMA PostingIs ==
  ASSUME TypeOK, NEW c \in Threads, NEW v \in Nat, v > 0
  PROVE  (pc[c] = "post" /\ ver[c] = v) <=> Posting(c) = v
  BY DEF TypeOK, Posting

LEMMA VersionType ==
  ASSUME TypeOK, NEW b \in Threads
  PROVE  Version(b) \in Nat /\ Posting(b) \in Nat
  BY NoneApart DEF TypeOK, Version, Posting

\* A step after which the buffers, their versions and the barriers in hand are the
\* same, and the pass is where it was or at its start.
SameGrid ==
    /\ UNCHANGED <<buffer, barrierVersion, current, fence, follows>>
    /\ \A b \in Threads : Version(b)' = Version(b) /\ Posting(b)' = Posting(b)
    /\ step' \in {step, current}
    /\ Scanning' => \/ Scanning /\ UNCHANGED <<index, step>>
                    \/ index' = 1 /\ step' = current

LEMMA SameBefore ==
  ASSUME TypeOK, TypeOK', SameGrid, Stepping, NEW b \in Threads, NEW c \in Threads,
         NEW i, NEW v \in Nat \ {0}, Before(b, i, c, v)
  PROVE  Before(b, i, c, v)'
<1>1. b \in Int /\ b >= 1 /\ current \in Nat /\ step \in Nat
  BY WarpAssumption DEF TypeOK, Threads
<1>2. /\ buffer' = buffer /\ current' = current /\ Version(b)' = Version(b)
      /\ Scanning' => \/ Scanning /\ UNCHANGED <<index, step>>
                      \/ index' = 1 /\ step' = current
  BY DEF SameGrid
<1>3. /\ Version(b) < v /\ \A k \in 1 .. i - 1 : buffer[b][k].version < v
      /\ current >= v => b < c /\ ~(Scanning /\ index > b)
      /\ Scanning /\ step >= v => b < c \/ index <= b
  BY DEF Before
<1>4. current' >= v => b < c /\ ~(Scanning' /\ index' > b)
  BY <1>1, <1>2, <1>3
<1>5. Scanning' /\ step' >= v => b < c \/ index' <= b
  BY <1>1, <1>2, <1>3
<1> QED
  BY <1>2, <1>3, <1>4, <1>5 DEF Before

LEMMA SameAfter ==
  ASSUME TypeOK, TypeOK', SameGrid, NEW c \in Threads, NEW v \in Nat \ {0}
  PROVE  /\ \A j \in Int : After(c, j, v) => After(c, j, v)'
         /\ AfterAll(c, v) => AfterAll(c, v)'
<1>1. buffer' = buffer /\ current' = current /\ Version(c)' = Version(c)
  BY DEF SameGrid
<1>2. \A j \in Int : After(c, j, v) => After(c, j, v)'
  BY <1>1 DEF After
<1>3. (pc[c] = "post" /\ ver[c] = v) <=> Posting(c) = v
  BY PostingIs
<1>4. (pc'[c] = "post" /\ ver'[c] = v) <=> Posting(c)' = v
  BY DEF TypeOK, Posting
<1>5. Posting(c)' = Posting(c)
  BY DEF SameGrid
<1>6. Len(buffer[c]) + 1 \in Int
  BY EntryType
<1> QED
  BY <1>1, <1>2, <1>3, <1>4, <1>5, <1>6 DEF AfterAll

LEMMA PendingSame ==
  ASSUME TypeOK, TypeOK', buffer' = buffer, NEW c \in Threads, Posting(c)' = Posting(c),
         NEW u \in Nat
  PROVE  Pending(c, u)' <=> Pending(c, u)
<1>1. buffer' = buffer /\ Posting(c)' = Posting(c)
  OBVIOUS
<1>2. u > 0 => ((pc'[c] = "post" /\ ver'[c] = u) <=> (pc[c] = "post" /\ ver[c] = u))
  <2>1. Posting(c) = (IF pc[c] = "post" THEN ver[c] ELSE 0)
    BY DEF Posting
  <2>2. Posting(c)' = (IF pc'[c] = "post" THEN ver'[c] ELSE 0)
    BY DEF Posting
  <2> QED
    BY <1>1, <2>1, <2>2
<1>3. (\E i \in 1 .. Len(buffer'[c]) : buffer'[c][i].version = u)
      <=> (\E i \in 1 .. Len(buffer[c]) : buffer[c][i].version = u)
  BY <1>1
<1>4. CASE u > 0
  <2>1. (pc'[c] = "post" /\ ver'[c] = u) <=> (pc[c] = "post" /\ ver[c] = u)
    BY <1>2, <1>4
  <2> QED
    BY <1>3, <2>1, Zenon DEF Pending
<1>5. CASE ~(u > 0)
  BY <1>5, Zenon DEF Pending
<1> QED
  BY <1>4, <1>5

LEMMA SameGridKeeps ==
  ASSUME TypeOK, TypeOK', SameGrid, Rising, Stepping, Ahead, FenceOrdered, BufferOrdered
  PROVE  Rising' /\ Stepping' /\ Ahead' /\ FenceOrdered' /\ BufferOrdered'
<1>a. /\ buffer' = buffer /\ current' = current /\ barrierVersion' = barrierVersion
      /\ fence' = fence /\ follows' = follows
      /\ \A b \in Threads : Version(b)' = Version(b) /\ Posting(b)' = Posting(b)
      /\ step' \in {step, current}
  BY DEF SameGrid
<1>b. /\ \A c \in Threads : Len(buffer[c]) \in Nat
      /\ current \in Nat /\ step \in Nat /\ barrierVersion \in Nat
  BY EntryType DEF TypeOK
<1>1. Rising'
  <2> SUFFICES ASSUME NEW c \in Threads, pc'[c] = "post", ver'[c] > 0
               PROVE  \A i \in 1 .. Len(buffer[c]) : buffer[c][i].version < ver'[c]
    BY <1>a DEF Rising
  <2>1. Posting(c)' = ver'[c] /\ Posting(c) = ver'[c]
    BY <1>a DEF Posting
  <2>2. Posting(c) # 0
    BY <2>1
  <2>3. pc[c] = "post" /\ ver[c] = ver'[c]
    BY <2>1, <2>2 DEF Posting
  <2> QED
    BY <2>3 DEF Rising
<1>2. Stepping'
  BY <1>a, <1>b DEF Stepping
<1>3. Ahead'
  <2>1. ASSUME NEW c \in Threads, NEW u \in Nat, Pending(c, u)'
        PROVE  /\ u <= barrierVersion' /\ u > step' /\ u > Version(c)'
               /\ \A b \in Threads : Version(b)' # u
               /\ \A d \in Threads : Pending(d, u)' => d = c
    <3>1. Pending(c, u) /\ \A d \in Threads : Pending(d, u)' <=> Pending(d, u)
      BY <1>a, <2>1, PendingSame
    <3>2. u > step /\ step >= current
      BY <1>b, <3>1 DEF Ahead, Stepping
    <3>3. u > step'
      BY <1>a, <1>b, <3>2
    <3> QED
      BY <1>a, <3>1, <3>3 DEF Ahead
  <2> QED
    BY <1>a, <2>1 DEF Ahead
<1>4. FenceOrdered'
  <2> SUFFICES ASSUME NEW c \in Threads, NEW b \in Threads, NEW i \in 1 .. Len(buffer[b]),
                      buffer[b][i].routine \in fence[c]
               PROVE  \E v \in Nat \ {0} : Before(b, i, c, v)' /\ AfterAll(c, v)'
    BY <1>a DEF FenceOrdered
  <2>1. PICK v \in Nat \ {0} : Before(b, i, c, v) /\ AfterAll(c, v)
    BY DEF FenceOrdered
  <2>2. Before(b, i, c, v)' /\ AfterAll(c, v)'
    BY <2>1, SameBefore, SameAfter
  <2> QED
    BY <2>2
<1>5. BufferOrdered'
  <2> SUFFICES ASSUME NEW c \in Threads, NEW b \in Threads, NEW j \in 1 .. Len(buffer[c]),
                      NEW i \in 1 .. Len(buffer[b]), buffer[c][j].routine # None,
                      buffer[b][i].routine \in follows[buffer[c][j].routine]
               PROVE  \E v \in Nat \ {0} : Before(b, i, c, v)' /\ After(c, j, v)'
    BY <1>a DEF BufferOrdered
  <2>1. PICK v \in Nat \ {0} : Before(b, i, c, v) /\ After(c, j, v)
    BY DEF BufferOrdered
  <2>2. Before(b, i, c, v)' /\ After(c, j, v)'
    BY <1>b, <2>1, SameBefore, SameAfter
  <2> QED
    BY <2>2
<1> QED
  BY <1>1, <1>2, <1>3, <1>4, <1>5

\* The versions and the pass, by who owns the warp; now and after a step.
LEMMA VersionOwned ==
  ASSUME WarpInv, NEW o \in Threads, owner = o
  PROVE  /\ \A b \in Threads :
               Version(b) = IF index = b /\ pc[o] = "task" /\ arg[o] = None THEN ver[o]
                            ELSE IF index = b /\ Back(o) THEN next ELSE versions[b]
         /\ Scanning <=> Scans(o)
  BY NoneApart DEF Version, Scanning, Scans, Back

LEMMA VersionOwnedNext ==
  ASSUME WarpInv', NEW o \in Threads, owner' = o
  PROVE  /\ \A b \in Threads :
               Version(b)' = IF index' = b /\ pc'[o] = "task" /\ arg'[o] = None THEN ver'[o]
                             ELSE IF index' = b /\ Back(o)' THEN next' ELSE versions'[b]
         /\ Scanning' <=> Scans(o)'
  BY NoneApart DEF Version, Scanning, Scans, Back

LEMMA VersionFree ==
  owner = None => ~Scanning /\ \A b \in Threads : Version(b) = versions[b]
  BY DEF Version, Scanning

LEMMA VersionFreeNext ==
  owner' = None => ~Scanning' /\ \A b \in Threads : Version(b)' = versions'[b]
  BY DEF Version, Scanning

LEMMA QuietSame ==
  ASSUME WarpInv, WarpInv', NEW t \in Threads, Labels(t), Quiets(t)
  PROVE  SameGrid
<1>a. Quiet(t) /\ (Call(t) \/ Step(t))
  BY QuietEffect DEF Quiets, Step
<1>b. /\ UNCHANGED <<buffer, barrierVersion, versions, current, next, index, step, fence>>
      /\ follows' = follows
      /\ pc[t] \notin {"scan", "task"} /\ pc'[t] \notin {"scan", "task"}
      /\ Back(t)' <=> Back(t)
      /\ \/ owner' = owner
         \/ ~Back(t) /\ owner = None /\ owner' = t
         \/ ~Back(t) /\ owner = t /\ owner' = None
      /\ pc[t] = "post" => ver[t] = 0
      /\ pc'[t] = "post" => ver'[t] = 0
  BY <1>a DEF Quiet
<1>c. \A u \in Threads : u # t =>
         /\ pc'[u] = pc[u] /\ arg'[u] = arg[u] /\ ver'[u] = ver[u]
         /\ (Back(u)' <=> Back(u)) /\ (Scans(u)' <=> Scans(u))
  BY <1>a, OthersStay, OthersScan
<1>d. (Scans(t) <=> Back(t)) /\ (Scans(t)' <=> Back(t)')
  BY <1>b DEF Scans
<1>e. owner \in Threads \cup {None}
  BY DEF WarpInv, TypeOK
<1>1. ASSUME NEW u \in Threads PROVE Posting(u)' = Posting(u)
  <2>1. CASE u = t
    BY <1>b, <2>1 DEF Posting
  <2>2. CASE u # t
    BY <1>c, <2>2 DEF Posting
  <2> QED
    BY <2>1, <2>2
<1>2. /\ \A b \in Threads : Version(b)' = Version(b)
      /\ Scanning' => Scanning
  <2>1. CASE owner' = owner /\ owner = None
    BY <1>b, <2>1, VersionFree, VersionFreeNext
  <2>2. CASE owner' = owner /\ owner \in Threads
    <3>1. PICK o \in Threads : o = owner
      BY <2>2
    <3>2. /\ pc[o] = "task" /\ arg[o] = None <=> pc'[o] = "task" /\ arg'[o] = None
          /\ Back(o)' <=> Back(o)
          /\ Scans(o)' <=> Scans(o)
          /\ pc[o] = "task" => ver'[o] = ver[o]
      BY <1>b, <1>c, <1>d
    <3> QED
      BY <1>b, <2>2, <3>1, <3>2, VersionOwned, VersionOwnedNext
  <2>3. CASE ~Back(t) /\ owner = None /\ owner' = t
    BY <1>b, <1>d, <2>3, VersionFree, VersionOwnedNext
  <2>4. CASE ~Back(t) /\ owner = t /\ owner' = None
    BY <1>b, <1>d, <2>4, VersionFreeNext, VersionOwned
  <2> QED
    BY <1>b, <1>e, <2>1, <2>2, <2>3, <2>4
<1> QED
  BY <1>b, <1>1, <1>2 DEF SameGrid

\* The steps of the owner that only move a version between a local, next and versions.
LEMMA OwnerSame ==
  ASSUME WarpInv, WarpInv', Marked, NEW t \in Threads, Mark(t) \/ Task(t) \/ Ran(t)
  PROVE  SameGrid
<1>a. /\ TypeOK /\ Labels(t) /\ Locals(t) /\ (Call(t) \/ Step(t))
      /\ owner = t /\ owner' = t
  BY DEF WarpInv, Marked, Place, OwnPCs, Mark, Task, Ran, Step, hot
<1>b. /\ pc \in [Threads -> PCs] /\ arg \in [Threads -> Routines \cup {None}]
      /\ ret \in [Threads -> PCs] /\ ver \in [Threads -> Nat]
      /\ versions \in [Threads -> Nat] /\ index \in 1 .. N + 1 /\ N \in Nat
  BY <1>a, WarpAssumption DEF TypeOK
<1>c. /\ UNCHANGED <<buffer, barrierVersion, current, fence, follows>>
      /\ step' \in {step, current}
  BY DEF Mark, Task, Ran, local, history
<1>d. \A u \in Threads : u # t => pc'[u] = pc[u] /\ ver'[u] = ver[u]
  BY <1>a, OthersStay, OthersScan
<1>e. Posting(t) = 0 /\ Posting(t)' = 0
  BY <1>b DEF Posting, Mark, Task, Ran, Execute, Goto, Set
<1>1. \A u \in Threads : Posting(u)' = Posting(u)
  BY <1>d, <1>e DEF Posting
<1>2. /\ \A b \in Threads : Version(b)' = Version(b)
      /\ Scanning' => \/ Scanning /\ UNCHANGED <<index, step>>
                      \/ index' = 1 /\ step' = current
  <2>1. CASE Mark(t)
    <3>1. /\ ~Back(t) /\ pc[t] # "task" /\ ~Back(t)' /\ pc'[t] # "task"
          /\ versions' = versions /\ index' = 1 /\ step' = current
      BY <1>b, <2>1 DEF Mark, Back, ReturnPCs, Goto, Set
    <3> QED
      BY <1>a, <3>1, VersionOwned, VersionOwnedNext
  <2>2. CASE Task(t)
    <3>1. /\ pc[t] = "task" /\ ~Back(t) /\ Back(t)' /\ pc'[t] # "task" /\ Scans(t)
          /\ UNCHANGED <<versions, index, step>>
          /\ arg[t] = None => next' = ver[t]
          /\ arg[t] # None => next' = next /\ (index \in Threads => next = versions[index])
      BY <1>a, <1>b, <2>2 DEF Task, Execute, Back, Scans, Locals, ReturnPCs, Goto, Set, local,
        Threads
    <3> QED
      BY <1>a, <3>1, VersionOwned, VersionOwnedNext
  <2>3. CASE Ran(t)
    <3>1. /\ pc[t] = "ran" /\ Back(t) /\ Scans(t) /\ ~Back(t)' /\ pc'[t] # "task"
          /\ UNCHANGED <<index, step>>
          /\ \A b \in Threads : versions'[b] = IF b = index THEN next ELSE versions[b]
      BY <1>b, <2>3 DEF Ran, Back, Scans, ReturnPCs, Goto, Set
    <3> QED
      BY <1>a, <3>1, VersionOwned, VersionOwnedNext
  <2> QED
    BY <2>1, <2>2, <2>3
<1> QED
  BY <1>c, <1>1, <1>2 DEF SameGrid

\* A step that leaves the versions of the buffers and the pass alone.
SamePass ==
    /\ UNCHANGED <<current, index, step>>
    /\ Scanning' <=> Scanning
    /\ \A b \in Threads : Version(b)' = Version(b)

LEMMA QueueSame ==
  ASSUME WarpInv, WarpInv', Marked, NEW t \in Threads,
         TakeVersion(t) \/ (Post(t) /\ t \notin Externals)
  PROVE  /\ SamePass
         /\ \A u \in Threads : u # t => pc'[u] = pc[u] /\ ver'[u] = ver[u]
<1>a. TypeOK /\ Place(t) /\ Labels(t) /\ (Call(t) \/ Step(t))
  BY DEF WarpInv, Marked, Step
<1>b. /\ UNCHANGED <<owner, current, versions, next, index, step>>
      /\ Back(t)' <=> Back(t)
      /\ pc[t] \notin {"scan", "task"} /\ pc'[t] \notin {"scan", "task"}
  BY <1>a DEF TakeVersion, Post, TypeOK, Place, FreshPCs, Back, ReturnPCs, Goto, Set, hot, local
<1>c. \A u \in Threads : u # t =>
         /\ pc'[u] = pc[u] /\ arg'[u] = arg[u] /\ ver'[u] = ver[u]
         /\ (Back(u)' <=> Back(u)) /\ (Scans(u)' <=> Scans(u))
  BY <1>a, OthersStay, OthersScan
<1>d. (Scans(t) <=> Back(t)) /\ (Scans(t)' <=> Back(t)')
  BY <1>b DEF Scans
<1>1. CASE owner = None
  BY <1>b, <1>c, <1>1, VersionFree, VersionFreeNext DEF SamePass
<1>2. CASE owner \in Threads
  <2>1. PICK o \in Threads : o = owner /\ o = owner'
    BY <1>2, <1>b
  <2>2. /\ pc[o] = "task" /\ arg[o] = None <=> pc'[o] = "task" /\ arg'[o] = None
        /\ Back(o)' <=> Back(o)
        /\ Scans(o)' <=> Scans(o)
        /\ pc[o] = "task" => ver'[o] = ver[o]
    BY <1>b, <1>c, <1>d
  <2>3. \A b \in Threads : Version(b)' = Version(b)
    BY <1>b, <2>1, <2>2, VersionOwned, VersionOwnedNext
  <2>4. Scanning' <=> Scanning
    BY <2>1, <2>2, VersionOwned, VersionOwnedNext
  <2> QED
    BY <1>b, <1>c, <2>3, <2>4 DEF SamePass
<1> QED
  BY <1>a, <1>1, <1>2 DEF TypeOK

\* queue_barrier() takes the next version: no barrier has it, and none in a buffer
\* is greater.
LEMMA VersionGrid ==
  ASSUME WarpInv, WarpInv', GridInv, NEW t \in Threads, TakeVersion(t)
  PROVE  Rising' /\ Stepping' /\ Ahead' /\ FenceOrdered' /\ BufferOrdered'
<1>w. PICK w \in Nat : w = barrierVersion + 1
  BY DEF WarpInv, TypeOK
<1>a. /\ TypeOK /\ TypeOK' /\ Marked /\ Rising /\ Stepping /\ Ahead
      /\ FenceOrdered /\ BufferOrdered
  BY DEF WarpInv, GridInv
<1>b. /\ UNCHANGED <<buffer, current, index, step, follows>>
      /\ Scanning' <=> Scanning
      /\ \A b \in Threads : Version(b)' = Version(b)
      /\ \A u \in Threads : u # t => pc'[u] = pc[u] /\ ver'[u] = ver[u]
  BY <1>a, QueueSame DEF SamePass, TakeVersion
<1>c. /\ pc[t] = "version" /\ pc'[t] = "post" /\ ver'[t] = w /\ barrierVersion' = w
      /\ fence'[t] = fence[t] \cup Buffered
      /\ \A u \in Threads : u # t => fence'[u] = fence[u]
  BY <1>a, <1>w DEF TakeVersion, TypeOK, Goto, Set
<1>d. /\ w \in Nat /\ w > 0 /\ barrierVersion \in Nat /\ w > barrierVersion
      /\ current \in Nat /\ step \in Nat /\ current < w /\ step < w
      /\ \A b \in Threads : Version(b) \in Nat /\ Version(b) < w
      /\ \A b \in Threads : Len(buffer[b]) \in Nat
  <2>1. barrierVersion \in Nat /\ current \in Nat /\ step \in Nat
    BY <1>a DEF TypeOK
  <2>2. current <= barrierVersion /\ step <= barrierVersion
    BY <1>a, <2>1 DEF Stepping
  <2>3. \A b \in Threads : Version(b) \in Nat /\ Version(b) <= barrierVersion
    BY <1>a, VersionType DEF Ahead
  <2>4. \A b \in Threads : Version(b) \in Nat /\ Version(b) < w
    BY <1>w, <2>1, <2>3
  <2>5. \A b \in Threads : Len(buffer[b]) \in Nat
    BY <1>a, EntryType
  <2> QED
    BY <1>w, <2>1, <2>2, <2>4, <2>5
<1>e. \A b \in Threads : \A i \in 1 .. Len(buffer[b]) : buffer[b][i].version < w
  <2> TAKE b \in Threads
  <2> TAKE i \in 1 .. Len(buffer[b])
  <2>1. buffer[b][i].version \in Nat
    BY <1>a, EntryType
  <2>2. buffer[b][i].version > 0 => Pending(b, buffer[b][i].version)
    BY DEF Pending
  <2>3. buffer[b][i].version > 0 => buffer[b][i].version <= barrierVersion
    BY <1>a, <2>1, <2>2 DEF Ahead
  <2> QED
    BY <1>d, <2>1, <2>3
<1>f. ASSUME NEW c \in Threads, NEW u \in Nat, Pending(c, u)'
      PROVE  Pending(c, u) \/ (c = t /\ u = w)
  BY <1>b, <1>c, <1>f DEF Pending
<1>g. \A c \in Threads, b \in Threads : \A i, v : Before(b, i, c, v) => Before(b, i, c, v)'
  BY <1>b DEF Before
<1>h. \A c \in Threads : \A j, v : After(c, j, v) => After(c, j, v)'
  BY <1>b DEF After
<1>1. Rising'
  <2> SUFFICES ASSUME NEW c \in Threads, pc'[c] = "post", ver'[c] > 0
               PROVE  \A i \in 1 .. Len(buffer[c]) : buffer[c][i].version < ver'[c]
    BY <1>a, <1>b DEF Rising
  <2>1. CASE c = t
    BY <1>c, <1>e, <2>1
  <2>2. CASE c # t
    BY <1>a, <1>b, <2>2 DEF Rising
  <2> QED
    BY <2>1, <2>2
<1>2. Stepping'
  BY <1>a, <1>b, <1>c, <1>d DEF Stepping
<1>3. Ahead'
  <2>1. ASSUME NEW c \in Threads, NEW u \in Nat, Pending(c, u)'
        PROVE  /\ u <= barrierVersion' /\ u > step' /\ u > Version(c)'
               /\ \A b \in Threads : Version(b)' # u
               /\ \A d \in Threads : Pending(d, u)' => d = c
    <3>1. CASE Pending(c, u)
      <4>1. /\ u <= barrierVersion /\ u > step /\ u > Version(c)
            /\ \A b \in Threads : Version(b) # u
            /\ \A d \in Threads : Pending(d, u) => d = c
        BY <1>a, <3>1 DEF Ahead
      <4>2. u # w /\ u <= w
        BY <1>d, <4>1
      <4>3. \A d \in Threads : Pending(d, u)' => d = c
        BY <1>f, <4>1, <4>2
      <4> QED
        BY <1>b, <1>c, <4>1, <4>2, <4>3
    <3>2. CASE c = t /\ u = w
      <4>1. \A d \in Threads : ~Pending(d, w)
        BY <1>a, <1>d DEF Ahead
      <4>2. \A d \in Threads : Pending(d, u)' => d = c
        BY <1>f, <3>2, <4>1
      <4> QED
        BY <1>b, <1>c, <1>d, <3>2, <4>2
    <3> QED
      BY <1>f, <2>1, <3>1, <3>2
  <2>2. \A b \in Threads : Version(b)' <= barrierVersion'
    BY <1>b, <1>c, <1>d
  <2>3. \A b, c \in Threads : Version(b)' = Version(c)' /\ Version(b)' > current' => b = c
    BY <1>a, <1>b DEF Ahead
  <2> QED
    BY <2>1, <2>2, <2>3 DEF Ahead
<1>4. FenceOrdered'
  <2> SUFFICES ASSUME NEW c \in Threads, NEW b \in Threads, NEW i \in 1 .. Len(buffer[b]),
                      buffer[b][i].routine \in fence'[c]
               PROVE  \E v \in Nat \ {0} : Before(b, i, c, v)' /\ AfterAll(c, v)'
    BY <1>b DEF FenceOrdered
  <2>1. CASE buffer[b][i].routine \in fence[c]
    <3>1. PICK v \in Nat \ {0} : Before(b, i, c, v) /\ AfterAll(c, v)
      BY <1>a, <2>1 DEF FenceOrdered
    <3>2. AfterAll(c, v)'
      <4>1. CASE After(c, Len(buffer[c]) + 1, v)
        <5>1. After(c, Len(buffer[c]) + 1, v)'
          BY <1>b, <4>1 DEF After
        <5> QED
          BY <5>1 DEF AfterAll
      <4>2. CASE pc[c] = "post" /\ ver[c] = v
        <5>1. c # t
          BY <1>c, <4>2
        <5> QED
          BY <1>b, <4>2, <5>1 DEF AfterAll
      <4> QED
        BY <3>1, <4>1, <4>2 DEF AfterAll
    <3> QED
      BY <1>g, <3>1, <3>2
  <2>2. CASE c = t
    <3>1. \A k \in 1 .. i - 1 : k \in 1 .. Len(buffer[b])
      BY <1>d
    <3>2. Before(b, i, c, w)
      <4>1. ~(current >= w) /\ ~(step >= w) /\ Version(b) < w
        BY <1>d
      <4>2. \A k \in 1 .. i - 1 : buffer[b][k].version < w
        BY <1>e, <3>1
      <4> QED
        BY <4>1, <4>2, Zenon DEF Before
    <3>3. AfterAll(c, w)'
      BY <1>c, <2>2 DEF AfterAll
    <3>4. w \in Nat \ {0} /\ Before(b, i, c, w)'
      BY <1>d, <1>g, <3>2
    <3> QED
      BY <3>3, <3>4
  <2> QED
    BY <1>c, <2>1, <2>2
<1>5. BufferOrdered'
  <2> SUFFICES ASSUME NEW c \in Threads, NEW b \in Threads, NEW j \in 1 .. Len(buffer[c]),
                      NEW i \in 1 .. Len(buffer[b]), buffer[c][j].routine # None,
                      buffer[b][i].routine \in follows[buffer[c][j].routine]
               PROVE  \E v \in Nat \ {0} : Before(b, i, c, v)' /\ After(c, j, v)'
    BY <1>b DEF BufferOrdered
  <2>1. PICK v \in Nat \ {0} : Before(b, i, c, v) /\ After(c, j, v)
    BY <1>a DEF BufferOrdered
  <2> QED
    BY <1>g, <1>h, <2>1
<1> QED
  BY <1>1, <1>2, <1>3, <1>4, <1>5

\* queue_routine_post(): the entry comes after all that its buffer has, and what
\* it brings was in no buffer and in no fence.
LEMMA PostGrid ==
  ASSUME WarpInv, WarpInv', GridInv, NEW p, Placed(p),
         NEW t \in Threads, Post(t), t \notin Externals
  PROVE  Rising' /\ Stepping' /\ Ahead' /\ FenceOrdered' /\ BufferOrdered'
<1>a. /\ TypeOK /\ TypeOK' /\ Marked /\ Rising /\ Stepping /\ Ahead
      /\ FenceOrdered /\ BufferOrdered /\ Labels(t)
  BY DEF WarpInv, GridInv, Marked
<1>b. /\ UNCHANGED <<current, index, step, barrierVersion, fence>>
      /\ Scanning' <=> Scanning
      /\ \A b \in Threads : Version(b)' = Version(b)
      /\ \A u \in Threads : u # t => pc'[u] = pc[u] /\ ver'[u] = ver[u]
  BY <1>a, QueueSame DEF SamePass, Post
<1>x. PICK x \in Items : x = Item(arg[t], ver[t])
  BY <1>a DEF TypeOK, Item, Items
<1>y. PICK m \in Nat : m = Len(buffer[t]) + 1
  BY <1>a, EntryType
<1>c. /\ pc[t] = "post" /\ pc'[t] = "flush"
      /\ x.routine = arg[t] /\ x.version = ver[t]
      /\ buffer' = Set(buffer, t, Append(buffer[t], x))
      /\ arg[t] = None => follows' = follows
      /\ arg[t] # None => /\ follows'[arg[t]] = fence[t]
                          /\ \A r \in Routines : r # arg[t] => follows'[r] = follows[r]
      /\ arg[t] \in Routines \cup {None} /\ ver[t] \in Nat
      /\ arg[t] = None <=> ver[t] > 0
  BY <1>a, <1>x DEF Post, TypeOK, Goto, Set, Labels, Item
<1>d. /\ Len(buffer'[t]) = m /\ buffer'[t][m] = x /\ m \in 1 .. Len(buffer'[t])
      /\ \A u \in Threads : Len(buffer[u]) \in Nat /\ Len(buffer'[u]) \in Nat
      /\ \A u \in Threads : u # t => buffer'[u] = buffer[u]
      /\ \A u \in Threads : \A i \in 1 .. Len(buffer'[u]) :
            i \in 1 .. Len(buffer[u]) \/ (u = t /\ i = m)
      /\ \A u \in Threads : \A i \in 1 .. Len(buffer[u]) :
            i \in 1 .. Len(buffer'[u]) /\ buffer'[u][i] = buffer[u][i]
  BY <1>a, <1>c, <1>y, PostEntries
\* The routine is in the hand of t: nothing in a buffer, or before anything, is it.
<1>e. arg[t] # None =>
         /\ p[arg[t]] = "hand"
         /\ \A c \in Threads : arg[t] \notin fence[c]
         /\ \A q \in Routines : arg[t] \notin follows[q]
         /\ \A b \in Threads : \A i \in 1 .. Len(buffer[b]) : buffer[b][i].routine # arg[t]
  <2> SUFFICES ASSUME arg[t] # None
               PROVE  /\ p[arg[t]] = "hand"
                      /\ \A c \in Threads : arg[t] \notin fence[c]
                      /\ \A q \in Routines : arg[t] \notin follows[q]
                      /\ \A b \in Threads : \A i \in 1 .. Len(buffer[b]) :
                            buffer[b][i].routine # arg[t]
    OBVIOUS
  <2>1. Holds(t) = arg[t]
    BY <1>c DEF Holds, HandPCs
  <2>2. p[arg[t]] = "hand"
    BY <2>1 DEF Placed, HandAt
  <2>3. "hand" \notin Late
    BY DEF Late
  <2>4. \A b \in Threads : \A i \in 1 .. Len(buffer[b]) : buffer[b][i].routine # arg[t]
    BY <2>2 DEF Placed, BufferAt
  <2>5. \A c \in Threads : arg[t] \notin fence[c]
    BY <2>2, <2>3 DEF Placed, FenceAt
  <2>6. \A q \in Routines : arg[t] \notin follows[q]
    BY <2>2, <2>3 DEF Placed, FenceAt
  <2> QED
    BY <2>2, <2>4, <2>5, <2>6
<1>f. ASSUME NEW c \in Threads, NEW u \in Nat, Pending(c, u)'
      PROVE  Pending(c, u)
  <2>1. u > 0
    BY <1>f DEF Pending
  <2>2. CASE \E i \in 1 .. Len(buffer'[c]) : buffer'[c][i].version = u
    <3>1. PICK i \in 1 .. Len(buffer'[c]) : buffer'[c][i].version = u
      BY <2>2
    <3>2. CASE i \in 1 .. Len(buffer[c])
      BY <1>d, <2>1, <3>1, <3>2 DEF Pending
    <3>3. CASE c = t /\ i = m
      BY <1>c, <1>d, <2>1, <3>1, <3>3 DEF Pending
    <3> QED
      BY <1>d, <3>2, <3>3
  <2>3. CASE pc'[c] = "post" /\ ver'[c] = u
    BY <1>b, <1>c, <2>1, <2>3 DEF Pending
  <2> QED
    BY <1>f, <2>2, <2>3 DEF Pending
<1>g. ASSUME NEW c \in Threads, NEW b \in Threads, NEW i \in 1 .. Len(buffer[b]), NEW v,
             Before(b, i, c, v)
      PROVE  Before(b, i, c, v)'
  <2>1. \A k \in 1 .. i - 1 : k \in 1 .. Len(buffer[b])
    BY <1>d
  <2>2. \A k \in 1 .. i - 1 : buffer'[b][k].version < v
    BY <1>d, <1>g, <2>1 DEF Before
  <2> QED
    BY <1>b, <1>g, <2>2 DEF Before
<1>h. ASSUME NEW c \in Threads, NEW j \in 1 .. Len(buffer[c]) + 1, NEW v, After(c, j, v)
      PROVE  After(c, j, v)'
  <2>1. \A k \in 1 .. j - 1 : k \in 1 .. Len(buffer[c])
    BY <1>d
  <2>2. (\E k \in 1 .. j - 1 : buffer[c][k].version = v)
           => \E k \in 1 .. j - 1 : buffer'[c][k].version = v
    BY <1>d, <2>1
  <2> QED
    BY <1>b, <1>h, <2>2 DEF After
<1>1. Rising'
  <2>1. ASSUME NEW c \in Threads, NEW i \in 1 .. Len(buffer'[c]),
               NEW j \in 1 .. Len(buffer'[c]), i < j, buffer'[c][j].version > 0
        PROVE  buffer'[c][i].version < buffer'[c][j].version
    <3>1. CASE j \in 1 .. Len(buffer[c])
      <4>1. i \in 1 .. Len(buffer[c])
        BY <1>d, <2>1, <3>1
      <4> QED
        BY <1>a, <1>d, <2>1, <3>1, <4>1 DEF Rising
    <3>2. CASE c = t /\ j = m
      <4>1. i \in 1 .. Len(buffer[t]) /\ buffer'[c][i] = buffer[t][i]
        BY <1>d, <1>y, <2>1, <3>2
      <4>2. buffer'[c][j].version = ver[t] /\ ver[t] > 0
        BY <1>c, <1>d, <2>1, <3>2
      <4>3. buffer[t][i].version < ver[t]
        BY <1>a, <1>c, <4>1, <4>2 DEF Rising
      <4> QED
        BY <4>1, <4>2, <4>3
    <3> QED
      BY <1>d, <3>1, <3>2
  <2>2. ASSUME NEW c \in Threads, pc'[c] = "post", ver'[c] > 0
        PROVE  \A i \in 1 .. Len(buffer'[c]) : buffer'[c][i].version < ver'[c]
    <3>1. c # t
      BY <1>c, <2>2
    <3> QED
      BY <1>a, <1>b, <1>d, <2>2, <3>1 DEF Rising
  <2> QED
    BY <2>1, <2>2 DEF Rising
<1>2. Stepping'
  BY <1>a, <1>b DEF Stepping
<1>3. Ahead'
  <2>1. ASSUME NEW c \in Threads, NEW u \in Nat, Pending(c, u)'
        PROVE  /\ u <= barrierVersion' /\ u > step' /\ u > Version(c)'
               /\ \A b \in Threads : Version(b)' # u
               /\ \A d \in Threads : Pending(d, u)' => d = c
    BY <1>a, <1>b, <1>f, <2>1 DEF Ahead
  <2>2. \A b \in Threads : Version(b)' <= barrierVersion'
    BY <1>a, <1>b DEF Ahead
  <2>3. \A b, c \in Threads : Version(b)' = Version(c)' /\ Version(b)' > current' => b = c
    BY <1>a, <1>b DEF Ahead
  <2> QED
    BY <2>1, <2>2, <2>3 DEF Ahead
<1>4. FenceOrdered'
  <2> SUFFICES ASSUME NEW c \in Threads, NEW b \in Threads, NEW i \in 1 .. Len(buffer'[b]),
                      buffer'[b][i].routine \in fence[c]
               PROVE  \E v \in Nat \ {0} : Before(b, i, c, v)' /\ AfterAll(c, v)'
    BY <1>b DEF FenceOrdered
  <2>1. i \in 1 .. Len(buffer[b]) /\ buffer'[b][i] = buffer[b][i]
    <3>1. fence[c] \subseteq Routines
      BY <1>a DEF TypeOK
    <3>2. ~(b = t /\ i = m)
      BY <1>c, <1>d, <1>e, <3>1, NoneApart
    <3> QED
      BY <1>d, <3>2
  <2>2. PICK v \in Nat \ {0} : Before(b, i, c, v) /\ AfterAll(c, v)
    BY <1>a, <2>1 DEF FenceOrdered
  <2>3. AfterAll(c, v)'
    <3>1. CASE c # t
      <4>1. buffer'[c] = buffer[c] /\ pc'[c] = pc[c] /\ ver'[c] = ver[c]
        BY <1>b, <1>d, <3>1
      <4>2. After(c, Len(buffer[c]) + 1, v) => After(c, Len(buffer[c]) + 1, v)'
        BY <1>b, <4>1 DEF After
      <4> QED
        BY <2>2, <4>1, <4>2 DEF AfterAll
    <3>2. CASE c = t /\ After(c, m, v)
      <4>1. After(c, m, v)'
        BY <1>d, <1>h, <1>y, <3>2
      <4>2. \A k \in 1 .. m - 1 : k \in 1 .. (m + 1) - 1
        BY <1>y
      <4>3. After(c, m + 1, v)'
        BY <4>1, <4>2 DEF After
      <4> QED
        BY <1>d, <3>2, <4>3 DEF AfterAll
    <3>3. CASE c = t /\ pc[c] = "post" /\ ver[c] = v
      <4>1. m \in 1 .. (m + 1) - 1 /\ buffer'[c][m].version = v
        BY <1>c, <1>d, <3>3
      <4>2. After(c, m + 1, v)'
        BY <4>1 DEF After
      <4> QED
        BY <1>d, <3>3, <4>2 DEF AfterAll
    <3> QED
      BY <1>y, <2>2, <3>1, <3>2, <3>3 DEF AfterAll
  <2> QED
    BY <1>g, <2>1, <2>2, <2>3
<1>5. BufferOrdered'
  <2> SUFFICES ASSUME NEW c \in Threads, NEW b \in Threads, NEW j \in 1 .. Len(buffer'[c]),
                      NEW i \in 1 .. Len(buffer'[b]), buffer'[c][j].routine # None,
                      buffer'[b][i].routine \in follows'[buffer'[c][j].routine]
               PROVE  \E v \in Nat \ {0} : Before(b, i, c, v)' /\ After(c, j, v)'
    BY DEF BufferOrdered
  <2>1. CASE j \in 1 .. Len(buffer[c])
    <3> DEFINE q == buffer[c][j].routine
    <3>1. q \in Routines /\ buffer'[c][j].routine = q /\ follows'[q] = follows[q]
      <4>1. buffer'[c][j].routine = q
        BY <1>d, <2>1
      <4>2. q \in Routines
        BY <1>a, <2>1, <4>1, EntryType
      <4>3. q # arg[t]
        BY <1>e, <2>1, <4>2, NoneApart
      <4> QED
        BY <1>c, <4>1, <4>2, <4>3
    <3>2. i \in 1 .. Len(buffer[b]) /\ buffer'[b][i] = buffer[b][i]
      <4>1. follows[q] \subseteq Routines
        BY <1>a, <3>1 DEF TypeOK
      <4>2. ~(b = t /\ i = m)
        BY <1>c, <1>d, <1>e, <3>1, <4>1, NoneApart
      <4> QED
        BY <1>d, <4>2
    <3>3. q # None /\ buffer[b][i].routine \in follows[q]
      BY <3>1, <3>2
    <3>4. PICK v \in Nat \ {0} : Before(b, i, c, v) /\ After(c, j, v)
      BY <1>a, <2>1, <3>2, <3>3 DEF BufferOrdered
    <3>5. Before(b, i, c, v)'
      BY <1>g, <3>2, <3>4
    <3>6. After(c, j, v)'
      BY <1>d, <1>h, <2>1, <3>4
    <3> QED
      BY <3>5, <3>6
  <2>2. CASE c = t /\ j = m
    <3>1. arg[t] # None /\ buffer'[c][j].routine = arg[t] /\ follows'[arg[t]] = fence[t]
      BY <1>c, <1>d, <2>2
    <3>2. i \in 1 .. Len(buffer[b]) /\ buffer'[b][i] = buffer[b][i]
      <4>1. ~(b = t /\ i = m)
        BY <1>c, <1>d, <1>e, <3>1
      <4> QED
        BY <1>d, <4>1
    <3>3. PICK v \in Nat \ {0} : Before(b, i, t, v) /\ AfterAll(t, v)
      BY <1>a, <3>1, <3>2 DEF FenceOrdered
    <3>4. After(t, m, v)
      BY <1>c, <1>y, <3>1, <3>3 DEF AfterAll
    <3>5. Before(b, i, t, v)'
      BY <1>g, <3>2, <3>3
    <3>6. After(t, m, v)'
      BY <1>d, <1>h, <1>y, <3>4
    <3> QED
      BY <2>2, <3>5, <3>6
  <2> QED
    BY <1>d, <2>1, <2>2
<1> QED
  BY <1>1, <1>2, <1>3, <1>4, <1>5

\* A pop: the version of a barrier becomes that of its buffer, which the pass had
\* come to only when current had reached its version.
LEMMA PopGrid ==
  ASSUME WarpInv, WarpInv', GridInv, NEW t \in Threads, Pop(t)
  PROVE  Rising' /\ Stepping' /\ Ahead' /\ FenceOrdered' /\ BufferOrdered'
<1>a. /\ TypeOK /\ TypeOK' /\ Marked /\ Rising /\ Stepping /\ Ahead
      /\ FenceOrdered /\ BufferOrdered /\ owner = t /\ owner' = t
      /\ (Call(t) \/ Step(t)) /\ Labels(t)
  BY DEF WarpInv, GridInv, Place, OwnPCs, Pop, hot, Step, Marked
<1>k. PICK k \in Threads : k = index
  BY <1>a, WarpAssumption DEF Pop, TypeOK, Threads
<1>x. PICK x \in Items : x = buffer[k][1] /\ x = Head(buffer[k]) /\ buffer[k] # << >>
                         /\ 1 \in 1 .. Len(buffer[k])
  <2>1. buffer[k] # << >> /\ buffer[k] \in Seq(Items)
    BY <1>a, <1>k DEF Pop, Eligible, TypeOK
  <2> QED
    BY <2>1, TailAt
<1>c. /\ pc[t] = "scan" /\ pc'[t] = "task" /\ current >= versions[k]
      /\ arg'[t] = x.routine /\ ver'[t] = x.version
      /\ buffer' = Set(buffer, k, Tail(buffer[k]))
      /\ UNCHANGED <<barrierVersion, versions, current, next, index, step, fence, follows>>
  BY <1>a, <1>k, <1>x DEF Pop, Eligible, TypeOK, Goto, Set, local, history
<1>d. x.version \in Nat /\ (x.routine = None <=> x.version > 0)
  BY <1>a, <1>x DEF Items, Marked
<1>e. \A u \in Threads : u # t => pc'[u] = pc[u] /\ ver'[u] = ver[u]
  BY <1>a, OthersStay, OthersScan
\* Versions before and after.
<1>v. /\ \A b \in Threads : Version(b) = versions[b]
      /\ \A b \in Threads : b # k => Version(b)' = Version(b)
      /\ x.version > 0 => Version(k)' = x.version
      /\ x.version = 0 => Version(k)' = Version(k)
      /\ Scanning /\ Scanning'
  <2>1. ~Back(t) /\ ~Back(t)' /\ Scans(t) /\ Scans(t)'
    BY <1>c DEF Back, Scans, ReturnPCs
  <2>2. \A b \in Threads : Version(b) = versions[b]
    BY <1>a, <1>c, <2>1, VersionOwned
  <2>3. \A b \in Threads :
           Version(b)' = IF k = b /\ x.routine = None THEN x.version ELSE versions[b]
    BY <1>a, <1>c, <1>k, <2>1, VersionOwnedNext
  <2>4. Scanning /\ Scanning'
    BY <1>a, <2>1, VersionOwned, VersionOwnedNext
  <2> QED
    BY <1>d, <2>2, <2>3, <2>4
<1>n. /\ current \in Nat /\ step \in Nat /\ barrierVersion \in Nat /\ k \in Int
      /\ \A b \in Threads : Version(b) \in Nat
      /\ current >= Version(k)
  BY <1>a, <1>c, <1>v, VersionType DEF TypeOK, Threads
\* Where the entries were.
<1>f. ASSUME NEW b \in Threads, NEW i \in 1 .. Len(buffer'[b])
      PROVE  /\ b = k => /\ i + 1 \in 1 .. Len(buffer[b]) /\ 1 < i + 1
                         /\ buffer'[b][i] = buffer[b][i + 1]
             /\ b # k => i \in 1 .. Len(buffer[b]) /\ buffer'[b][i] = buffer[b][i]
             /\ i \in Nat
  <2>1. PICK j \in 1 .. Len(buffer[b]) : /\ buffer'[b][i] = buffer[b][j] /\ i \in Nat
                                         /\ b = k => j = i + 1 /\ i >= 1
                                         /\ b # k => j = i
    BY <1>a, <1>c, <1>x, PopFrom
  <2> QED
    BY <2>1
<1>g. \A b \in Threads : b # k => buffer'[b] = buffer[b]
  BY <1>a, <1>c, <1>x, PopEntries
\* The barrier popped was pending, the least in its buffer.
<1>h. x.version > 0 =>
         /\ x.version <= barrierVersion /\ x.version > Version(k)
         /\ \A b \in Threads : Version(b) # x.version
         /\ \A d \in Threads : Pending(d, x.version) => d = k
  <2> SUFFICES ASSUME x.version > 0
               PROVE  /\ x.version <= barrierVersion /\ x.version > Version(k)
                      /\ \A b \in Threads : Version(b) # x.version
                      /\ \A d \in Threads : Pending(d, x.version) => d = k
    OBVIOUS
  <2>1. Pending(k, x.version)
    BY <1>x DEF Pending
  <2> QED
    BY <1>a, <1>d, <2>1 DEF Ahead
<1>i. ASSUME NEW c \in Threads, NEW u \in Nat, Pending(c, u)'
      PROVE  Pending(c, u) /\ (c = k => u > x.version)
  <2>1. u > 0
    BY <1>i DEF Pending
  <2>2. CASE \E i \in 1 .. Len(buffer'[c]) : buffer'[c][i].version = u
    <3>1. PICK i \in 1 .. Len(buffer'[c]) : buffer'[c][i].version = u
      BY <2>2
    <3>2. CASE c = k
      <4>1. /\ i + 1 \in 1 .. Len(buffer[k]) /\ 1 < i + 1
            /\ buffer[k][i + 1].version = u
        BY <1>f, <3>1, <3>2
      <4>2. x.version < u
        BY <1>a, <1>x, <2>1, <4>1 DEF Rising
      <4> QED
        BY <2>1, <3>2, <4>1, <4>2 DEF Pending
    <3>3. CASE c # k
      BY <1>f, <2>1, <3>1, <3>3 DEF Pending
    <3> QED
      BY <3>2, <3>3
  <2>3. CASE pc'[c] = "post" /\ ver'[c] = u
    <3>1. pc[c] = "post" /\ ver[c] = u
      BY <1>c, <1>e, <2>3
    <3>2. Pending(c, u)
      BY <2>1, <3>1 DEF Pending
    <3>3. c = k => x.version < u
      BY <1>a, <1>x, <2>1, <3>1 DEF Rising
    <3> QED
      BY <3>2, <3>3
  <2> QED
    BY <1>i, <2>2, <2>3 DEF Pending
\* What is before a barrier stays before it, and what is after stays after.
<1>p. ASSUME NEW b \in Threads, NEW i \in 1 .. Len(buffer'[b]), NEW c \in Threads,
             NEW v \in Nat \ {0}, NEW j \in 1 .. Len(buffer[b]),
             b = k => j = i + 1, b # k => j = i, Before(b, j, c, v)
      PROVE  Before(b, i, c, v)'
  <2>0. i \in Nat /\ i >= 1
    BY <1>f
  <2>1. Version(b)' < v
    <3>1. CASE b # k \/ x.version = 0
      BY <1>v, <1>p, <3>1 DEF Before
    <3>2. CASE b = k /\ x.version > 0
      <4>1. 1 \in 1 .. j - 1
        BY <1>p, <2>0, <3>2
      <4> QED
        BY <1>v, <1>p, <1>x, <3>2, <4>1 DEF Before
    <3> QED
      BY <1>d, <3>1, <3>2
  <2>2. ASSUME NEW l \in 1 .. i - 1 PROVE buffer'[b][l].version < v
    <3>0. Len(buffer'[b]) \in Nat
      BY <1>a, <1>c, <1>x, PopEntries
    <3>1. l \in 1 .. Len(buffer'[b])
      BY <2>0, <3>0
    <3>2. CASE b = k
      <4>1. buffer'[b][l] = buffer[b][l + 1] /\ l + 1 \in 1 .. j - 1
        BY <1>f, <1>p, <2>0, <3>1, <3>2
      <4> QED
        BY <1>p, <4>1 DEF Before
    <3>3. CASE b # k
      <4>1. buffer'[b][l] = buffer[b][l] /\ l \in 1 .. j - 1
        BY <1>f, <1>p, <3>1, <3>3
      <4> QED
        BY <1>p, <4>1 DEF Before
    <3> QED
      BY <3>2, <3>3
  <2>3. /\ current >= v => b < c /\ ~(Scanning /\ index > b)
        /\ Scanning /\ step >= v => b < c \/ index <= b
    BY <1>p DEF Before
  <2> QED
    BY <1>c, <1>v, <2>1, <2>2, <2>3 DEF Before
<1>q. ASSUME NEW c \in Threads, NEW v \in Nat \ {0}, NEW j \in Nat, NEW i \in Nat,
             c = k => j = i + 1, c # k => j = i, i >= 1, j - 1 <= Len(buffer[c]),
             After(c, j, v)
      PROVE  After(c, i, v)'
  <2>1. CASE c # k
    BY <1>c, <1>g, <1>q, <1>v, <2>1 DEF After
  <2>2. CASE c = k
    <3>0. Version(k)' = Version(k) \/ (Version(k)' = x.version /\ x.version > Version(k))
      BY <1>d, <1>h, <1>v
    <3>1. CASE Version(k) = v \/ (Version(k) >= v /\ current >= v)
      <4>1. Version(k)' = v \/ (Version(k)' >= v /\ current >= v)
        BY <1>d, <1>n, <3>0, <3>1
      <4> QED
        BY <1>c, <2>2, <4>1 DEF After
    <3>2. CASE \E l \in 1 .. j - 1 : buffer[c][l].version = v
      <4>1. PICK l \in 1 .. j - 1 : buffer[c][l].version = v
        BY <3>2
      <4>2. CASE l = 1
        <5>1. Version(k)' = v
          BY <1>x, <1>v, <2>2, <4>1, <4>2
        <5> QED
          BY <2>2, <5>1 DEF After
      <4>3. CASE l # 1
        <5>1. l \in 1 .. Len(buffer[k]) /\ l - 1 \in 1 .. i - 1
          BY <1>a, <1>q, <2>2, <4>3, EntryType
        <5>2. buffer'[k][l - 1] = buffer[k][l]
          BY <1>a, <1>c, <1>x, <4>3, <5>1, PopEntries
        <5> QED
          BY <2>2, <4>1, <5>1, <5>2 DEF After
      <4> QED
        BY <4>2, <4>3
    <3> QED
      BY <1>q, <2>2, <3>1, <3>2 DEF After
  <2> QED
    BY <2>1, <2>2
<1>1. Rising'
  <2>1. ASSUME NEW c \in Threads, NEW i \in 1 .. Len(buffer'[c]),
               NEW j \in 1 .. Len(buffer'[c]), i < j, buffer'[c][j].version > 0
        PROVE  buffer'[c][i].version < buffer'[c][j].version
    <3>1. CASE c = k
      <4>1. /\ i + 1 \in 1 .. Len(buffer[c]) /\ buffer'[c][i] = buffer[c][i + 1]
            /\ j + 1 \in 1 .. Len(buffer[c]) /\ buffer'[c][j] = buffer[c][j + 1]
            /\ i + 1 < j + 1
        BY <1>f, <2>1, <3>1
      <4> QED
        BY <1>a, <2>1, <4>1 DEF Rising
    <3>2. CASE c # k
      BY <1>a, <1>f, <2>1, <3>2 DEF Rising
    <3> QED
      BY <3>1, <3>2
  <2>2. ASSUME NEW c \in Threads, pc'[c] = "post", ver'[c] > 0,
               NEW i \in 1 .. Len(buffer'[c])
        PROVE  buffer'[c][i].version < ver'[c]
    <3>1. pc[c] = "post" /\ ver[c] = ver'[c]
      BY <1>c, <1>e, <2>2
    <3>2. \A j \in 1 .. Len(buffer[c]) : buffer[c][j].version < ver'[c]
      BY <1>a, <2>2, <3>1 DEF Rising
    <3> QED
      BY <1>f, <2>2, <3>2
  <2> QED
    BY <2>1, <2>2 DEF Rising
<1>2. Stepping'
  BY <1>a, <1>c DEF Stepping
<1>3. Ahead'
  <2>1. ASSUME NEW c \in Threads, NEW u \in Nat, Pending(c, u)'
        PROVE  /\ u <= barrierVersion' /\ u > step' /\ u > Version(c)'
               /\ \A b \in Threads : Version(b)' # u
               /\ \A d \in Threads : Pending(d, u)' => d = c
    <3>1. /\ u <= barrierVersion /\ u > step /\ u > Version(c)
          /\ \A b \in Threads : Version(b) # u
          /\ \A d \in Threads : Pending(d, u) => d = c
          /\ c = k => u > x.version
      BY <1>a, <1>i, <2>1 DEF Ahead
    <3>2. x.version > 0 => u # x.version
      BY <1>d, <1>h, <1>i, <2>1, <3>1
    <3>3. u > Version(c)' /\ \A b \in Threads : Version(b)' # u
      BY <1>d, <1>v, <3>1, <3>2
    <3>4. \A d \in Threads : Pending(d, u)' => d = c
      BY <1>i, <3>1
    <3> QED
      BY <1>c, <3>1, <3>3, <3>4
  <2>2. \A b \in Threads : Version(b)' <= barrierVersion'
    BY <1>a, <1>c, <1>d, <1>h, <1>v DEF Ahead
  <2>3. ASSUME NEW b \in Threads, NEW c \in Threads, Version(b)' = Version(c)',
               Version(b)' > current'
        PROVE  b = c
    BY <1>a, <1>c, <1>d, <1>h, <1>v, <2>3 DEF Ahead
  <2> QED
    BY <2>1, <2>2, <2>3 DEF Ahead
<1>4. FenceOrdered'
  <2> SUFFICES ASSUME NEW c \in Threads, NEW b \in Threads, NEW i \in 1 .. Len(buffer'[b]),
                      buffer'[b][i].routine \in fence[c]
               PROVE  \E v \in Nat \ {0} : Before(b, i, c, v)' /\ AfterAll(c, v)'
    BY <1>c DEF FenceOrdered
  <2>1. PICK j \in 1 .. Len(buffer[b]) : /\ b = k => j = i + 1
                                         /\ b # k => j = i
                                         /\ buffer'[b][i] = buffer[b][j]
    BY <1>f
  <2>2. PICK v \in Nat \ {0} : Before(b, j, c, v) /\ AfterAll(c, v)
    BY <1>a, <2>1 DEF FenceOrdered
  <2>3. Before(b, i, c, v)'
    BY <1>p, <2>1, <2>2
  <2>4. AfterAll(c, v)'
    <3>1. CASE After(c, Len(buffer[c]) + 1, v)
      <4>1. PICK n \in Nat : n = Len(buffer'[c])
        BY <1>a, <1>c, <1>x, PopEntries
      <4>2. /\ Len(buffer[c]) \in Nat
            /\ c = k => Len(buffer[c]) + 1 = (n + 1) + 1
            /\ c # k => Len(buffer[c]) + 1 = n + 1
        BY <1>a, <1>c, <1>g, <1>x, <4>1, PopEntries
      <4>3. PICK m \in Nat : m = Len(buffer[c]) + 1 /\ After(c, m, v)
        BY <3>1, <4>2
      <4>4. /\ m - 1 <= Len(buffer[c]) /\ n + 1 \in Nat /\ n + 1 >= 1
            /\ c = k => m = (n + 1) + 1
            /\ c # k => m = n + 1
        BY <4>2, <4>3
      <4>5. After(c, n + 1, v)'
        BY <1>q, <4>3, <4>4
      <4> QED
        BY <4>1, <4>5 DEF AfterAll
    <3>2. CASE pc[c] = "post" /\ ver[c] = v
      BY <1>c, <1>e, <3>2 DEF AfterAll
    <3> QED
      BY <2>2, <3>1, <3>2 DEF AfterAll
  <2> QED
    BY <2>3, <2>4
<1>5. BufferOrdered'
  <2> SUFFICES ASSUME NEW c \in Threads, NEW b \in Threads, NEW j \in 1 .. Len(buffer'[c]),
                      NEW i \in 1 .. Len(buffer'[b]), buffer'[c][j].routine # None,
                      buffer'[b][i].routine \in follows[buffer'[c][j].routine]
               PROVE  \E v \in Nat \ {0} : Before(b, i, c, v)' /\ After(c, j, v)'
    BY <1>c DEF BufferOrdered
  <2>1. PICK h \in 1 .. Len(buffer[b]) : /\ b = k => h = i + 1
                                         /\ b # k => h = i
                                         /\ buffer'[b][i] = buffer[b][h]
    BY <1>f
  <2>2. PICK l \in 1 .. Len(buffer[c]) : /\ c = k => l = j + 1
                                         /\ c # k => l = j
                                         /\ buffer'[c][j] = buffer[c][l]
    BY <1>f
  <2>3. PICK v \in Nat \ {0} : Before(b, h, c, v) /\ After(c, l, v)
    BY <1>a, <2>1, <2>2 DEF BufferOrdered
  <2>4. Before(b, i, c, v)'
    BY <1>p, <2>1, <2>3
  <2>5. After(c, j, v)'
    <3>1. l \in Nat /\ j \in Nat /\ j >= 1 /\ l - 1 <= Len(buffer[c])
      <4>1. Len(buffer[c]) \in Nat /\ Len(buffer'[c]) \in Nat
        BY <1>a, <1>c, <1>x, PopEntries
      <4> QED
        BY <4>1
    <3> QED
      BY <1>q, <2>2, <2>3, <3>1
  <2> QED
    BY <2>4, <2>5
<1> QED
  BY <1>1, <1>2, <1>3, <1>4, <1>5

\* Where a step of the pass finds the versions.
LEMMA ScanStep ==
  ASSUME WarpInv, WarpInv', Marked, NEW t \in Threads, NextBuffer(t) \/ EndPass(t)
  PROVE  /\ UNCHANGED <<buffer, barrierVersion, fence, follows>>
         /\ \A b \in Threads : Version(b) = versions[b] /\ Version(b)' = versions'[b]
         /\ Scanning
         /\ \A u \in Threads : Posting(u)' = Posting(u)
<1>a. /\ TypeOK /\ owner = t /\ owner' = t /\ Labels(t) /\ (Call(t) \/ Step(t))
  BY DEF WarpInv, Marked, Place, OwnPCs, NextBuffer, EndPass, hot, Step
<1>b. pc[t] = "scan" /\ pc'[t] \in {"scan", "yield"}
  BY <1>a DEF NextBuffer, EndPass, TypeOK, Goto, Set, control
<1>c. ~Back(t) /\ ~Back(t)' /\ Scans(t)
  BY <1>b DEF Back, Scans, ReturnPCs
<1>d. UNCHANGED <<buffer, barrierVersion, fence, follows>>
  BY DEF NextBuffer, EndPass, history
<1>e. \A u \in Threads : Posting(u)' = Posting(u)
  BY <1>a, <1>b, OthersStay, OthersScan DEF Posting
<1> QED
  BY <1>a, <1>b, <1>c, <1>d, <1>e, VersionOwned, VersionOwnedNext

\* The pass goes on to the next buffer, from one that is empty or that a barrier
\* holds back; its version is raised to current, or is the next one.
LEMMA NextGrid ==
  ASSUME WarpInv, WarpInv', GridInv, NEW t \in Threads, NextBuffer(t)
  PROVE  Rising' /\ Stepping' /\ Ahead' /\ FenceOrdered' /\ BufferOrdered'
<1>a. /\ TypeOK /\ TypeOK' /\ Marked /\ Rising /\ Stepping /\ Ahead
      /\ FenceOrdered /\ BufferOrdered
  BY DEF WarpInv, GridInv
<1>k. PICK k \in Threads : k = index
  BY <1>a, WarpAssumption DEF NextBuffer, TypeOK, Threads
<1>s. /\ UNCHANGED <<buffer, barrierVersion, fence, follows>>
      /\ \A b \in Threads : Version(b) = versions[b] /\ Version(b)' = versions'[b]
      /\ Scanning
      /\ \A u \in Threads : Posting(u)' = Posting(u)
  BY <1>a, ScanStep
<1>n. /\ current \in Nat /\ step \in Nat /\ barrierVersion \in Nat /\ k \in Int
      /\ \A b \in Threads : Version(b) \in Nat /\ b \in Int
      /\ \A b \in Threads : Len(buffer[b]) \in Nat
      /\ step \in {current, current + 1} /\ step <= barrierVersion
  <2>1. current \in Nat /\ step \in Nat /\ barrierVersion \in Nat
    BY <1>a DEF TypeOK
  <2>2. \A b \in Threads : Version(b) \in Nat /\ Len(buffer[b]) \in Nat
    BY <1>a, VersionType, EntryType
  <2>3. \A b \in Threads : b \in Int
    BY DEF Threads
  <2> QED
    BY <1>a, <2>1, <2>2, <2>3 DEF Stepping
<1>c. /\ current < Version(k) \/ buffer[k] = << >>
      /\ step' = IF current + 1 = Version(k) THEN Version(k) ELSE step
      /\ \A b \in Threads : b # k => Version(b)' = Version(b)
      /\ Version(k)' = IF current > Version(k) THEN current ELSE Version(k)
      /\ current' = current /\ index' = k + 1
  <2>1. versions \in [Threads -> Nat]
    BY <1>a DEF TypeOK
  <2>2. /\ current < versions[k] \/ buffer[k] = << >>
        /\ step' = IF current + 1 = versions[k] THEN versions[k] ELSE step
        /\ versions' = IF current > versions[k] THEN Set(versions, k, current) ELSE versions
        /\ current' = current /\ index' = k + 1
    BY <1>k, <1>n, <2>1 DEF NextBuffer, Eligible
  <2> QED
    BY <1>s, <2>1, <2>2 DEF Set
\* A buffer that has an entry and was passed over is held back.
<1>h. ASSUME NEW i \in 1 .. Len(buffer[k]) PROVE current < Version(k)
  BY <1>c
<1>p. ASSUME NEW b \in Threads, NEW i \in 1 .. Len(buffer[b]), NEW c \in Threads,
             NEW v \in Nat \ {0}, Before(b, i, c, v),
             \/ Version(c) = v \/ (Version(c) >= v /\ current >= v) \/ Pending(c, v)
      PROVE  Before(b, i, c, v)'
  <2>0. /\ Version(b) < v /\ \A l \in 1 .. i - 1 : buffer[b][l].version < v
        /\ current >= v => b < c /\ ~(index > b)
        /\ step >= v => b < c \/ index <= b
    BY <1>p, <1>s DEF Before
  <2>1. Version(b)' < v
    <3>1. Version(b)' = Version(b)
      BY <1>c, <1>h, <1>n
    <3> QED
      BY <2>0, <3>1
  <2>2. b = k => ~(current >= v) /\ ~(step >= v)
    BY <1>h, <1>n, <2>0
  <2>3. current' >= v => b < c /\ ~(index' > b)
    BY <1>c, <1>k, <1>n, <2>0, <2>2
  <2>4. step' >= v => b < c \/ index' <= b
    <3>1. CASE step' = step
      BY <1>c, <1>k, <1>n, <2>0, <2>2, <3>1
    <3>2. CASE step' = Version(k) /\ Version(k) = current + 1 /\ ~(current >= v)
      <4>1. SUFFICES ASSUME step' >= v PROVE b < c \/ index' <= b
        OBVIOUS
      <4>2. v = Version(k)
        BY <1>n, <3>2, <4>1
      <4>3. ~Pending(c, v)
        BY <1>a, <4>2 DEF Ahead
      <4>4. Version(c) = Version(k) /\ Version(c) > current
        BY <1>n, <1>p, <3>2, <4>2, <4>3
      <4>5. c = k
        BY <1>a, <4>4 DEF Ahead
      <4>6. b # k
        BY <2>0, <4>2, <1>n
      <4> QED
        BY <1>c, <1>n, <4>5, <4>6
    <3>3. CASE current >= v
      BY <2>0, <3>3
    <3> QED
      BY <1>c, <3>1, <3>2, <3>3
  <2> QED
    BY <1>s, <2>0, <2>1, <2>3, <2>4 DEF Before
<1>q. ASSUME NEW c \in Threads, NEW v \in Nat \ {0}, NEW j \in Int, After(c, j, v)
      PROVE  After(c, j, v)'
  <2>1. Version(c) = v \/ (Version(c) >= v /\ current >= v)
           => Version(c)' = v \/ (Version(c)' >= v /\ current' >= v)
    BY <1>c, <1>n
  <2> QED
    BY <1>q, <1>s, <2>1 DEF After
<1>r. ASSUME NEW c \in Threads, NEW v \in Nat \ {0}, NEW j \in 1 .. Len(buffer[c]) + 1,
             After(c, j, v)
      PROVE  Version(c) = v \/ (Version(c) >= v /\ current >= v) \/ Pending(c, v)
  <2>1. \A l \in 1 .. j - 1 : l \in 1 .. Len(buffer[c])
    BY <1>n
  <2>2. (\E l \in 1 .. j - 1 : buffer[c][l].version = v) => Pending(c, v)
    BY <2>1 DEF Pending
  <2> QED
    BY <1>r, <2>2 DEF After
<1>1. Rising'
  <2> SUFFICES ASSUME NEW c \in Threads, pc'[c] = "post", ver'[c] > 0
               PROVE  \A i \in 1 .. Len(buffer[c]) : buffer[c][i].version < ver'[c]
    BY <1>a, <1>s DEF Rising
  <2>1. Posting(c)' = ver'[c] /\ Posting(c) = ver'[c]
    BY <1>s DEF Posting
  <2>2. Posting(c) # 0
    BY <2>1
  <2>3. pc[c] = "post" /\ ver[c] = ver'[c]
    BY <2>1, <2>2 DEF Posting
  <2> QED
    BY <1>a, <2>3 DEF Rising
<1>2. Stepping'
  <2>1. \A b \in Threads : Version(b) <= barrierVersion
    BY <1>a DEF Ahead
  <2> QED
    BY <1>c, <1>n, <1>s, <2>1 DEF Stepping
<1>3. Ahead'
  <2>1. ASSUME NEW c \in Threads, NEW u \in Nat PROVE Pending(c, u)' <=> Pending(c, u)
    BY <1>a, <1>s, PendingSame
  <2>2. ASSUME NEW c \in Threads, NEW u \in Nat, Pending(c, u)'
        PROVE  /\ u <= barrierVersion' /\ u > step' /\ u > Version(c)'
               /\ \A b \in Threads : Version(b)' # u
               /\ \A d \in Threads : Pending(d, u)' => d = c
    <3>1. /\ u <= barrierVersion /\ u > step /\ u > Version(c)
          /\ \A b \in Threads : Version(b) # u
          /\ \A d \in Threads : Pending(d, u)' => d = c
      BY <1>a, <2>1, <2>2 DEF Ahead
    <3>2. u > step'
      BY <1>c, <1>n, <3>1
    <3>3. u > Version(c)' /\ \A b \in Threads : Version(b)' # u
      BY <1>c, <1>n, <3>1
    <3> QED
      BY <1>s, <3>1, <3>2, <3>3
  <2>3. \A b \in Threads : Version(b)' <= barrierVersion'
    <3>1. \A b \in Threads : Version(b) <= barrierVersion
      BY <1>a DEF Ahead
    <3>2. current <= barrierVersion
      BY <1>n
    <3>3. ASSUME NEW b \in Threads PROVE Version(b)' <= barrierVersion
      <4>1. Version(b)' \in {current, Version(b)}
        <5>1. CASE b = k
          BY <1>c, <5>1
        <5>2. CASE b # k
          BY <1>c, <5>2
        <5> QED
          BY <5>1, <5>2
      <4> QED
        BY <3>1, <3>2, <4>1
    <3> QED
      BY <1>s, <3>3
  <2>4. ASSUME NEW b \in Threads, NEW c \in Threads, Version(b)' = Version(c)',
               Version(b)' > current'
        PROVE  b = c
    <3>1. Version(b)' = Version(b) /\ Version(c)' = Version(c)
      BY <1>c, <1>n, <2>4
    <3>2. Version(b) = Version(c) /\ Version(b) > current
      BY <1>c, <2>4, <3>1
    <3> QED
      BY <1>a, <3>2 DEF Ahead
  <2> QED
    BY <2>2, <2>3, <2>4 DEF Ahead
<1>4. FenceOrdered'
  <2> SUFFICES ASSUME NEW c \in Threads, NEW b \in Threads, NEW i \in 1 .. Len(buffer[b]),
                      buffer[b][i].routine \in fence[c]
               PROVE  \E v \in Nat \ {0} : Before(b, i, c, v)' /\ AfterAll(c, v)'
    BY <1>s DEF FenceOrdered
  <2>1. PICK v \in Nat \ {0} : Before(b, i, c, v) /\ AfterAll(c, v)
    BY <1>a DEF FenceOrdered
  <2>2. CASE After(c, Len(buffer[c]) + 1, v)
    <3>1. PICK m \in Int : m = Len(buffer[c]) + 1 /\ m \in 1 .. Len(buffer[c]) + 1
      BY <1>n
    <3>2. Before(b, i, c, v)' /\ After(c, m, v)'
      BY <1>p, <1>q, <1>r, <2>1, <2>2, <3>1
    <3>3. Len(buffer'[c]) + 1 = m
      BY <1>s, <3>1
    <3> QED
      BY <3>2, <3>3 DEF AfterAll
  <2>3. CASE pc[c] = "post" /\ ver[c] = v
    <3>1. Pending(c, v) /\ Posting(c) = v
      BY <2>3 DEF Pending, Posting
    <3>2. pc'[c] = "post" /\ ver'[c] = v
      BY <1>s, <3>1 DEF Posting
    <3> QED
      BY <1>p, <2>1, <3>1, <3>2 DEF AfterAll
  <2> QED
    BY <2>1, <2>2, <2>3 DEF AfterAll
<1>5. BufferOrdered'
  <2> SUFFICES ASSUME NEW c \in Threads, NEW b \in Threads, NEW j \in 1 .. Len(buffer[c]),
                      NEW i \in 1 .. Len(buffer[b]), buffer[c][j].routine # None,
                      buffer[b][i].routine \in follows[buffer[c][j].routine]
               PROVE  \E v \in Nat \ {0} : Before(b, i, c, v)' /\ After(c, j, v)'
    BY <1>s DEF BufferOrdered
  <2>1. PICK v \in Nat \ {0} : Before(b, i, c, v) /\ After(c, j, v)
    BY <1>a DEF BufferOrdered
  <2>2. j \in Int /\ j \in 1 .. Len(buffer[c]) + 1
    BY <1>n
  <2> QED
    BY <1>p, <1>q, <1>r, <2>1, <2>2
<1> QED
  BY <1>1, <1>2, <1>3, <1>4, <1>5

\* After a pass over all the buffers current takes the step: whatever was before
\* that version was passed over or is in a buffer before its barrier's.
LEMMA EndGrid ==
  ASSUME WarpInv, WarpInv', GridInv, NEW t \in Threads, EndPass(t)
  PROVE  Rising' /\ Stepping' /\ Ahead' /\ FenceOrdered' /\ BufferOrdered'
<1>a. /\ TypeOK /\ TypeOK' /\ Marked /\ Rising /\ Stepping /\ Ahead
      /\ FenceOrdered /\ BufferOrdered
  BY DEF WarpInv, GridInv
<1>s. /\ UNCHANGED <<buffer, barrierVersion, fence, follows>>
      /\ \A b \in Threads : Version(b) = versions[b] /\ Version(b)' = versions'[b]
      /\ Scanning
      /\ \A u \in Threads : Posting(u)' = Posting(u)
  BY <1>a, ScanStep
<1>n. /\ current \in Nat /\ step \in Nat /\ barrierVersion \in Nat
      /\ \A b \in Threads : Version(b) \in Nat /\ b \in 1 .. N /\ N \in Nat
      /\ \A b \in Threads : Len(buffer[b]) \in Nat
      /\ step \in {current, current + 1} /\ step <= barrierVersion
  BY <1>a, VersionType, EntryType, WarpAssumption DEF TypeOK, Threads, Stepping
<1>c. /\ current' = step /\ step' = step /\ index = N + 1 /\ index' = 1
      /\ \A b \in Threads : Version(b)' = Version(b)
  BY <1>s DEF EndPass
<1>p. ASSUME NEW b \in Threads, NEW i, NEW c \in Threads, NEW v \in Nat \ {0},
             Before(b, i, c, v)
      PROVE  Before(b, i, c, v)'
  <2>1. /\ Version(b) < v /\ \A l \in 1 .. i - 1 : buffer[b][l].version < v
        /\ step >= v => b < c \/ index <= b
    BY <1>p, <1>s DEF Before
  <2>2. current' >= v => b < c /\ ~(index' > b)
    BY <1>c, <1>n, <2>1
  <2>3. index' <= b
    BY <1>c, <1>n
  <2> QED
    BY <1>c, <1>s, <2>1, <2>2, <2>3 DEF Before
<1>q. ASSUME NEW c \in Threads, NEW v \in Nat \ {0}, NEW j \in Int, After(c, j, v)
      PROVE  After(c, j, v)'
  <2>1. Version(c) = v \/ (Version(c) >= v /\ current >= v)
           => Version(c)' = v \/ (Version(c)' >= v /\ current' >= v)
    BY <1>c, <1>n
  <2> QED
    BY <1>q, <1>s, <2>1 DEF After
<1>1. Rising'
  <2> SUFFICES ASSUME NEW c \in Threads, pc'[c] = "post", ver'[c] > 0
               PROVE  \A i \in 1 .. Len(buffer[c]) : buffer[c][i].version < ver'[c]
    BY <1>a, <1>s DEF Rising
  <2>1. Posting(c)' = ver'[c] /\ Posting(c) = ver'[c]
    BY <1>s DEF Posting
  <2>2. Posting(c) # 0
    BY <2>1
  <2>3. pc[c] = "post" /\ ver[c] = ver'[c]
    BY <2>1, <2>2 DEF Posting
  <2> QED
    BY <1>a, <2>3 DEF Rising
<1>2. Stepping'
  BY <1>c, <1>n, <1>s DEF Stepping
<1>3. Ahead'
  <2>1. ASSUME NEW c \in Threads, NEW u \in Nat PROVE Pending(c, u)' <=> Pending(c, u)
    BY <1>a, <1>s, PendingSame
  <2>2. ASSUME NEW c \in Threads, NEW u \in Nat, Pending(c, u)'
        PROVE  /\ u <= barrierVersion' /\ u > step' /\ u > Version(c)'
               /\ \A b \in Threads : Version(b)' # u
               /\ \A d \in Threads : Pending(d, u)' => d = c
    BY <1>a, <1>c, <1>s, <2>1, <2>2 DEF Ahead
  <2>3. \A b \in Threads : Version(b)' <= barrierVersion'
    BY <1>a, <1>c, <1>s DEF Ahead
  <2>4. ASSUME NEW b \in Threads, NEW c \in Threads, Version(b)' = Version(c)',
               Version(b)' > current'
        PROVE  b = c
    <3>1. Version(b) = Version(c) /\ Version(b) > current
      BY <1>c, <1>n, <2>4
    <3> QED
      BY <1>a, <3>1 DEF Ahead
  <2> QED
    BY <2>2, <2>3, <2>4 DEF Ahead
<1>4. FenceOrdered'
  <2> SUFFICES ASSUME NEW c \in Threads, NEW b \in Threads, NEW i \in 1 .. Len(buffer[b]),
                      buffer[b][i].routine \in fence[c]
               PROVE  \E v \in Nat \ {0} : Before(b, i, c, v)' /\ AfterAll(c, v)'
    BY <1>s DEF FenceOrdered
  <2>1. PICK v \in Nat \ {0} : Before(b, i, c, v) /\ AfterAll(c, v)
    BY <1>a DEF FenceOrdered
  <2>2. CASE After(c, Len(buffer[c]) + 1, v)
    <3>1. PICK m \in Int : m = Len(buffer[c]) + 1
      BY <1>n
    <3>2. After(c, m, v)'
      BY <1>q, <2>2, <3>1
    <3>3. Len(buffer'[c]) + 1 = m
      BY <1>s, <3>1
    <3> QED
      BY <1>p, <2>1, <3>2, <3>3 DEF AfterAll
  <2>3. CASE pc[c] = "post" /\ ver[c] = v
    <3>1. Posting(c) = v
      BY <2>3 DEF Posting
    <3>2. pc'[c] = "post" /\ ver'[c] = v
      BY <1>s, <3>1 DEF Posting
    <3> QED
      BY <1>p, <2>1, <3>2 DEF AfterAll
  <2> QED
    BY <2>1, <2>2, <2>3 DEF AfterAll
<1>5. BufferOrdered'
  <2> SUFFICES ASSUME NEW c \in Threads, NEW b \in Threads, NEW j \in 1 .. Len(buffer[c]),
                      NEW i \in 1 .. Len(buffer[b]), buffer[c][j].routine # None,
                      buffer[b][i].routine \in follows[buffer[c][j].routine]
               PROVE  \E v \in Nat \ {0} : Before(b, i, c, v)' /\ After(c, j, v)'
    BY <1>s DEF BufferOrdered
  <2>1. PICK v \in Nat \ {0} : Before(b, i, c, v) /\ After(c, j, v)
    BY <1>a DEF BufferOrdered
  <2>2. j \in Int
    BY <1>n
  <2> QED
    BY <1>p, <1>q, <2>1, <2>2
<1> QED
  BY <1>1, <1>2, <1>3, <1>4, <1>5

LEMMA GridStep ==
  ASSUME WarpInv, WarpInv', GridInv, NEW p, Placed(p), NEW t \in Threads, Call(t) \/ Step(t)
  PROVE  GridInv'
<1>a. /\ TypeOK /\ TypeOK' /\ Marked /\ Labels(t) /\ Rising /\ Stepping /\ Ahead
      /\ FenceOrdered /\ BufferOrdered
  BY DEF WarpInv, GridInv, Marked
<1>1. CASE Quiets(t) \/ Mark(t) \/ Task(t) \/ Ran(t)
  <2>1. SameGrid
    BY <1>a, <1>1, QuietSame, OwnerSame
  <2> QED
    BY <1>a, <2>1, MarkedStep, SameGridKeeps DEF GridInv
<1>2. CASE Post(t) /\ t \notin Externals
  BY <1>a, <1>2, MarkedStep, PostGrid DEF GridInv
<1>3. CASE TakeVersion(t)
  BY <1>a, <1>3, MarkedStep, VersionGrid DEF GridInv
<1>4. CASE Pop(t)
  BY <1>a, <1>4, MarkedStep, PopGrid DEF GridInv
<1>5. CASE NextBuffer(t)
  BY <1>a, <1>5, MarkedStep, NextGrid DEF GridInv
<1>6. CASE EndPass(t)
  BY <1>a, <1>6, MarkedStep, EndGrid DEF GridInv
<1> QED
  BY <1>1, <1>2, <1>3, <1>4, <1>5, <1>6, StepKinds

LEMMA PlacedStep ==
  ASSUME WarpInv, NEW p, Placed(p), NEW t \in Threads, Labels(t), Call(t) \/ Step(t)
  PROVE  \E q : Placed(q)'
<1>1. \/ Call(t) \/ Idles(t)
      \/ (Post(t) /\ t \in Externals)
      \/ (Chain(t) /\ owner = None /\ pc[t] = "chainpost")
      \/ Link(t) \/ Submit(t) \/ ParallelTask(t)
      \/ TakeExternal(t) \/ TakeParallel(t)
      \/ ExecuteParallel(t, "drain", "check") \/ ExecuteParallel(t, "pardrain", "yield")
      \/ TakeVersion(t) \/ (Post(t) /\ t \notin Externals) \/ Pop(t)
      \/ Run(t) \/ (Task(t) /\ arg[t] # None)
  <2>1. Chain(t) => pc[t] \in {"chain", "chainpost"}
    BY DEF Chain
  <2> QED
    BY <2>1, Zenon DEF Step, Idles
<1>2. CASE Idles(t)
  BY <1>2, IdleEffect, IdlePlaced DEF WarpInv
<1>3. CASE TakeVersion(t)
  <2>1. arg[t] = None
    BY <1>3 DEF TakeVersion, Labels
  <2> QED
    BY <1>3, <2>1, VersionPlaced
<1> QED
  BY <1>1, <1>2, <1>3, CallPlaced, HandPlaced, TakePlaced, DrainPlaced, PostPlaced, PopPlaced,
    ExecutePlaced

\* A routine that runs as the owner's was popped.
LEMMA RunsPopped ==
  ASSUME WarpInv, NEW t \in Threads, Labels(t), Call(t) \/ Step(t), ~Pop(t),
         NEW u \in Threads, Runs(u)' # None
  PROVE  Runs(u) = Runs(u)'
<1>a. TypeOK /\ Place(t)
  BY DEF WarpInv
<1>1. u # t => Runs(u)' = Runs(u)
  BY OthersHold
<1>2. pc'[t] # "task"
  <2>1. Quiets(t) => pc'[t] # "task"
    BY QuietEffect DEF Quiet
  <2>2. ~Quiets(t) => pc'[t] # "task"
    BY <1>a, StepKinds DEF Post, TakeVersion, Mark, NextBuffer, EndPass, Task, Execute, Ran,
      TypeOK, Goto, Set, control
  <2> QED
    BY <2>1, <2>2
<1>3. Runs(t)' = None
  BY <1>2 DEF Runs
<1> QED
  BY <1>1, <1>3

\* What a routine follows is set when it is queued.
LEMMA FollowsStay ==
  ASSUME WarpInv, NEW p, Placed(p), NEW t \in Threads, Labels(t), Call(t) \/ Step(t),
         NEW q \in Routines, p[q] # "hand"
  PROVE  follows'[q] = follows[q]
<1>1. CASE Post(t) /\ t \notin Externals
  <2>1. arg[t] # None => Holds(t) = arg[t]
    BY <1>1 DEF Post, Holds, HandPCs
  <2>2. arg[t] # None => p[arg[t]] = "hand"
    BY <2>1 DEF Placed, HandAt
  <2> QED
    BY <1>1, <2>2 DEF Post, WarpInv, TypeOK, Set
<1>2. CASE ~(Post(t) /\ t \notin Externals)
  BY <1>2, StepKinds, QuietEffect DEF Quiet, TakeVersion, Mark, Pop, NextBuffer, EndPass,
    Task, Ran, history
<1> QED
  BY <1>1, <1>2

LEMMA LogGrows ==
  ASSUME WarpInv, NEW t \in Threads, Call(t) \/ Step(t)
  PROVE  \/ log' = log
         \/ /\ Run(t) \/ ParallelTask(t) \/ (Task(t) /\ arg[t] # None)
            /\ log' = Append(log, arg[t]) /\ follows' = follows
<1> USE DEF history
<1>1. CASE Run(t) \/ ParallelTask(t) \/ (Task(t) /\ arg[t] # None)
  BY <1>1 DEF Run, ParallelTask, Task, Execute
<1>2. CASE \/ Task(t) /\ arg[t] = None
           \/ Mark(t) \/ Pop(t) \/ NextBuffer(t) \/ EndPass(t) \/ Ran(t)
  BY <1>2 DEF Task, Mark, Pop, NextBuffer, EndPass, Ran
<1>3. CASE Call(t) \/ Post(t) \/ TakeVersion(t) \/ Guard(t) \/ Recheck(t)
           \/ Preempt(t, "preempt", "recheck", "post") \/ Flush(t) \/ FlushExchange(t)
  BY <1>3 DEF Call, Post, TakeVersion, Guard, Recheck, Preempt, Flush, FlushExchange
<1>4. CASE Yield(t) \/ ExchangeIdle(t, "yieldx", after[t]) \/ Resume(t)
           \/ ExchangeIdle(t, "resumex", "free") \/ TakeJob(t) \/ TakeExternal(t)
           \/ ExecuteGuard(t) \/ Preempt(t, "x1", "x2", "par") \/ ExecuteRecheck(t)
  BY <1>4 DEF Yield, ExchangeIdle, Resume, TakeJob, TakeExternal, ExecuteGuard, Preempt,
    ExecuteRecheck
<1>5. CASE ExecuteParallel(t, "drain", "check") \/ DoubleCheck(t) \/ Defer(t)
           \/ TryParallel(t) \/ Preempt(t, "parpreempt", "pardrain", "free")
           \/ ExecuteParallel(t, "pardrain", "yield") \/ Chain(t) \/ Link(t) \/ Submit(t)
           \/ TakeParallel(t)
  BY <1>5 DEF ExecuteParallel, DoubleCheck, Defer, TryParallel, Preempt, Chain, Link, Submit,
    TakeParallel
<1> QED
  BY <1>1, <1>2, <1>3, <1>4, <1>5 DEF Step

\* What a step has in the log is there after it, in the same place.
LEMMA LogKept ==
  ASSUME WarpInv, NEW t \in Threads, Call(t) \/ Step(t), NEW j \in 1 .. Len(log)
  PROVE  j \in 1 .. Len(log') /\ log'[j] = log[j]
<1>1. log \in Seq(Routines) /\ (log' # log => arg[t] \in Routines)
  BY LogGrows DEF WarpInv, TypeOK, Place, RoutinePCs, Run, ParallelTask, Task
<1> QED
  BY <1>1, LogGrows, AppendAt

\* The routine popped follows nothing that is still in a buffer.
LEMMA PopOrdered ==
  ASSUME WarpInv, GridInv, NEW p, Placed(p), NEW t \in Threads, Pop(t),
         NEW r \in follows[Runs(t)'], Runs(t)' # None
  PROVE  \E j \in 1 .. Len(log) : log[j] = r
<1>a. TypeOK /\ BufferOrdered /\ owner = t /\ pc[t] = "scan" /\ Marked /\ Labels(t)
  BY DEF WarpInv, GridInv, Place, OwnPCs, Pop, Marked
<1>k. PICK k \in Threads : k = index
  BY <1>a, WarpAssumption DEF Pop, TypeOK, Threads
<1>b. /\ 1 \in 1 .. Len(buffer[k]) /\ buffer[k] # << >> /\ current >= versions[k]
      /\ Runs(t)' = buffer[k][1].routine
  <2>1. buffer[k] # << >> /\ buffer[k] \in Seq(Items) /\ current >= versions[k]
    BY <1>a, <1>k DEF Pop, Eligible, TypeOK
  <2>2. pc'[t] = "task" /\ arg'[t] = Head(buffer[k]).routine
    BY <1>a, <1>k DEF Pop, TypeOK, Goto, Set
  <2> QED
    BY <2>1, <2>2, TailAt DEF Runs
<1>c. buffer[k][1].routine \in Routines
  BY <1>a, <1>b, EntryType
<1>d. r \in Routines /\ p[r] \in Late
  <2>1. follows[buffer[k][1].routine] \subseteq Routines
    BY <1>a, <1>c DEF TypeOK
  <2> QED
    BY <1>b, <1>c, <2>1 DEF Placed, FenceAt
<1>1. p[r] # "task"
  <2> SUFFICES ASSUME p[r] = "task" PROVE FALSE
    OBVIOUS
  <2>1. PICK u \in Threads : Runs(u) = r
    BY <1>d DEF Placed, TaskAt
  <2>2. pc[u] = "task"
    BY <1>d, <2>1, NoneApart DEF Runs
  <2>3. owner = u
    BY <2>2 DEF WarpInv, Place, OwnPCs
  <2> QED
    BY <1>a, <2>2, <2>3
<1>2. p[r] # "buffer"
  <2> SUFFICES ASSUME p[r] = "buffer" PROVE FALSE
    OBVIOUS
  <2>1. PICK b \in Threads : \E i \in 1 .. Len(buffer[b]) : buffer[b][i].routine = r
    BY <1>d DEF Placed, BufferAt
  <2>2. PICK i \in 1 .. Len(buffer[b]) : buffer[b][i].routine = r
    BY <2>1
  <2>3. PICK v \in Nat \ {0} : Before(b, i, k, v) /\ After(k, 1, v)
    BY <1>a, <1>b, <1>c, <2>2, NoneApart DEF BufferOrdered
  <2>4. Version(k) = versions[k] /\ Scanning
    <3>1. Scans(t) /\ ~Back(t)
      BY <1>a DEF Scans, Back, ReturnPCs
    <3> QED
      BY <1>a, <3>1, VersionOwned
  <2>5. Version(k) = v \/ (Version(k) >= v /\ current >= v)
    BY <2>3 DEF After
  <2>6. current >= v
    BY <1>b, <2>4, <2>5
  <2>7. b < k /\ ~(index > b)
    BY <2>3, <2>4, <2>6 DEF Before
  <2> QED
    BY <1>k, <2>7 DEF Threads
<1> QED
  BY <1>1, <1>2, <1>d DEF Late, Placed, LogAt

LEMMA LogStep ==
  ASSUME WarpInv, GridInv, TaskOrdered, BarrierOrder, NEW p, Placed(p),
         NEW t \in Threads, Call(t) \/ Step(t)
  PROVE  TaskOrdered' /\ BarrierOrder'
<1>a. TypeOK /\ Place(t) /\ Labels(t) /\ log \in Seq(Routines)
  BY DEF WarpInv, GridInv, Marked, TypeOK
<1>b. ASSUME NEW r, NEW q \in Routines, p[q] # "hand", r \in follows'[q]
      PROVE  r \in follows[q]
  BY <1>a, <1>b, FollowsStay
<1>c. ASSUME NEW r, \E j \in 1 .. Len(log) : log[j] = r
      PROVE  \E j \in 1 .. Len(log') : log'[j] = r
  BY <1>c, LogKept
<1>1. ASSUME NEW u \in Threads, Runs(u)' # None, NEW r \in follows'[Runs(u)']
      PROVE  \E j \in 1 .. Len(log') : log'[j] = r
  <2>1. CASE Pop(t) /\ u = t
    <3>1. follows' = follows
      BY <2>1 DEF Pop, history
    <3> QED
      BY <1>1, <1>c, <2>1, <3>1, PopOrdered
  <2>2. CASE ~(Pop(t) /\ u = t)
    <3>1. PICK q \in Routines : q = Runs(u) /\ q = Runs(u)'
      BY <1>a, <1>1, <2>2, RunsPopped, OthersHold, HoldsType
    <3>2. q # None /\ p[q] = "task"
      BY <3>1, NoneApart DEF Placed, TaskAt
    <3>3. r \in follows[q]
      BY <1>1, <1>b, <3>1, <3>2
    <3> QED
      BY <1>c, <3>1, <3>2, <3>3 DEF TaskOrdered
  <2> QED
    BY <2>1, <2>2
<1>2. ASSUME NEW i \in 1 .. Len(log'), NEW r \in follows'[log'[i]]
      PROVE  \E j \in 1 .. i - 1 : log'[j] = r
  <2>0. Len(log) \in Nat
    BY <1>a
  <2>1. CASE i \in 1 .. Len(log)
    <3>1. log'[i] = log[i] /\ log[i] \in Routines /\ p[log[i]] = "log"
      BY <1>a, <2>1, LogKept DEF Placed, LogAt
    <3>2. r \in follows[log[i]]
      BY <1>2, <1>b, <3>1
    <3>3. PICK j \in 1 .. i - 1 : log[j] = r
      BY <2>1, <3>2 DEF BarrierOrder
    <3>4. j \in 1 .. Len(log)
      BY <2>0, <2>1
    <3> QED
      BY <3>3, <3>4, LogKept
  <2>2. CASE i \notin 1 .. Len(log)
    <3>1. /\ Run(t) \/ ParallelTask(t) \/ (Task(t) /\ arg[t] # None)
          /\ log' = Append(log, arg[t]) /\ follows' = follows
      BY <2>2, LogGrows
    <3>2. arg[t] \in Routines
      BY <1>a, <3>1 DEF Run, ParallelTask, Task, Place, RoutinePCs, TypeOK
    <3>3. i = Len(log) + 1 /\ log'[i] = arg[t]
      BY <1>a, <2>0, <2>2, <3>1, <3>2, AppendAt
    <3>4. r \in follows[arg[t]]
      BY <1>2, <3>1, <3>3
    <3>5. \E j \in 1 .. Len(log) : log[j] = r
      <4>1. CASE Task(t)
        <5>1. Runs(t) = arg[t] /\ Runs(t) # None
          BY <3>2, <4>1, NoneApart DEF Task, Runs
        <5> QED
          BY <3>4, <5>1 DEF TaskOrdered
      <4>2. CASE Run(t) \/ ParallelTask(t)
        <5>1. Holds(t) = arg[t] /\ Holds(t) # None
          BY <3>2, <4>2, NoneApart DEF Run, ParallelTask, Holds, HandPCs, RoutinePCs
        <5>2. p[arg[t]] = "hand" /\ "hand" \notin Late
          BY <5>1 DEF Placed, HandAt, Late
        <5> QED
          BY <3>2, <3>4, <5>2 DEF Placed, FenceAt
      <4> QED
        BY <3>1, <4>1, <4>2
    <3>6. PICK j \in 1 .. Len(log) : log[j] = r
      BY <3>5
    <3>7. j \in 1 .. i - 1
      BY <2>0, <3>3
    <3> QED
      BY <3>6, <3>7, LogKept
  <2> QED
    BY <2>1, <2>2
<1> QED
  BY <1>1, <1>2 DEF TaskOrdered, BarrierOrder

LEMMA OrderInit == Init => OrderInv
<1> SUFFICES ASSUME Init PROVE OrderInv
  OBVIOUS
<1>1. \E place \in [Routines -> Stages] : Placed(place)
  BY PlacedInit DEF Placed
<1>2. /\ \A t \in Threads : /\ pc[t] = "free" /\ ret[t] = "free" /\ ver[t] = 0
                            /\ buffer[t] = << >> /\ fence[t] = {} /\ versions[t] = 0
      /\ owner = None /\ log = << >> /\ step = 0 /\ current = 0 /\ barrierVersion = 0
  BY DEF Init
<1>3. \A t \in Threads : Labels(t) /\ Locals(t)
  BY <1>2 DEF Labels, Locals, Scans, Back, RoutinePCs
<1>4. Marked /\ Rising /\ FenceOrdered /\ BufferOrdered
  BY <1>2, <1>3 DEF Marked, Rising, FenceOrdered, BufferOrdered
<1>5. Stepping
  BY <1>2 DEF Stepping
<1>6. Ahead
  <2>1. \A b \in Threads : Version(b) = 0
    BY <1>2, VersionFree
  <2>2. \A c \in Threads, u \in Nat : ~Pending(c, u)
    BY <1>2 DEF Pending
  <2> QED
    BY <1>2, <2>1, <2>2 DEF Ahead
<1>7. TaskOrdered /\ BarrierOrder
  BY <1>2 DEF TaskOrdered, Runs, BarrierOrder
<1> QED
  BY <1>1, <1>4, <1>5, <1>6, <1>7 DEF OrderInv, GridInv

LEMMA OrderStep == WarpInv /\ WarpInv' /\ OrderInv /\ [Next]_vars => OrderInv'
<1> SUFFICES ASSUME WarpInv, WarpInv', OrderInv, [Next]_vars PROVE OrderInv'
  OBVIOUS
<1>1. CASE Next
  <2>1. PICK t \in Threads : Call(t) \/ Step(t)
    BY <1>1 DEF Next
  <2>2. PICK p \in [Routines -> Stages] : Placed(p)
    BY DEF OrderInv
  <2>3. GridInv /\ TaskOrdered /\ BarrierOrder /\ Labels(t)
    BY DEF OrderInv, GridInv, Marked
  <2>4. \E q : Placed(q)'
    BY <2>1, <2>2, <2>3, PlacedStep
  <2>5. \E q \in [Routines -> Stages] : Placed(q)'
    BY <2>4 DEF Placed
  <2>6. GridInv' /\ TaskOrdered' /\ BarrierOrder'
    BY <2>1, <2>2, <2>3, GridStep, LogStep
  <2> QED
    BY <2>5, <2>6 DEF OrderInv
<1>2. CASE UNCHANGED vars
  <2>1. UNCHANGED <<hot, grid, work, control, local, history>>
    BY <1>2 DEF vars
  <2> USE <2>1 DEF hot, grid, work, control, local, history
  <2>2. \A t \in Threads : /\ (Labels(t)' <=> Labels(t)) /\ (Locals(t)' <=> Locals(t))
                           /\ Holds(t)' = Holds(t) /\ Runs(t)' = Runs(t)
                           /\ Version(t)' = Version(t) /\ Posting(t)' = Posting(t)
    BY DEF Labels, Locals, Scans, Back, Holds, Runs, Version, Posting
  <2>3. Marked' /\ SameGrid
    BY <2>2 DEF OrderInv, GridInv, Marked, SameGrid, Scanning, Scans, Back
  <2>4. GridInv'
    BY <2>3, SameGridKeeps DEF OrderInv, GridInv, WarpInv
  <2>5. TaskOrdered' /\ BarrierOrder'
    <3>1. BarrierOrder'
      BY DEF OrderInv, BarrierOrder
    <3>2. ASSUME NEW t \in Threads, Runs(t)' # None, NEW r \in follows'[Runs(t)']
          PROVE  \E j \in 1 .. Len(log') : log'[j] = r
      <4>1. Runs(t)' = Runs(t) /\ log' = log /\ follows' = follows
        BY <2>2
      <4> QED
        BY <3>2, <4>1 DEF OrderInv, TaskOrdered
    <3> QED
      BY <3>1, <3>2 DEF TaskOrdered
  <2>6. PICK p \in [Routines -> Stages] : Placed(p)
    BY DEF OrderInv
  <2>7. Placed(p)'
    BY <2>2, <2>6, IdlePlaced DEF Idle, WarpInv
  <2> QED
    BY <2>4, <2>5, <2>6, <2>7 DEF OrderInv
<1> QED
  BY <1>1, <1>2

\* Over the buffers, their versions and the pass over them, whatever threads queue,
\* run and post, each routine is executed at most once, and after every routine
\* that a barrier put before it: queue_barrier(), queue_routine_post() and
\* execute_internal() keep the order of a thread across all the buffers.
THEOREM WarpOrder == Spec => []RunsOnceInOrder
<1>1. OrderInv => RunsOnceInOrder
  BY DEF OrderInv, Placed, LogAt, RunsOnceInOrder
<1>2. Init => OrderInv
  BY OrderInit
<1>3. Spec => []WarpInv
  BY WarpInvariant
<1>4. WarpInv /\ WarpInv' /\ OrderInv /\ [Next]_vars => OrderInv'
  BY OrderStep
<1> QED
  BY <1>1, <1>2, <1>3, <1>4, PTL DEF Spec
=============================================================================
