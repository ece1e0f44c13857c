--------------------------- MODULE MainLoopProofs ---------------------------
(***************************************************************************)
(* Proofs about MainLoop, for any finite set of workers and any bounds:    *)
(* type correctness, the coverage of suppressed notifications, and, where  *)
(* stores are visible in order, that no wakeup of the main thread is lost. *)
(***************************************************************************)
EXTENDS MainLoop, FiniteSetTheorems, TLAPS

\* suspend_count counts the main thread inside poll() and the workers whose
\* parallel routine has not resumed the warp.
SuspendPCs == {"test", "mark", "execute", "ptask", "resume"}
Suspending == {a \in Actors : pc[a] \in SuspendPCs}

\* The labels an actor may be at.
PCsOf(a) == (IF a = Main THEN MainPCs ELSE WorkerPCs) \cup FlushPCs

\* Type correctness in two parts, with what makes it inductive: no actor ever
\* changes where flush() returns to, suspend_count is exact, and the counter of the
\* valve is zero between two calls of process_events().
ControlOK ==
    /\ pc \in [Actors -> PCs]
    /\ \A a \in Actors : pc[a] \in PCsOf(a)
    /\ ret = [a \in Actors |-> IF a = Main THEN "again" ELSE "idle"]

DataOK ==
    /\ buffer \in [Workers -> Nat]
    /\ hidden \subseteq Workers
    /\ queueing \in {"idle", "pending", "executing"}
    /\ suspended \in Nat
    /\ notified \in BOOLEAN /\ signal \in BOOLEAN /\ found \in BOOLEAN
    /\ spins \in 0 .. MaxSpins
    /\ posts \in [Workers -> 0 .. Posts]
    /\ awaits \in [Workers -> 0 .. Awaits]

Shape ==
    /\ ControlOK /\ DataOK
    /\ suspended = Cardinality(Suspending)
    /\ pc[Main] = "epoll" => spins = 0

\* actions->notify() was or is about to be called.
Signalled == signal \/ \E a \in Actors : pc[a] = "signal"

\* A set `notified' either has its signal or will be seen by the loop of
\* process_events() in its first pass, long before the valve.
Seen ==
    notified => \/ Signalled
                \/ /\ pc[Main] # "epoll" /\ spins <= 1
                   /\ pc[Main] = "spin" => spins = 0

\* The main thread tests the buffers again before it sleeps: it is about to, or
\* the round of poll() it is in has found something.
WillTest ==
    \/ pc[Main] = "spin" /\ spins < MaxSpins
    \/ pc[Main] \in {"suspend", "test"}
    \/ found /\ pc[Main] \in {"mark", "execute", "again"} \cup FlushPCs

Covered ==
    \/ WillTest \/ Signalled \/ notified
    \/ \E a \in Actors : pc[a] = "notify"

\* Somebody will execute the exchange of a last resume().
Resuming == suspended > 0 \/ \E a \in Actors : pc[a] = "resumex"

Flushing == \E a \in Actors : pc[a] \in {"flush", "flushx"}

\* Whoever finds "pending" or "executing" may rely on another one.
Relied ==
    /\ pc[Main] \in {"mark", "execute"} => found
    /\ queueing = "executing" => Resuming
    /\ queueing = "pending" => Covered \/ Resuming

Watched ==
    ~Empty => \/ Covered \/ Flushing
              \/ queueing = "pending" /\ Resuming

InOrder == hidden = {}
WakeInv == Shape /\ Seen /\ Relied /\ Watched /\ InOrder

-----------------------------------------------------------------------------
(* Type correctness                                                           *)

\* The sets suspend_count counts are finite.
LEMMA SuspendingFinite ==
    /\ IsFiniteSet(Suspending)
    /\ Cardinality(Suspending) \in Nat
<1>1. IsFiniteSet(Actors)
  BY LoopAssumption, FS_AddElement DEF Actors
<1>2. Suspending \subseteq Actors
  BY DEF Suspending
<1> QED
  BY <1>1, <1>2, FS_Subset, FS_CardinalityType

\* An actor that is counted keeps suspend_count above zero.
LEMMA SuspendingPositive ==
    ASSUME Shape, NEW a \in Actors, pc[a] \in SuspendPCs
    PROVE  suspended > 0
<1>1. a \in Suspending
  BY DEF Suspending
<1>2. Suspending # {}
  BY <1>1
<1> QED
  BY <1>2, SuspendingFinite, FS_EmptySet DEF Shape

\* A step that moves one actor within or outside of SuspendPCs keeps the count;
\* suspend() adds the actor, resume() removes it.
LEMMA Moves ==
    ASSUME Shape, NEW a \in Actors, NEW l \in PCsOf(a), Goto(a, l), UNCHANGED ret
    PROVE  /\ ControlOK'
           /\ pc'[a] = l
           /\ \A b \in Actors : b # a => pc'[b] = pc[b]
           /\ (l \in SuspendPCs <=> pc[a] \in SuspendPCs)
                => Cardinality(Suspending') = suspended
           /\ l \in SuspendPCs /\ pc[a] \notin SuspendPCs
                => Cardinality(Suspending') = suspended + 1
           /\ l \notin SuspendPCs /\ pc[a] \in SuspendPCs
                => Cardinality(Suspending') = suspended - 1
<1>1. pc \in [Actors -> PCs] /\ pc' = [pc EXCEPT ![a] = l]
  BY DEF Shape, ControlOK, Goto, Set
<1>2. /\ pc'[a] = l
      /\ \A b \in Actors : b # a => pc'[b] = pc[b]
  BY <1>1
<1>3. ASSUME l \in SuspendPCs <=> pc[a] \in SuspendPCs
      PROVE  Cardinality(Suspending') = suspended
  <2>1. Suspending' = Suspending
    BY <1>2, <1>3 DEF Suspending
  <2> QED
    BY <2>1 DEF Shape
<1>4. ASSUME l \in SuspendPCs, pc[a] \notin SuspendPCs
      PROVE  Cardinality(Suspending') = suspended + 1
  <2>1. Suspending' = Suspending \cup {a} /\ a \notin Suspending
    BY <1>2, <1>4 DEF Suspending
  <2> QED
    BY <2>1, SuspendingFinite, FS_AddElement DEF Shape
<1>5. ASSUME l \notin SuspendPCs, pc[a] \in SuspendPCs
      PROVE  Cardinality(Suspending') = suspended - 1
  <2>1. Suspending' = Suspending \ {a} /\ a \in Suspending
    BY <1>2, <1>5 DEF Suspending
  <2> QED
    BY <2>1, SuspendingFinite, FS_RemoveElement DEF Shape
<1>6. ControlOK'
  <2>1. l \in PCs
    BY DEF PCsOf, PCs
  <2>2. pc' \in [Actors -> PCs]
    BY <1>1, <2>1
  <2>3. \A b \in Actors : pc'[b] \in PCsOf(b)
    BY <1>2 DEF Shape, ControlOK
  <2> QED
    BY <2>2, <2>3 DEF Shape, ControlOK, PCsOf
<1> QED
  BY <1>2, <1>3, <1>4, <1>5, <1>6

\* Steps that only an actor of one kind takes.
PoolStep(w) == Post(w) \/ Await(w) \/ ParallelTask(w) \/ Appear(w)
LoopStep == \/ Spin \/ Suspend \/ Test \/ Mark \/ Execute \/ Again \/ Condition
            \/ Wake \/ OtherEvent

\* Next, by who may take the step.
LEMMA NextSteps ==
    Next <=> \/ LoopStep
             \/ \E a \in Actors : SharedStep(a)
             \/ \E w \in Workers : PoolStep(w)
  BY DEF Next, ProgramNext, LoopStep, PoolStep, MainStep, WorkerStep, Actors

\* The inductive form implies the type invariant.
LEMMA ShapeTypes == Shape => TypeOK
<1> SUFFICES ASSUME Shape PROVE TypeOK
  OBVIOUS
<1>1. /\ pc[Main] \in MainPCs \cup FlushPCs
      /\ \A w \in Workers : pc[w] \in WorkerPCs \cup FlushPCs
  BY LoopAssumption DEF Shape, ControlOK, PCsOf, Actors
<1>2. ret \in [Actors -> {"idle", "again"}]
  BY DEF Shape, ControlOK
<1> QED
  BY <1>1, <1>2 DEF Shape, ControlOK, DataOK, TypeOK

\* Init: the main thread sleeps, nobody has suspended the warp.
LEMMA ShapeInit == Init => Shape
<1> SUFFICES ASSUME Init PROVE Shape
  OBVIOUS
<1>1. ControlOK
  <2>1. pc \in [Actors -> PCs]
    BY DEF Init, PCs, MainPCs, WorkerPCs
  <2>2. \A a \in Actors : pc[a] \in PCsOf(a)
    BY DEF Init, PCsOf, MainPCs, WorkerPCs
  <2> QED
    BY <2>1, <2>2 DEF Init, ControlOK
<1>2. DataOK
  <2>1. buffer \in [Workers -> Nat] /\ suspended \in Nat /\ spins \in 0 .. MaxSpins
    BY LoopAssumption DEF Init
  <2>2. posts \in [Workers -> 0 .. Posts] /\ awaits \in [Workers -> 0 .. Awaits]
    BY LoopAssumption DEF Init
  <2> QED
    BY <2>1, <2>2 DEF Init, DataOK
<1>3. Suspending = {}
  BY DEF Init, Suspending, SuspendPCs
<1> QED
  BY <1>1, <1>2, <1>3, FS_EmptySet DEF Init, Shape

\* Every step keeps the types and the count of suspenders.
LEMMA ShapeStep == Shape /\ [Next]_vars => Shape'
<1> SUFFICES ASSUME Shape, [Next]_vars PROVE Shape'
  OBVIOUS
<1> USE LoopAssumption DEF MainPCs, WorkerPCs, FlushPCs, SuspendPCs, hooks, loop, bounds
<1>0. Main \in Actors /\ \A w \in Workers : w \in Actors /\ w # Main
  BY DEF Actors
<1>1. ASSUME NEW w \in Workers, PoolStep(w) PROVE Shape'
  <2>1. CASE Post(w)
    <3>1. Goto(w, "flush") /\ UNCHANGED ret /\ "flush" \in PCsOf(w)
      BY <2>1 DEF Post, PCsOf
    <3>2. ControlOK' /\ Cardinality(Suspending') = suspended /\ pc'[Main] = pc[Main]
      BY <1>0, <2>1, <3>1, Moves DEF Post
    <3>3. DataOK'
      BY <2>1 DEF Post, Set, Shape, DataOK
    <3> QED
      BY <2>1, <3>2, <3>3 DEF Post, Shape
  <2>2. CASE Appear(w)
    <3>1. DataOK'
      BY <2>2 DEF Appear, Set, Shape, DataOK
    <3> QED
      BY <2>2, <3>1 DEF Appear, Shape, ControlOK, Suspending
  <2>3. CASE Await(w)
    <3>1. Goto(w, "ptask") /\ UNCHANGED ret /\ "ptask" \in PCsOf(w)
      BY <1>0, <2>3 DEF Await, PCsOf
    <3>2. ControlOK' /\ Cardinality(Suspending') = suspended + 1 /\ pc'[Main] = pc[Main]
      BY <1>0, <2>3, <3>1, Moves DEF Await
    <3>3. DataOK'
      BY <2>3 DEF Await, Set, Shape, DataOK
    <3> QED
      BY <2>3, <3>2, <3>3 DEF Await, Shape
  <2>4. CASE ParallelTask(w)
    <3>1. Goto(w, "resume") /\ UNCHANGED ret /\ "resume" \in PCsOf(w)
      BY <2>4 DEF ParallelTask, PCsOf
    <3>2. ControlOK' /\ Cardinality(Suspending') = suspended /\ pc'[Main] = pc[Main]
      BY <1>0, <2>4, <3>1, Moves DEF ParallelTask
    <3> QED
      BY <2>4, <3>2 DEF ParallelTask, Shape, DataOK
  <2> QED
    BY <1>1, <2>1, <2>2, <2>3, <2>4 DEF PoolStep
<1>2. ASSUME NEW a \in Actors, SharedStep(a) PROVE Shape'
  <2>0. /\ pc[a] \in SuspendPCs => suspended > 0
        /\ ret[a] \in {"again", "idle"}
        /\ {ret[a], "resumex", "flush", "flushx", "notify", "signal"} \subseteq PCsOf(a)
        /\ ret[a] # "epoll"
    BY SuspendingPositive DEF Shape, ControlOK, PCsOf
  \* every label but "resume" is outside of the suspension
  <2>1. ASSUME NEW l \in {ret[a], "resumex", "flush", "flushx", "notify", "signal"},
               Goto(a, l), UNCHANGED <<ret, spins>>, DataOK',
               suspended' = IF pc[a] = "resume" THEN suspended - 1 ELSE suspended,
               pc[a] \in FlushPCs
        PROVE  Shape'
    <3>1. /\ ControlOK' /\ pc'[a] = l
          /\ \A b \in Actors : b # a => pc'[b] = pc[b]
          /\ Cardinality(Suspending') = suspended'
      BY <2>0, <2>1, Moves
    <3>2. pc'[Main] = "epoll" => spins' = 0
      BY <1>0, <2>0, <2>1, <3>1 DEF Shape
    <3> QED
      BY <2>1, <3>1, <3>2 DEF Shape
  <2>2. CASE Resume(a)
    <3>1. DataOK'
      BY <2>0, <2>2 DEF Resume, Shape, DataOK
    <3>2. CASE suspended = 1
      BY <2>1, <2>2, <3>1, <3>2 DEF Resume
    <3>3. CASE suspended # 1
      BY <2>1, <2>2, <3>1, <3>3 DEF Resume
    <3> QED
      BY <3>2, <3>3
  <2>3. CASE ResumeExchange(a)
    <3>1. DataOK'
      BY <2>3 DEF ResumeExchange, Shape, DataOK
    <3> QED
      BY <2>1, <2>3, <3>1 DEF ResumeExchange
  <2>4. CASE Flush(a)
    <3>1. DataOK'
      BY <2>4 DEF Flush, Shape, DataOK
    <3> QED
      BY <2>1, <2>4, <3>1 DEF Flush
  <2>5. CASE FlushExchange(a)
    <3>1. DataOK'
      BY <2>5 DEF FlushExchange, Shape, DataOK
    <3> QED
      BY <2>1, <2>5, <3>1 DEF FlushExchange
  <2>6. CASE Notify(a)
    <3>1. DataOK'
      BY <2>6 DEF Notify, Shape, DataOK
    <3> QED
      BY <2>1, <2>6, <3>1 DEF Notify
  <2>7. CASE Signal(a)
    <3>1. DataOK'
      BY <2>7 DEF Signal, Shape, DataOK
    <3> QED
      BY <2>1, <2>7, <3>1 DEF Signal
  <2> QED
    BY <1>2, <2>2, <2>3, <2>4, <2>5, <2>6, <2>7 DEF SharedStep
<1>3. ASSUME LoopStep PROVE Shape'
  <2>1. ASSUME NEW l \in MainPCs \cup {"resume"}, Goto(Main, l), UNCHANGED ret, DataOK',
               l = "epoll" => spins' = 0,
               suspended' = IF pc[Main] = "suspend" THEN suspended + 1 ELSE suspended,
               pc[Main] = "suspend" => l = "test",
               pc[Main] # "suspend" => (l \in SuspendPCs <=> pc[Main] \in SuspendPCs)
        PROVE  Shape'
    <3>1. l \in PCsOf(Main)
      BY <2>1 DEF PCsOf
    <3>2. /\ ControlOK' /\ pc'[Main] = l
          /\ Cardinality(Suspending') = suspended'
      BY <1>0, <2>1, <3>1, Moves
    <3> QED
      BY <2>1, <3>2 DEF Shape
  <2>2. CASE Spin
    <3>1. DataOK'
      BY <2>2 DEF Spin, Shape, DataOK
    <3> QED
      BY <2>1, <2>2, <3>1 DEF Spin
  <2>3. CASE Suspend
    <3>1. DataOK'
      BY <2>3 DEF Suspend, Shape, DataOK
    <3> QED
      BY <2>1, <2>3, <3>1 DEF Suspend
  <2>4. CASE Test
    <3>1. DataOK'
      BY <2>4 DEF Test, Empty, Shape, DataOK
    <3> QED
      BY <2>1, <2>4, <3>1 DEF Test
  <2>5. CASE Mark
    <3>1. DataOK'
      BY <2>5 DEF Mark, Shape, DataOK
    <3> QED
      BY <2>1, <2>5, <3>1 DEF Mark
  <2>6. CASE Execute
    <3>1. DataOK'
      BY <2>6 DEF Execute, Set, Shape, DataOK
    <3>2. CASE UNCHANGED pc
      BY <2>6, <3>1, <3>2 DEF Execute, Shape, ControlOK, Suspending
    <3>3. CASE Goto(Main, "resume")
      BY <2>1, <2>6, <3>1, <3>3 DEF Execute
    <3> QED
      BY <2>6, <3>2, <3>3 DEF Execute
  <2>7. CASE Again
    <3>1. DataOK'
      BY <2>7 DEF Again, Shape, DataOK
    <3> QED
      BY <2>1, <2>7, <3>1 DEF Again
  <2>8. CASE Condition
    <3>1. spins' \in 0 .. MaxSpins
      BY <2>8 DEF Condition, Shape, DataOK
    <3>2. DataOK'
      BY <2>8, <3>1 DEF Condition, Shape, DataOK
    <3> QED
      BY <2>1, <2>8, <3>2 DEF Condition
  <2>9. CASE Wake
    <3>1. DataOK'
      BY <2>9 DEF Wake, Shape, DataOK
    <3> QED
      BY <2>1, <2>9, <3>1 DEF Wake
  <2>10. CASE OtherEvent
    <3>1. DataOK'
      BY <2>10 DEF OtherEvent, Shape, DataOK
    <3> QED
      BY <2>1, <2>10, <3>1 DEF OtherEvent
  <2> QED
    BY <1>3, <2>2, <2>3, <2>4, <2>5, <2>6, <2>7, <2>8, <2>9, <2>10 DEF LoopStep
<1>4. CASE UNCHANGED vars
  BY <1>4 DEF Shape, ControlOK, DataOK, Suspending, vars
<1> QED
  BY <1>1, <1>2, <1>3, <1>4, NextSteps

\* MainLoop is type correct: in particular suspend_count never falls below zero,
\* whichever of the main thread's poll() and the workers' parallel routines
\* suspends and resumes the warp, and the valve bounds the passes of
\* process_events().
THEOREM TypeCorrect == Spec => []TypeOK
<1>1. Spec => []Shape
  BY ShapeInit, ShapeStep, PTL DEF Spec
<1> QED
  BY <1>1, ShapeTypes, PTL

-----------------------------------------------------------------------------
(* Notifications                                                              *)

\* What a step does to pc, read from its Goto.
LEMMA Jump ==
    ASSUME ControlOK, NEW a \in Actors, NEW l, Goto(a, l)
    PROVE  pc'[a] = l /\ \A b \in Actors : b # a => pc'[b] = pc[b]
  BY DEF ControlOK, Goto, Set

\* Every step keeps a set `notified' in sight: the exchange that sets it is followed
\* by the signal, and only the loop that rereads it withdraws a signal.
LEMMA SeenStep == Shape /\ Seen /\ [Next]_vars => Seen'
<1> SUFFICES ASSUME Shape, Seen, [Next]_vars PROVE Seen'
  OBVIOUS
<1> USE LoopAssumption DEF hooks, loop, bounds
<1>0. /\ Main \in Actors /\ \A w \in Workers : w \in Actors /\ w # Main
      /\ ControlOK /\ spins \in 0 .. MaxSpins
      /\ pc[Main] = "epoll" => spins = 0
  BY DEF Shape, DataOK, Actors
<1>1. ASSUME NEW w \in Workers, PoolStep(w) PROVE Seen'
  <2>1. UNCHANGED <<hooks, loop>>
    BY <1>1 DEF PoolStep, Post, Await, ParallelTask, Appear
  <2>2. pc'[Main] = pc[Main]
    BY <1>0, <1>1, Jump DEF PoolStep, Post, Await, ParallelTask, Appear
  <2>3. \A b \in Actors : pc[b] = "signal" => pc'[b] = "signal"
    BY <1>0, <1>1, Jump DEF PoolStep, Post, Await, ParallelTask, Appear
  <2> QED
    BY <2>1, <2>2, <2>3 DEF Seen, Signalled
<1>2. ASSUME NEW a \in Actors, SharedStep(a) PROVE Seen'
  <2>1. /\ UNCHANGED loop
        /\ \E l : Goto(a, l) /\ l \notin {"epoll", "spin"}
    BY <1>0, <1>2 DEF SharedStep, Resume, ResumeExchange, Flush, FlushExchange, Notify,
       Signal, ControlOK
  <2>2. /\ pc'[Main] = "epoll" => pc[Main] = "epoll"
        /\ pc'[Main] = "spin" => pc[Main] = "spin"
        /\ \A b \in Actors : b # a => pc'[b] = pc[b]
    BY <1>0, <2>1, Jump
  <2>3. CASE Signal(a)
    BY <2>3 DEF Signal, Seen, Signalled
  <2>4. CASE Notify(a) /\ ~notified
    <3>1. pc'[a] = "signal"
      BY <1>0, <2>4, Jump DEF Notify
    <3> QED
      BY <3>1 DEF Seen, Signalled
  <2>5. CASE ~Signal(a) /\ (Notify(a) => notified)
    <3>1. UNCHANGED hooks /\ pc[a] # "signal"
      BY <1>2, <2>5 DEF SharedStep, Resume, ResumeExchange, Flush, FlushExchange, Notify
    <3>2. \A b \in Actors : pc[b] = "signal" => pc'[b] = "signal"
      BY <2>2, <3>1
    <3> QED
      BY <2>1, <2>2, <3>1, <3>2 DEF Seen, Signalled
  <2> QED
    BY <2>3, <2>4, <2>5
<1>3. ASSUME LoopStep PROVE Seen'
  <2>0. /\ \A b \in Actors : b # Main => pc'[b] = pc[b]
        /\ pc[Main] # "signal"
    BY <1>0, <1>3, Jump DEF LoopStep, Spin, Suspend, Test, Mark, Execute, Again,
       Condition, Wake, OtherEvent
  <2>1. \A b \in Actors : pc[b] = "signal" => pc'[b] = "signal"
    BY <2>0
  <2>2. CASE Spin
    <3>1. CASE spins = MaxSpins
      BY <2>1, <2>2, <3>1 DEF Spin, Seen, Signalled
    <3>2. CASE spins # MaxSpins
      <4>1. pc'[Main] = "suspend" /\ spins' = spins + 1
        BY <1>0, <2>2, <3>2, Jump DEF Spin
      <4> QED
        BY <2>1, <2>2, <4>1 DEF Spin, Seen, Signalled
    <3> QED
      BY <3>1, <3>2
  <2>3. CASE Condition
    BY <2>3 DEF Condition, Seen
  <2>4. CASE Wake \/ OtherEvent
    <3>1. pc'[Main] = "spin" /\ spins' = 0
      BY <1>0, <2>4, Jump DEF Wake, OtherEvent
    <3> QED
      BY <3>1 DEF Seen
  <2>5. CASE Suspend \/ Test \/ Mark \/ Execute \/ Again
    <3>1. UNCHANGED <<hooks, spins>> /\ pc'[Main] \notin {"epoll", "spin"}
      BY <1>0, <2>5, Jump DEF Suspend, Test, Mark, Execute, Again
    <3>2. pc[Main] \notin {"epoll", "spin"}
      BY <2>5 DEF Suspend, Test, Mark, Execute, Again
    <3> QED
      BY <2>1, <3>1, <3>2 DEF Seen, Signalled
  <2> QED
    BY <1>3, <2>2, <2>3, <2>4, <2>5 DEF LoopStep
<1>4. CASE UNCHANGED vars
  BY <1>4 DEF Seen, Signalled, vars
<1> QED
  BY <1>1, <1>2, <1>3, <1>4, NextSteps

\* The two together hold in every behaviour.
LEMMA LoopInvariant == Spec => [](Shape /\ Seen)
<1>1. Init => Seen
  BY DEF Init, Seen
<1> QED
  BY <1>1, ShapeInit, ShapeStep, SeenStep, PTL DEF Spec

\* A notification that notify() suppresses because `notified' is set is covered by
\* a signal: with a valve of at least two passes the main thread never sleeps with
\* `notified' set and nothing to wake it.
THEOREM NotificationsCovered == Spec => []NotifyCovered
<1>1. Shape /\ Seen => NotifyCovered
  BY DEF Seen, Signalled, NotifyCovered, Actors
<1> QED
  BY <1>1, LoopInvariant, PTL

-----------------------------------------------------------------------------
(* Wakeups                                                                    *)

\* Once the main thread is going to look, it looks: only a test that finds every
\* buffer empty ends that, and then poll() has yet to resume the warp.
LEMMA CoveredStep ==
    ASSUME Shape, Seen, Relied, Covered, [Next]_vars
    PROVE  Covered' \/ (Empty' /\ suspended' > 0)
<1> USE LoopAssumption DEF hooks, loop, bounds
<1>0. /\ Main \in Actors /\ \A w \in Workers : w \in Actors /\ w # Main
      /\ ControlOK /\ spins \in 0 .. MaxSpins
      /\ pc[Main] = "epoll" => spins = 0
  BY DEF Shape, DataOK, Actors
<1>1. ASSUME NEW w \in Workers, PoolStep(w) PROVE Covered'
  <2>1. UNCHANGED <<hooks, loop>>
    BY <1>1 DEF PoolStep, Post, Await, ParallelTask, Appear
  <2>2. pc'[Main] = pc[Main]
    BY <1>0, <1>1, Jump DEF PoolStep, Post, Await, ParallelTask, Appear
  <2>3. \A b \in Actors : pc[b] \in {"signal", "notify"} => pc'[b] = pc[b]
    BY <1>0, <1>1, Jump DEF PoolStep, Post, Await, ParallelTask, Appear
  <2> QED
    BY <2>1, <2>2, <2>3 DEF Covered, WillTest, Signalled
<1>2. ASSUME NEW a \in Actors, SharedStep(a) PROVE Covered'
  <2>1. CASE Signal(a)
    BY <2>1 DEF Signal, Covered, Signalled
  <2>2. CASE Notify(a)
    BY <2>2 DEF Notify, Covered
  <2>3. CASE ~Signal(a) /\ ~Notify(a)
    <3>1. /\ UNCHANGED <<hooks, loop>> /\ pc[a] \in FlushPCs \ {"signal", "notify"}
          /\ \E l \in FlushPCs \cup {ret[a]} : Goto(a, l)
      BY <1>2, <2>3 DEF SharedStep, Resume, ResumeExchange, Flush, FlushExchange, FlushPCs
    <3>2. ret[Main] = "again"
      BY <1>0 DEF ControlOK
    <3>3. /\ \A b \in Actors : b # a => pc'[b] = pc[b]
          /\ a = Main => pc'[Main] \in FlushPCs \cup {"again"}
      BY <1>0, <3>1, <3>2, Jump
    <3>4. WillTest => WillTest'
      BY <1>0, <3>1, <3>3 DEF WillTest, FlushPCs
    <3>5. \A b \in Actors : pc[b] \in {"signal", "notify"} => pc'[b] = pc[b]
      BY <3>1, <3>3
    <3> QED
      BY <3>1, <3>4, <3>5 DEF Covered, Signalled
  <2> QED
    BY <2>1, <2>2, <2>3
<1>3. ASSUME LoopStep PROVE Covered' \/ (Empty' /\ suspended' > 0)
  <2>0. /\ \A b \in Actors : b # Main => pc'[b] = pc[b]
        /\ pc[Main] \notin {"signal", "notify"}
    BY <1>0, <1>3, Jump DEF LoopStep, Spin, Suspend, Test, Mark, Execute, Again,
       Condition, Wake, OtherEvent
  <2>1. \A b \in Actors : pc[b] \in {"signal", "notify"} => pc'[b] = pc[b]
    BY <2>0
  <2>2. CASE Spin
    <3>1. CASE spins = MaxSpins
      <4>1. ~WillTest /\ (notified => Signalled) /\ UNCHANGED hooks
        BY <1>0, <2>2, <3>1 DEF Spin, WillTest, Seen, FlushPCs
      <4> QED
        BY <2>1, <4>1 DEF Covered, Signalled
    <3>2. CASE spins # MaxSpins
      <4>1. pc'[Main] = "suspend"
        BY <1>0, <2>2, <3>2, Jump DEF Spin
      <4> QED
        BY <4>1 DEF Covered, WillTest
    <3> QED
      BY <3>1, <3>2
  <2>3. CASE Suspend
    <3>1. pc'[Main] = "test"
      BY <1>0, <2>3, Jump DEF Suspend
    <3> QED
      BY <3>1 DEF Covered, WillTest
  <2>4. CASE Test
    <3>1. CASE Empty
      <4>1. suspended > 0
        BY <1>0, <2>4, SuspendingPositive DEF Test, SuspendPCs
      <4> QED
        BY <2>4, <3>1, <4>1 DEF Test, Empty
    <3>2. CASE ~Empty
      <4>1. found' /\ pc'[Main] = "mark"
        BY <1>0, <2>4, <3>2, Jump DEF Test
      <4> QED
        BY <4>1 DEF Covered, WillTest
    <3> QED
      BY <3>1, <3>2
  <2>5. CASE Mark \/ Execute
    <3>1. found' /\ pc'[Main] \in {"execute", "resume"}
      BY <1>0, <2>5, Jump DEF Mark, Execute, Relied
    <3> QED
      BY <3>1 DEF Covered, WillTest, FlushPCs
  <2>6. CASE Again
    <3>1. CASE found
      <4>1. pc'[Main] = "suspend"
        BY <1>0, <2>6, <3>1, Jump DEF Again
      <4> QED
        BY <4>1 DEF Covered, WillTest
    <3>2. CASE ~found
      <4>1. ~WillTest /\ UNCHANGED hooks
        BY <2>6, <3>2 DEF Again, WillTest
      <4> QED
        BY <2>1, <4>1 DEF Covered, Signalled
    <3> QED
      BY <3>1, <3>2
  <2>7. CASE Condition
    <3>1. ~WillTest /\ UNCHANGED signal
      BY <2>7 DEF Condition, WillTest, FlushPCs
    <3>2. CASE notified /\ ~Signalled
      <4>1. pc'[Main] = "spin" /\ spins' <= 1
        BY <1>0, <2>7, <3>2, Jump DEF Condition, Seen
      <4> QED
        BY <1>0, <2>7, <4>1 DEF Covered, WillTest, Condition
    <3>3. CASE ~(notified /\ ~Signalled)
      BY <2>1, <3>1, <3>3 DEF Covered, Signalled
    <3> QED
      BY <3>2, <3>3
  <2>8. CASE Wake \/ OtherEvent
    <3>1. pc'[Main] = "spin" /\ spins' = 0
      BY <1>0, <2>8, Jump DEF Wake, OtherEvent
    <3> QED
      BY <3>1 DEF Covered, WillTest
  <2> QED
    BY <1>3, <2>2, <2>3, <2>4, <2>5, <2>6, <2>7, <2>8 DEF LoopStep
<1>4. CASE UNCHANGED vars
  BY <1>4 DEF Covered, WillTest, Signalled, vars
<1> QED
  BY <1>1, <1>2, <1>3, <1>4, NextSteps

\* Only the exchange of a last resume() ends the wait for it.
LEMMA ResumingStep ==
    ASSUME Shape, Resuming, [Next]_vars
    PROVE  Resuming' \/ \E a \in Actors : ResumeExchange(a)
<1> USE LoopAssumption DEF hooks, loop, bounds
<1>0. /\ Main \in Actors /\ \A w \in Workers : w \in Actors /\ w # Main
      /\ ControlOK /\ suspended \in Nat
  BY DEF Shape, DataOK, Actors
<1>1. ASSUME NEW w \in Workers, PoolStep(w) PROVE Resuming'
  <2>1. suspended' >= suspended
    BY <1>0, <1>1 DEF PoolStep, Post, Await, ParallelTask, Appear
  <2>2. \A b \in Actors : pc[b] = "resumex" => pc'[b] = "resumex"
    BY <1>0, <1>1, Jump DEF PoolStep, Post, Await, ParallelTask, Appear
  <2>3. suspended' \in Nat
    BY <1>0, <1>1 DEF PoolStep, Post, Await, ParallelTask, Appear
  <2> QED
    BY <1>0, <2>1, <2>2, <2>3 DEF Resuming
<1>2. ASSUME NEW a \in Actors, SharedStep(a), ~ResumeExchange(a) PROVE Resuming'
  <2>1. CASE Resume(a)
    <3>1. CASE suspended = 1
      <4>1. pc'[a] = "resumex"
        BY <1>0, <2>1, <3>1, Jump DEF Resume
      <4> QED
        BY <4>1 DEF Resuming
    <3>2. CASE suspended # 1
      <4>1. suspended > 1
        BY <1>0, <2>1, <3>2, SuspendingPositive DEF Resume, SuspendPCs
      <4> QED
        BY <1>0, <2>1, <4>1 DEF Resume, Resuming
    <3> QED
      BY <3>1, <3>2
  <2>2. CASE ~Resume(a)
    <3>1. UNCHANGED suspended /\ pc[a] # "resumex" /\ \E l : Goto(a, l)
      BY <1>2, <2>2 DEF SharedStep, Flush, FlushExchange, Notify, Signal
    <3>2. \A b \in Actors : pc[b] = "resumex" => pc'[b] = "resumex"
      BY <1>0, <3>1, Jump
    <3> QED
      BY <3>1, <3>2 DEF Resuming
  <2> QED
    BY <2>1, <2>2
<1>3. ASSUME LoopStep PROVE Resuming'
  <2>1. suspended' \in {suspended, suspended + 1} /\ pc[Main] # "resumex"
    BY <1>3 DEF LoopStep, Spin, Suspend, Test, Mark, Execute, Again, Condition, Wake,
       OtherEvent
  <2>2. \A b \in Actors : b # Main => pc'[b] = pc[b]
    BY <1>0, <1>3, Jump DEF LoopStep, Spin, Suspend, Test, Mark, Execute, Again,
       Condition, Wake, OtherEvent
  <2> QED
    BY <1>0, <2>1, <2>2 DEF Resuming
<1>4. CASE UNCHANGED vars
  BY <1>4 DEF Resuming, vars
<1> QED
  BY <1>1, <1>2, <1>3, <1>4, NextSteps

\* Every step keeps the promise behind "pending" and "executing": flush() may
\* return without a notification because somebody else is going to look.
LEMMA ReliedStep ==
    ASSUME Shape, Seen, Relied, [Next]_vars
    PROVE  Relied'
<1> USE LoopAssumption DEF hooks, loop, bounds
<1>0. /\ Main \in Actors /\ \A w \in Workers : w \in Actors /\ w # Main
      /\ ControlOK
  BY DEF Shape, Actors
<1>1. pc'[Main] \in {"mark", "execute"} => found'
  <2>1. ASSUME NEW w \in Workers, PoolStep(w)
        PROVE  UNCHANGED found /\ pc'[Main] = pc[Main]
    BY <1>0, <2>1, Jump DEF PoolStep, Post, Await, ParallelTask, Appear
  <2>2. ASSUME NEW a \in Actors, SharedStep(a)
        PROVE  UNCHANGED found /\ (pc'[Main] \in {"mark", "execute"} => pc'[Main] = pc[Main])
    <3>1. UNCHANGED found /\ \E l : Goto(a, l) /\ l \notin {"mark", "execute"}
      BY <1>0, <2>2 DEF SharedStep, Resume, ResumeExchange, Flush, FlushExchange, Notify,
         Signal, ControlOK
    <3> QED
      BY <1>0, <3>1, Jump
  <2>3. ASSUME LoopStep
        PROVE  pc'[Main] \in {"mark", "execute"} => found'
    <3>1. CASE Test
      <4>1. CASE Empty
        BY <1>0, <3>1, <4>1, Jump DEF Test
      <4>2. CASE ~Empty
        BY <3>1, <4>2 DEF Test
      <4> QED
        BY <4>1, <4>2
    <3>2. CASE Mark \/ Execute
      BY <1>0, <3>2, Jump DEF Mark, Execute, Relied
    <3>3. CASE Spin \/ Suspend \/ Again \/ Condition \/ Wake \/ OtherEvent
      BY <1>0, <3>3, Jump DEF Spin, Suspend, Again, Condition, Wake, OtherEvent
    <3> QED
      BY <2>3, <3>1, <3>2, <3>3 DEF LoopStep
  <2>4. CASE UNCHANGED vars
    BY <2>4 DEF vars, Relied
  <2> QED
    BY <2>1, <2>2, <2>3, <2>4, NextSteps DEF Relied
<1>2. ASSUME NEW a \in Actors, ResumeExchange(a)
      PROVE  queueing' = "idle"
  BY <1>2 DEF ResumeExchange
<1>3. CASE Mark
  <2>1. suspended > 0
    BY <1>0, <1>3, SuspendingPositive DEF Mark, SuspendPCs
  <2> QED
    BY <1>1, <1>3, <2>1 DEF Mark, Relied, Resuming
<1>4. ASSUME NEW a \in Actors, FlushExchange(a), queueing = "idle"
      PROVE  Relied'
  <2>1. pc'[a] = "notify" /\ queueing' = "pending"
    BY <1>0, <1>4, Jump DEF FlushExchange
  <2> QED
    BY <1>1, <2>1 DEF Relied, Covered
<1>5. ASSUME NEW a \in Actors, FlushExchange(a), queueing # "idle"
      PROVE  Relied'
  <2>1. (Covered \/ Resuming) /\ queueing' = "pending"
    BY <1>5 DEF FlushExchange, Relied, Shape, DataOK
  <2> QED
    BY <1>1, <1>2, <2>1, CoveredStep, ResumingStep DEF Relied, Resuming
<1>6. CASE UNCHANGED queueing
  BY <1>1, <1>2, <1>6, CoveredStep, ResumingStep DEF Relied, Resuming
<1>7. \/ Mark \/ UNCHANGED queueing
      \/ \E a \in Actors : FlushExchange(a) \/ ResumeExchange(a)
  <2>1. ASSUME NEW w \in Workers, PoolStep(w) PROVE UNCHANGED queueing
    BY <2>1 DEF PoolStep, Post, Await, ParallelTask, Appear
  <2>2. ASSUME NEW a \in Actors, SharedStep(a), ~FlushExchange(a), ~ResumeExchange(a)
        PROVE  UNCHANGED queueing
    BY <2>2 DEF SharedStep, Resume, Flush, Notify, Signal
  <2>3. ASSUME LoopStep, ~Mark PROVE UNCHANGED queueing
    BY <2>3 DEF LoopStep, Spin, Suspend, Test, Execute, Again, Condition, Wake, OtherEvent
  <2>4. CASE UNCHANGED vars
    BY <2>4 DEF vars
  <2> QED
    BY <2>1, <2>2, <2>3, <2>4, NextSteps
<1>8. ASSUME NEW a \in Actors, ResumeExchange(a) PROVE Relied'
  BY <1>1, <1>2, <1>8 DEF Relied
<1> QED
  BY <1>3, <1>4, <1>5, <1>6, <1>7, <1>8

\* Every step keeps somebody responsible for a buffer that is not empty.
LEMMA WatchedStep ==
    ASSUME Shape, Seen, Relied, Watched, InOrder, [Next]_vars
    PROVE  Watched'
<1> USE LoopAssumption DEF hooks, loop, bounds
<1>0. /\ Main \in Actors /\ \A w \in Workers : w \in Actors /\ w # Main
      /\ ControlOK
  BY DEF Shape, Actors
<1>1. ASSUME NEW w \in Workers, Post(w) PROVE Flushing'
  BY <1>0, <1>1, Jump DEF Post, Flushing
<1>2. ASSUME NEW w \in Workers, PoolStep(w), ~Post(w)
      PROVE  UNCHANGED <<buffer, queueing>>
             /\ \A b \in Actors : pc[b] \in {"flush", "flushx"} => pc'[b] = pc[b]
  BY <1>0, <1>2, Jump DEF PoolStep, Await, ParallelTask, Appear, InOrder
<1>3. ASSUME LoopStep
      PROVE  \A b \in Actors : pc[b] \in {"flush", "flushx"} => pc'[b] = pc[b]
  <2>1. \A b \in Actors : b # Main => pc'[b] = pc[b]
    BY <1>0, <1>3, Jump DEF LoopStep, Spin, Suspend, Test, Mark, Execute, Again,
       Condition, Wake, OtherEvent
  <2>2. pc[Main] \notin {"flush", "flushx"}
    BY <1>3 DEF LoopStep, Spin, Suspend, Test, Mark, Execute, Again, Condition, Wake,
       OtherEvent
  <2> QED
    BY <2>1, <2>2
<1>4. Covered => Watched'
  BY CoveredStep DEF Watched
<1>5. CASE Mark \/ Execute
  <2>1. Covered
    BY <1>5 DEF Mark, Execute, Relied, Covered, WillTest
  <2> QED
    BY <1>4, <2>1
<1>6. ASSUME UNCHANGED <<buffer, queueing>>,
             \A b \in Actors : pc[b] \in {"flush", "flushx"} => pc'[b] = pc[b]
      PROVE  Watched'
  <2>1. Empty' <=> Empty
    BY <1>6 DEF Empty
  <2>2. Flushing => Flushing'
    BY <1>6 DEF Flushing
  <2>3. ASSUME queueing = "pending", Resuming PROVE Watched'
    <3>1. ASSUME NEW a \in Actors, ResumeExchange(a) PROVE FALSE
      BY <1>6, <2>3, <3>1 DEF ResumeExchange
    <3> QED
      BY <1>6, <2>3, <3>1, ResumingStep DEF Watched
  <2> QED
    BY <1>4, <2>1, <2>2, <2>3 DEF Watched
<1>7. ASSUME NEW a \in Actors, SharedStep(a) PROVE Watched'
  <2>0. UNCHANGED buffer /\ (Empty' <=> Empty)
    BY <1>7 DEF SharedStep, Resume, ResumeExchange, Flush, FlushExchange, Notify, Signal,
       Empty
  <2>1. CASE ResumeExchange(a)
    <3>1. \A b \in Actors : b # a => pc'[b] = pc[b]
      BY <1>0, <2>1, Jump DEF ResumeExchange
    <3>2. Flushing => Flushing'
      BY <2>1, <3>1 DEF ResumeExchange, Flushing
    <3>3. queueing = "pending" => Flushing'
      BY <1>0, <2>1, Jump DEF ResumeExchange, Flushing
    <3> QED
      BY <1>4, <2>0, <3>2, <3>3 DEF Watched
  <2>2. CASE Flush(a) /\ queueing # "pending"
    <3>1. pc'[a] = "flushx"
      BY <1>0, <2>2, Jump DEF Flush
    <3> QED
      BY <3>1 DEF Watched, Flushing
  <2>3. CASE (Flush(a) /\ queueing = "pending") \/ FlushExchange(a)
    <3>1. queueing' = "pending"
      BY <2>3 DEF Flush, FlushExchange
    <3> QED
      BY <3>1, ReliedStep DEF Watched, Relied
  <2>4. CASE Resume(a) \/ Notify(a) \/ Signal(a)
    <3>1. UNCHANGED queueing /\ pc[a] \notin {"flush", "flushx"} /\ \E l : Goto(a, l)
      BY <2>4 DEF Resume, Notify, Signal
    <3>2. \A b \in Actors : pc[b] \in {"flush", "flushx"} => pc'[b] = pc[b]
      BY <1>0, <3>1, Jump
    <3> QED
      BY <1>6, <2>0, <3>1, <3>2
  <2> QED
    BY <1>7, <2>1, <2>2, <2>3, <2>4 DEF SharedStep
<1>8. ASSUME LoopStep, ~Mark, ~Execute PROVE UNCHANGED <<buffer, queueing>>
  BY <1>8 DEF LoopStep, Spin, Suspend, Test, Again, Condition, Wake, OtherEvent
<1>9. CASE UNCHANGED vars
  BY <1>6, <1>9 DEF vars
<1> QED
  BY <1>1, <1>2, <1>3, <1>5, <1>6, <1>7, <1>8, <1>9, NextSteps DEF Watched

\* Without store buffers no post is ever hidden.
LEMMA InOrderStep ==
    ASSUME ~StoreBuffers, InOrder, [Next]_vars
    PROVE  InOrder'
<1>1. ASSUME NEW w \in Workers, PoolStep(w) PROVE InOrder'
  BY <1>1 DEF PoolStep, Post, Await, ParallelTask, Appear, InOrder
<1>2. ASSUME NEW a \in Actors, SharedStep(a) PROVE InOrder'
  BY <1>2 DEF SharedStep, Resume, ResumeExchange, Flush, FlushExchange, Notify, Signal,
     InOrder
<1>3. ASSUME LoopStep PROVE InOrder'
  BY <1>3 DEF LoopStep, Spin, Suspend, Test, Mark, Execute, Again, Condition, Wake,
     OtherEvent, InOrder
<1>4. CASE UNCHANGED vars
  BY <1>4 DEF vars, InOrder
<1> QED
  BY <1>1, <1>2, <1>3, <1>4, NextSteps

\* Where a store is visible before the thread's next load, the main thread never
\* sleeps on a posted routine: neither the states of `queueing' nor `notified'
\* suppress the last wakeup, for any number of workers, of posts and of
\* suspensions and any valve of at least two passes.
THEOREM WakeupsKept ==
    ASSUME ~StoreBuffers
    PROVE  Spec => []NoLostWakeup
<1>1. Init => WakeInv
  <2> SUFFICES ASSUME Init PROVE WakeInv
    OBVIOUS
  <2>1. Empty
    BY DEF Init, Empty
  <2> QED
    BY <2>1, ShapeInit DEF Init, WakeInv, Seen, Relied, Watched, InOrder, Actors
<1>2. WakeInv /\ [Next]_vars => WakeInv'
  BY ShapeStep, SeenStep, ReliedStep, WatchedStep, InOrderStep DEF WakeInv
<1>3. WakeInv => NoLostWakeup
  <2> SUFFICES ASSUME WakeInv, Asleep, AtRest PROVE Empty
    BY DEF NoLostWakeup
  <2>1. \A a \in Actors : pc[a] \in {"epoll", "idle"}
    BY DEF Asleep, AtRest, Actors
  <2>2. ~Signalled /\ ~Flushing /\ ~Resuming
    BY <2>1 DEF Asleep, AtRest, Signalled, Flushing, Resuming
  <2>3. ~Covered
    BY <2>1, <2>2 DEF Asleep, Covered, WillTest, WakeInv, Seen, FlushPCs
  <2> QED
    BY <2>2, <2>3 DEF WakeInv, Watched
<1> QED
  BY <1>1, <1>2, <1>3, PTL DEF Spec
=============================================================================
