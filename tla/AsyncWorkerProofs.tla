------------------------- MODULE AsyncWorkerProofs -------------------------
(***************************************************************************)
(* Proofs about AsyncWorker for any number of threads, duplicates and      *)
(* tasks: type correctness (no scan leaves task_heads, nobody reads the    *)
(* head of an empty list), that the counters of running_guard_t and        *)
(* waiting_guard_t are exact on every path, and that no wakeup is lost.    *)
(***************************************************************************)
EXTENDS AsyncWorker, FiniteSetTheorems, SequenceTheorems, TLAPS

\* The labels of a pool thread and of the owner.
PollingPCs == PollPCs \cup QueuePCs \cup WakePCs \cup ExecPCs
WorkerPCs == {"exited", "loop", "delay"} \cup DelayPCs \cup PollingPCs
OwnerPCs == {"idle"} \cup JoinPCs \cup QueuePCs \cup WakePCs \cup ExecPCs

\* Where a thread is that has detached a task and has a place to return to.
ReturnPCs == {"repush", "look", "lookfetch"} \cup QueuePCs \cup WakePCs

ControlOK ==
    /\ pc \in [Actors -> PCs]
    /\ ret \in [Actors -> {"idle", "exec", "finish"}]
    /\ \A w \in Workers : /\ pc[w] \in WorkerPCs
                          /\ pc[w] \in ReturnPCs => ret[w] # "idle"
    /\ pc[Main] \in OwnerPCs /\ ret[Main] # "exec"

\* No label that reads the head of a list is reached with an empty one.
ChainsOK ==
    /\ heads \in [Slots -> Seq(Tasks)]
    /\ hold \in [Actors -> Seq(Tasks)]
    /\ org \in [Actors -> Seq(Tasks)]
    /\ item \in [Actors -> Tasks \cup {None}]
    /\ \A a \in Actors :
          /\ pc[a] \in QueuePCs => item[a] # None
          /\ pc[a] \in {"putback"} \cup ExecPCs => hold[a] # << >>
          /\ pc[a] \in ReturnPCs /\ ret[a] # "idle" => hold[a] # << >>
          /\ pc[a] = "repush" => org[a] # << >>

ScanOK ==
    /\ at \in [Actors -> 0 .. ThreadCount * Dup]
    /\ view \in [Actors -> 0 .. ThreadCount]
    /\ slot \in [Actors -> Slots]
    /\ \A a \in Actors : pc[a] = "cas" => at[a] < Dup

CountsOK ==
    /\ running = Cardinality(Polling)
    /\ waiting = Cardinality(Registered)

\* The owner executes tasks only before start() and in join(), when no pool thread
\* is left.
Closing ==
    \/ pc[Main] \in ExecPCs \cup {"drain"}
    \/ pc[Main] \in QueuePCs \cup WakePCs /\ ret[Main] = "finish"
OwnerOK ==
    /\ ~live \/ Closing => terminated /\ \A w \in Workers : pc[w] = "exited"
    /\ pc[Main] \in JoinPCs => terminated

RestOK ==
    /\ live \in BOOLEAN /\ dirty \in BOOLEAN /\ terminated \in BOOLEAN
    /\ starts \in 0 .. MaxStarts
    /\ taskCount \in Int
    /\ spins \in [Actors -> Nat]
    /\ fresh \in SUBSET Workers
    /\ created \in SUBSET Tasks /\ done \in SUBSET Tasks
    /\ runs \in [Tasks -> Nat]

Shape == ControlOK /\ ChainsOK /\ ScanOK /\ CountsOK /\ OwnerOK /\ RestOK

-----------------------------------------------------------------------------
(* What the steps have in common                                              *)

\* The steps in which an actor moves from label to label alone; the others are
\* notify_one(), notify_all() and start().
PushStep(a) == QueueTask(a) \/ QueueCas(a) \/ QueueChain(a) \/ QueueLate(a)
WakeStep(a) == WakeGate(a) \/ BumpEpoch(a, "bump", "notify")
PollStep(w) ==
    \/ Fetch(w, "fetch", "take", "miss")
    \/ Take(w) \/ PutBack(w) \/ Repush(w) \/ Look(w)
    \/ Fetch(w, "lookfetch", "gate", "exec")
DelayStep(w) ==
    \/ DelayLoop(w) \/ DelaySpin(w) \/ ReadEpoch(w) \/ Recheck(w) \/ EpochWait(w)
    \/ Fetch(w, "d1", "unreg", "spin")
    \/ Fetch(w, "d2", "unreg", "epoch")
    \/ Fetch(w, "d3", "unreg", "wait")
GuardStep(w) ==
    \/ ThreadLoop(w) \/ DelayEnter(w) \/ Unregister(w)
    \/ LeavePoll(w, "leave", "loop") \/ LeavePoll(w, "miss", "delay")

\* Next, by these classes.
LEMMA StepClasses ==
    Next => \/ \E a \in Actors : PushStep(a) \/ WakeStep(a) \/ Exec(a) \/ Finish(a)
            \/ \E w \in Workers : PollStep(w) \/ DelayStep(w) \/ GuardStep(w)
            \/ \E a \in Actors : NotifyOne(a)
            \/ NotifyAll(Main) \/ BumpEpoch(Main, "bumpall", "notifyall")
            \/ Join \/ Drain \/ Terminate \/ Queue
            \/ Start
  BY DEF Next, CommonStep, WorkerStep, OwnerStep, OwnerCall, PushStep, WakeStep, PollStep,
         DelayStep, GuardStep

\* The owner is not a pool thread.
LEMMA ActorsAre ==
    /\ W \in Nat /\ Dup \in Nat /\ Dup > 0 /\ ThreadCount \in Nat /\ ThreadCount = W + 1
    /\ Main \in Actors
    /\ \A w \in Workers : w \in Actors /\ w # Main
    /\ \A a \in Actors : a \in Workers \/ a = Main
  BY PoolAssumption DEF Workers, Main, Actors, ThreadCount

\* What Goto does.
LEMMA Jump ==
    ASSUME ControlOK, NEW a \in Actors, NEW l, Goto(a, l)
    PROVE  pc'[a] = l /\ \A b \in Actors : b # a => pc'[b] = pc[b]
  BY DEF ControlOK, Goto

\* A move of one actor keeps ControlOK.
LEMMA ControlMove ==
    ASSUME ControlOK, NEW a \in Actors, NEW l, Goto(a, l),
           ret' \in [Actors -> {"idle", "exec", "finish"}],
           \A b \in Actors : b # a => ret'[b] = ret[b],
           a \in Workers => l \in WorkerPCs /\ (l \in ReturnPCs => ret'[a] # "idle"),
           a = Main => l \in OwnerPCs /\ ret'[a] # "exec"
    PROVE  ControlOK'
<1>1. pc'[a] = l /\ \A b \in Actors : b # a => pc'[b] = pc[b]
  BY Jump
<1>2. l \in PCs
  BY ActorsAre DEF WorkerPCs, OwnerPCs, PollingPCs, PCs
<1>3. pc' \in [Actors -> PCs]
  BY <1>2 DEF ControlOK, Goto
<1>4. \A w \in Workers : pc'[w] \in WorkerPCs /\ (pc'[w] \in ReturnPCs => ret'[w] # "idle")
  BY <1>1, ActorsAre DEF ControlOK
<1>5. pc'[Main] \in OwnerPCs /\ ret'[Main] # "exec"
  BY <1>1, ActorsAre DEF ControlOK
<1> QED
  BY <1>3, <1>4, <1>5 DEF ControlOK

-----------------------------------------------------------------------------
(* Control                                                                    *)

\* Every step keeps each actor on its own labels, and a thread that queues or wakes
\* from inside poll_one() never returns to "idle".
LEMMA ControlStep ==
    ASSUME Shape, [Next]_vars
    PROVE  ControlOK'
<1> USE DEF PollPCs, DelayPCs, QueuePCs, WakePCs, ExecPCs, JoinPCs, PollingPCs,
            WorkerPCs, OwnerPCs, ReturnPCs
<1>0. /\ ControlOK
      /\ pc \in [Actors -> PCs] /\ ret \in [Actors -> {"idle", "exec", "finish"}]
      /\ \A a \in Actors : pc[a] \in ReturnPCs => ret[a] \in WorkerPCs \cup OwnerPCs
  BY DEF Shape, ControlOK
<1>1. ASSUME NEW a \in Actors, NEW l, Goto(a, l), UNCHANGED ret,
             a \in Workers => l \in WorkerPCs /\ (l \in ReturnPCs => pc[a] \in ReturnPCs),
             a = Main => l \in OwnerPCs
      PROVE  ControlOK'
  <2>1. a \in Workers /\ l \in ReturnPCs => ret'[a] # "idle"
    BY <1>0, <1>1 DEF ControlOK
  <2> QED
    BY <1>0, <1>1, <2>1, ControlMove, ActorsAre DEF ControlOK
<1>1a. ASSUME NEW a \in Actors, NEW l, NEW r \in {"idle", "exec", "finish"},
             Goto(a, l), ret' = Set(ret, a, r),
             a \in Workers => l \in WorkerPCs /\ (l \in ReturnPCs => r # "idle"),
             a = Main => l \in OwnerPCs /\ r # "exec"
      PROVE  ControlOK'
  <2>1. /\ ret' \in [Actors -> {"idle", "exec", "finish"}] /\ ret'[a] = r
        /\ \A b \in Actors : b # a => ret'[b] = ret[b]
    BY <1>0, <1>1a DEF Set
  <2> QED
    BY <1>0, <1>1a, <2>1, ControlMove
<1>2. ASSUME NEW a \in Actors, PushStep(a) \/ WakeStep(a) PROVE ControlOK'
  <2>1. ret[a] \in IF a = Main THEN {"idle", "finish"} ELSE {"exec", "finish"}
    BY <1>0, <1>2, ActorsAre DEF ControlOK, PushStep, WakeStep, QueueTask, QueueCas,
       QueueChain, QueueLate, WakeGate, BumpEpoch
  <2>2. \E l \in {"cas", "late", "exec", "gate", "chain", "bump", "notify", ret[a]} :
           Goto(a, l) /\ UNCHANGED ret
    BY <1>2 DEF PushStep, WakeStep, QueueTask, QueueCas, QueueChain, QueueLate, Push,
       WakeGate, BumpEpoch
  <2>3. pc[a] \in ReturnPCs
    BY <1>2 DEF PushStep, WakeStep, QueueTask, QueueCas, QueueChain, QueueLate, WakeGate,
       BumpEpoch
  <2> QED
    BY <1>1, <2>1, <2>2, <2>3, ActorsAre
<1>3. ASSUME NEW a \in Actors, Exec(a) PROVE ControlOK'
  <2>1. CASE Goto(a, "finish") /\ UNCHANGED ret
    BY <1>1, <2>1
  <2>2. CASE Goto(a, "queue") /\ ret' = Set(ret, a, "finish")
    BY <1>1a, <2>2
  <2> QED
    BY <1>3, <2>1, <2>2 DEF Exec, NewTask
<1>4. ASSUME NEW a \in Actors, Finish(a) PROVE ControlOK'
  <2>1. \E l \in {"drain", "idle", "exec", "finish", "leave"} :
           Goto(a, l) /\ UNCHANGED ret /\ (a = Main => l # "leave") /\ (a # Main => l = "leave")
    BY <1>4 DEF Finish, AfterOwnTask
  <2> QED
    BY <1>1, <2>1, ActorsAre
<1>5. ASSUME NEW w \in Workers, PollStep(w) PROVE ControlOK'
  <2>1. CASE PutBack(w)
    <3>1. ret' = Set(ret, w, "exec") /\ \E l \in {"look", "repush"} : Goto(w, l)
      BY <2>1 DEF PutBack
    <3> QED
      BY <1>1a, <3>1, ActorsAre
  <2>2. CASE UNCHANGED pc /\ UNCHANGED ret
    BY <1>0, <2>2 DEF ControlOK
  <2>3. CASE ~PutBack(w) /\ ~UNCHANGED pc
    <3>1. \E l \in {"take", "miss", "leave", "putback", "gate", "repush", "exec", "lookfetch"} :
             /\ Goto(w, l) /\ UNCHANGED ret
             /\ l \in ReturnPCs => pc[w] \in ReturnPCs
      BY <1>5, <2>3 DEF PollStep, Fetch, StartFetch, Take, Repush, Look
    <3> QED
      BY <1>1, <3>1, ActorsAre
  <2>4. UNCHANGED ret \/ PutBack(w)
    BY <1>5 DEF PollStep, Fetch, Take, Repush, Look
  <2> QED
    BY <2>1, <2>2, <2>3, <2>4
<1>6. ASSUME NEW w \in Workers, DelayStep(w) PROVE ControlOK'
  <2>1. /\ UNCHANGED ret
        /\ UNCHANGED pc \/ \E l \in DelayPCs : Goto(w, l)
    BY <1>6 DEF DelayStep, DelayLoop, DelaySpin, ReadEpoch, Recheck, EpochWait, Fetch,
       StartFetch
  <2>2. CASE UNCHANGED pc
    BY <1>0, <2>1, <2>2 DEF ControlOK
  <2> QED
    BY <1>1, <2>1, <2>2, ActorsAre
<1>7. ASSUME NEW w \in Workers, GuardStep(w) PROVE ControlOK'
  <2>1. /\ UNCHANGED ret \/ ret' = Set(ret, w, "idle")
        /\ \E l \in {"exited", "fetch", "loop", "d0", "delay"} : Goto(w, l)
    BY <1>7 DEF GuardStep, ThreadLoop, StartFetch, DelayEnter, Unregister, LeavePoll
  <2> QED
    BY <1>1, <1>1a, <2>1, ActorsAre
<1>8. ASSUME NEW a \in Actors, NotifyOne(a) PROVE ControlOK'
  <2>1. ret[a] \in IF a = Main THEN {"idle", "finish"} ELSE {"exec", "finish"}
    BY <1>0, <1>8, ActorsAre DEF ControlOK, NotifyOne
  <2>2. CASE Goto(a, ret[a])
    BY <1>1, <1>8, <2>1, <2>2, ActorsAre DEF NotifyOne
  <2>3. ASSUME NEW w \in Asleep, pc' = [pc EXCEPT ![a] = ret[a], ![w] = "wait"]
        PROVE  ControlOK'
    <3>1. w \in Workers /\ w \in Actors /\ w # a
      BY <1>8, ActorsAre DEF Asleep, NotifyOne
    <3>2. /\ pc' \in [Actors -> PCs] /\ pc'[a] = ret[a] /\ pc'[w] = "wait"
          /\ \A b \in Actors \ {a, w} : pc'[b] = pc[b]
      BY <1>0, <2>1, <2>3, <3>1 DEF PCs
    <3>3. UNCHANGED ret
      BY <1>8 DEF NotifyOne
    <3>4. \A v \in Workers : pc'[v] \in WorkerPCs /\ (pc'[v] \in ReturnPCs => ret'[v] # "idle")
      BY <1>0, <2>1, <3>1, <3>2, <3>3, ActorsAre DEF ControlOK
    <3>5. pc'[Main] \in OwnerPCs /\ ret'[Main] # "exec"
      BY <1>0, <2>1, <3>1, <3>2, <3>3, ActorsAre DEF ControlOK
    <3> QED
      BY <1>0, <3>2, <3>3, <3>4, <3>5 DEF ControlOK
  <2> QED
    BY <1>8, <2>2, <2>3 DEF NotifyOne
<1>9. CASE NotifyAll(Main)
  <2>1. /\ UNCHANGED ret
        /\ \A b \in Actors : pc'[b] = IF b = Main THEN "join"
                                      ELSE IF b \in Asleep THEN "wait" ELSE pc[b]
    BY <1>9 DEF NotifyAll
  <2>2. pc' \in [Actors -> PCs]
    BY <1>0, <1>9 DEF NotifyAll, PCs
  <2>3. \A v \in Workers : pc'[v] \in WorkerPCs /\ (pc'[v] \in ReturnPCs => ret'[v] # "idle")
    BY <1>0, <2>1, ActorsAre DEF ControlOK
  <2>4. pc'[Main] \in OwnerPCs /\ ret'[Main] # "exec"
    BY <1>0, <2>1, ActorsAre DEF ControlOK
  <2> QED
    BY <1>0, <2>1, <2>2, <2>3, <2>4 DEF ControlOK
<1>10. CASE BumpEpoch(Main, "bumpall", "notifyall") \/ Join \/ Drain \/ Terminate
  <2>1. /\ UNCHANGED ret
        /\ \E l \in {"notifyall", "drain", "exec", "idle", "bumpall"} : Goto(Main, l)
    BY <1>10 DEF BumpEpoch, Join, Drain, Terminate
  <2> QED
    BY <1>1, <2>1, ActorsAre
<1>11. CASE Queue
  <2>1. Goto(Main, "queue") /\ ret' = Set(ret, Main, "idle")
    BY <1>11 DEF Queue, NewTask
  <2> QED
    BY <1>1a, <2>1, ActorsAre
<1>12. CASE Start
  <2>1. /\ UNCHANGED ret
        /\ pc' = [a \in Actors |-> IF a = Main THEN "idle" ELSE "loop"]
    BY <1>12 DEF Start
  <2>2. pc' \in [Actors -> PCs]
    BY <2>1 DEF PCs
  <2> QED
    BY <1>0, <2>1, <2>2, ActorsAre DEF ControlOK
<1>13. CASE UNCHANGED vars
  BY <1>0, <1>13 DEF ControlOK, vars
<1> QED
  BY <1>2, <1>3, <1>4, <1>5, <1>6, <1>7, <1>8, <1>9, <1>10, <1>11, <1>12, <1>13,
     StepClasses

-----------------------------------------------------------------------------
(* Counters                                                                   *)

\* The pool has W threads.
LEMMA WorkersFinite == IsFiniteSet(Workers) /\ Cardinality(Workers) = W
<1>1. 0 \in Int /\ W - 1 \in Int /\ W \in Nat
  BY ActorsAre
<1>2. IsFiniteSet(0 .. W - 1) /\ Cardinality(0 .. W - 1) = IF 0 > W - 1 THEN 0 ELSE W - 1 - 0 + 1
  BY <1>1, FS_Interval
<1> QED
  BY <1>1, <1>2 DEF Workers

\* The counted sets are finite and no larger than the pool.
LEMMA CountsFinite ==
    /\ IsFiniteSet(Polling) /\ Cardinality(Polling) \in Nat
    /\ IsFiniteSet(Registered) /\ Cardinality(Registered) \in 0 .. W
<1>1. IsFiniteSet(Workers) /\ Cardinality(Workers) = W
  BY WorkersFinite
<1>2. Polling \subseteq Workers /\ Registered \subseteq Workers
  BY DEF Polling, Registered
<1> QED
  BY <1>1, <1>2, FS_Subset, FS_CardinalityType, ActorsAre

\* A move of pool thread w changes the two sets by w at most.
LEMMA CountMove ==
    ASSUME ControlOK, CountsOK, NEW w \in Workers, NEW l,
           pc'[w] = l, \A v \in Workers : v # w => pc'[v] = pc[v]
    PROVE  /\ (l \in PollingPCs <=> pc[w] \in PollingPCs)
                => Cardinality(Polling') = running
           /\ l \in PollingPCs /\ pc[w] \notin PollingPCs
                => Cardinality(Polling') = running + 1
           /\ l \notin PollingPCs /\ pc[w] \in PollingPCs
                => Cardinality(Polling') = running - 1
           /\ (l \in DelayPCs <=> pc[w] \in DelayPCs)
                => Cardinality(Registered') = waiting
           /\ l \in DelayPCs /\ pc[w] \notin DelayPCs
                => Cardinality(Registered') = waiting + 1
           /\ l \notin DelayPCs /\ pc[w] \in DelayPCs
                => Cardinality(Registered') = waiting - 1
<1>0. Polling = {v \in Workers : pc[v] \in PollingPCs}
      /\ Polling' = {v \in Workers : pc'[v] \in PollingPCs}
  BY DEF Polling, PollingPCs
<1>1. ASSUME l \in PollingPCs <=> pc[w] \in PollingPCs
      PROVE  Polling' = Polling
  BY <1>0, <1>1
<1>2. ASSUME l \in PollingPCs, pc[w] \notin PollingPCs
      PROVE  Polling' = Polling \cup {w} /\ w \notin Polling
  BY <1>0, <1>2
<1>3. ASSUME l \notin PollingPCs, pc[w] \in PollingPCs
      PROVE  Polling' = Polling \ {w} /\ w \in Polling
  BY <1>0, <1>3
<1>4. ASSUME l \in DelayPCs <=> pc[w] \in DelayPCs
      PROVE  Registered' = Registered
  BY <1>4 DEF Registered
<1>5. ASSUME l \in DelayPCs, pc[w] \notin DelayPCs
      PROVE  Registered' = Registered \cup {w} /\ w \notin Registered
  BY <1>5 DEF Registered
<1>6. ASSUME l \notin DelayPCs, pc[w] \in DelayPCs
      PROVE  Registered' = Registered \ {w} /\ w \in Registered
  BY <1>6 DEF Registered
<1>7. /\ running = Cardinality(Polling) /\ waiting = Cardinality(Registered)
      /\ IsFiniteSet(Polling) /\ IsFiniteSet(Registered)
  BY CountsFinite DEF CountsOK
<1>8. /\ w \notin Polling => Cardinality(Polling \cup {w}) = running + 1
      /\ w \in Polling => Cardinality(Polling \ {w}) = running - 1
      /\ w \notin Registered => Cardinality(Registered \cup {w}) = waiting + 1
      /\ w \in Registered => Cardinality(Registered \ {w}) = waiting - 1
  BY <1>7, FS_AddElement, FS_RemoveElement
<1> QED
  BY <1>1, <1>2, <1>3, <1>4, <1>5, <1>6, <1>7, <1>8

\* Every step keeps the two counters exact: only the guards' constructors and
\* destructors move a thread into or out of the counted regions.
LEMMA CountsStep ==
    ASSUME Shape, [Next]_vars
    PROVE  CountsOK'
<1> USE DEF PollPCs, DelayPCs, QueuePCs, WakePCs, ExecPCs, JoinPCs, PollingPCs, counters
<1>0. /\ ControlOK /\ CountsOK
      /\ pc \in [Actors -> PCs] /\ ret \in [Actors -> {"idle", "exec", "finish"}]
  BY DEF Shape, ControlOK
<1>1. ASSUME \A w \in Workers : pc'[w] = pc[w], UNCHANGED <<running, waiting>>
      PROVE  CountsOK'
  <2>1. Polling' = Polling /\ Registered' = Registered
    BY <1>1 DEF Polling, Registered
  <2> QED
    BY <1>0, <1>1, <2>1 DEF CountsOK
<1>2. ASSUME NEW a \in Actors, NEW l, Goto(a, l), UNCHANGED <<running, waiting>>,
             a \in Workers => \/ l \in PollingPCs /\ pc[a] \in PollingPCs
                              \/ l \in DelayPCs /\ pc[a] \in DelayPCs
      PROVE  CountsOK'
  <2>1. pc'[a] = l /\ \A b \in Actors : b # a => pc'[b] = pc[b]
    BY <1>0, <1>2, Jump
  <2>2. CASE a = Main
    BY <1>1, <1>2, <2>1, <2>2, ActorsAre
  <2>3. CASE a \in Workers
    <3>1. Cardinality(Polling') = running /\ Cardinality(Registered') = waiting
      BY <1>0, <1>2, <2>1, <2>3, CountMove, ActorsAre
    <3> QED
      BY <1>2, <3>1 DEF CountsOK
  <2> QED
    BY <2>2, <2>3, ActorsAre
<1>3. ASSUME NEW a \in Actors, PushStep(a) \/ WakeStep(a) PROVE CountsOK'
  <2>1. /\ \E l \in {"cas", "late", "exec", "gate", "chain", "bump", "notify", ret[a]} :
              Goto(a, l)
        /\ UNCHANGED <<running, waiting>>
    BY <1>3 DEF PushStep, WakeStep, QueueTask, QueueCas, QueueChain, QueueLate, Push,
       WakeGate, BumpEpoch
  <2>2. pc[a] \in QueuePCs \cup WakePCs
    BY <1>3 DEF PushStep, WakeStep, QueueTask, QueueCas, QueueChain, QueueLate, WakeGate,
       BumpEpoch
  <2>3. a \in Workers => ret[a] \in {"exec", "finish"}
    BY <1>0, <2>2 DEF ControlOK, ReturnPCs
  <2> QED
    BY <1>2, <2>1, <2>2, <2>3
<1>4. ASSUME NEW a \in Actors, Exec(a) \/ Finish(a) PROVE CountsOK'
  <2>1. /\ \E l : Goto(a, l) /\ (a \in Workers => l \in {"queue", "finish", "leave"})
        /\ UNCHANGED <<running, waiting>> /\ pc[a] \in ExecPCs
    BY <1>4, ActorsAre DEF Exec, NewTask, Finish
  <2> QED
    BY <1>2, <2>1
<1>5. ASSUME NEW w \in Workers, PollStep(w) \/ DelayStep(w) PROVE CountsOK'
  <2>1. UNCHANGED <<running, waiting>>
    BY <1>5 DEF PollStep, Fetch, Take, PutBack, Repush, Look, DelayStep, DelayLoop,
       DelaySpin, ReadEpoch, Recheck, EpochWait
  <2>2. ASSUME PollStep(w)
        PROVE  /\ UNCHANGED pc \/ \E l \in PollingPCs : Goto(w, l)
               /\ pc[w] \in PollingPCs
    BY <2>2 DEF PollStep, Fetch, StartFetch, Take, PutBack, Repush, Look
  <2>3. ASSUME DelayStep(w)
        PROVE  /\ UNCHANGED pc \/ \E l \in DelayPCs : Goto(w, l)
               /\ pc[w] \in DelayPCs
    BY <2>3 DEF DelayStep, Fetch, StartFetch, DelayLoop, DelaySpin, ReadEpoch, Recheck,
       EpochWait
  <2> QED
    BY <1>1, <1>2, <1>5, <2>1, <2>2, <2>3, ActorsAre
<1>6. ASSUME NEW w \in Workers, GuardStep(w) PROVE CountsOK'
  <2>1. ASSUME NEW l, Goto(w, l) PROVE pc'[w] = l /\ \A v \in Workers : v # w => pc'[v] = pc[v]
    BY <1>0, <2>1, Jump, ActorsAre
  <2>2. CASE ThreadLoop(w) /\ terminated
    BY <1>0, <2>1, <2>2, CountMove DEF ThreadLoop, CountsOK
  <2>3. CASE ThreadLoop(w) /\ ~terminated
    BY <1>0, <2>1, <2>3, CountMove DEF ThreadLoop, StartFetch, CountsOK
  <2>4. CASE DelayEnter(w)
    <3>1. CASE Goto(w, "loop") /\ UNCHANGED counters /\ pc[w] = "delay"
      BY <1>0, <2>1, <3>1, CountMove DEF CountsOK
    <3>2. CASE /\ Goto(w, "d0") /\ pc[w] = "delay"
               /\ waiting' = waiting + 1 /\ running' = running
      BY <1>0, <2>1, <3>2, CountMove DEF CountsOK
    <3> QED
      BY <2>4, <3>1, <3>2 DEF DelayEnter
  <2>5. CASE Unregister(w)
    BY <1>0, <2>1, <2>5, CountMove DEF Unregister, CountsOK
  <2>6. CASE LeavePoll(w, "leave", "loop") \/ LeavePoll(w, "miss", "delay")
    BY <1>0, <2>1, <2>6, CountMove DEF LeavePoll, CountsOK
  <2> QED
    BY <1>6, <2>2, <2>3, <2>4, <2>5, <2>6 DEF GuardStep
<1>7. ASSUME NEW a \in Actors, NotifyOne(a) PROVE CountsOK'
  <2>1. UNCHANGED <<running, waiting>> /\ pc[a] = "notify"
    BY <1>7 DEF NotifyOne
  <2>2. a \in Workers => ret[a] \in {"exec", "finish"}
    BY <1>0, <2>1 DEF ControlOK, ReturnPCs
  <2>3. CASE Goto(a, ret[a])
    BY <1>2, <2>1, <2>2, <2>3
  <2>4. ASSUME NEW w \in Asleep, pc' = [pc EXCEPT ![a] = ret[a], ![w] = "wait"]
        PROVE  CountsOK'
    <3>1. /\ w \in Workers /\ w # a /\ pc[w] = "asleep"
          /\ pc'[a] = ret[a] /\ pc'[w] = "wait"
          /\ \A b \in Actors \ {a, w} : pc'[b] = pc[b]
      BY <1>0, <2>1, <2>4, ActorsAre DEF Asleep
    <3>2. \A v \in Workers : /\ pc'[v] \in PollingPCs <=> pc[v] \in PollingPCs
                             /\ pc'[v] \in DelayPCs <=> pc[v] \in DelayPCs
      BY <2>1, <2>2, <3>1, ActorsAre
    <3>3. Polling' = Polling /\ Registered' = Registered
      BY <3>2 DEF Polling, Registered
    <3> QED
      BY <1>0, <2>1, <3>3 DEF CountsOK
  <2> QED
    BY <1>7, <2>3, <2>4 DEF NotifyOne
<1>8. CASE NotifyAll(Main)
  <2>1. \A v \in Workers : /\ pc'[v] \in PollingPCs <=> pc[v] \in PollingPCs
                           /\ pc'[v] \in DelayPCs <=> pc[v] \in DelayPCs
    BY <1>8, ActorsAre DEF NotifyAll, Asleep
  <2>2. Polling' = Polling /\ Registered' = Registered
    BY <2>1 DEF Polling, Registered
  <2> QED
    BY <1>0, <1>8, <2>2 DEF NotifyAll, CountsOK
<1>9. CASE BumpEpoch(Main, "bumpall", "notifyall") \/ Join \/ Drain \/ Terminate \/ Queue
  <2>1. UNCHANGED <<running, waiting>> /\ \E l : Goto(Main, l)
    BY <1>9 DEF BumpEpoch, Join, Drain, Terminate, Queue, NewTask
  <2> QED
    BY <1>2, <2>1, ActorsAre
<1>10. CASE Start
  <2>1. \A v \in Workers : pc[v] = "exited" /\ pc'[v] = "loop"
    BY <1>10, ActorsAre DEF Start, Shape, OwnerOK
  <2>2. Polling' = Polling /\ Registered' = Registered
    BY <2>1 DEF Polling, Registered
  <2> QED
    BY <1>0, <1>10, <2>2 DEF Start, CountsOK
<1>11. CASE UNCHANGED vars
  BY <1>1, <1>11 DEF vars
<1> QED
  BY <1>3, <1>4, <1>5, <1>6, <1>7, <1>8, <1>9, <1>10, <1>11, StepClasses

-----------------------------------------------------------------------------
(* The owner                                                                  *)

\* Every step keeps the owner's drain alone: no thread is left when join() polls.
LEMMA OwnerOKStep ==
    ASSUME Shape, [Next]_vars
    PROVE  OwnerOK'
<1> USE DEF PollPCs, DelayPCs, QueuePCs, WakePCs, ExecPCs, JoinPCs, PollingPCs, counters,
            pool
<1>0. /\ ControlOK /\ OwnerOK
      /\ pc \in [Actors -> PCs] /\ ret \in [Actors -> {"idle", "exec", "finish"}]
  BY DEF Shape, ControlOK
<1>1. ASSUME NEW w \in Workers, NEW l, Goto(w, l), UNCHANGED <<live, terminated>>,
             ret'[Main] = ret[Main], pc[w] # "exited"
      PROVE  OwnerOK'
  <2>1. pc'[Main] = pc[Main]
    BY <1>0, <1>1, Jump, ActorsAre
  <2>2. live /\ ~Closing
    BY <1>0, <1>1 DEF OwnerOK
  <2> QED
    BY <1>0, <1>1, <2>1, <2>2 DEF OwnerOK, Closing
<1>2. ASSUME NEW w \in Workers, UNCHANGED <<live, terminated, pc>>, ret'[Main] = ret[Main]
      PROVE  OwnerOK'
  BY <1>0, <1>2 DEF OwnerOK, Closing
<1>3. ASSUME NEW w \in Workers,
             \/ PushStep(w) \/ WakeStep(w) \/ Exec(w) \/ Finish(w)
             \/ PollStep(w) \/ DelayStep(w) \/ GuardStep(w)
      PROVE  OwnerOK'
  <2>1. ret'[Main] = ret[Main]
    BY <1>0, <1>3, ActorsAre DEF PushStep, WakeStep, Exec, Finish, PollStep, DelayStep,
       GuardStep, QueueTask, QueueCas, QueueChain, QueueLate, WakeGate, BumpEpoch, NewTask,
       Fetch, Take, PutBack, Repush, Look, DelayLoop, DelaySpin, ReadEpoch, Recheck,
       EpochWait, ThreadLoop, DelayEnter, Unregister, LeavePoll, Set
  <2>2. UNCHANGED <<live, terminated>> /\ pc[w] # "exited"
    BY <1>3 DEF PushStep, WakeStep, Exec, Finish, PollStep, DelayStep,
       GuardStep, QueueTask, QueueCas, QueueChain, QueueLate, WakeGate, BumpEpoch, NewTask,
       Fetch, Take, PutBack, Repush, Look, DelayLoop, DelaySpin, ReadEpoch, Recheck,
       EpochWait, ThreadLoop, DelayEnter, Unregister, LeavePoll
  <2>3. UNCHANGED pc \/ \E l : Goto(w, l)
    BY <1>3 DEF PushStep, WakeStep, Exec, Finish, PollStep, DelayStep,
       GuardStep, QueueTask, QueueCas, QueueChain, QueueLate, Push, WakeGate, BumpEpoch,
       NewTask, Fetch, StartFetch, Take, PutBack, Repush, Look, DelayLoop, DelaySpin,
       ReadEpoch, Recheck, EpochWait, ThreadLoop, DelayEnter, Unregister, LeavePoll
  <2> QED
    BY <1>1, <1>2, <2>1, <2>2, <2>3
<1>4. ASSUME NEW l, Goto(Main, l), UNCHANGED <<live, terminated>>,
             l \in JoinPCs => terminated,
             \/ l \in QueuePCs \cup WakePCs /\ ret'[Main] # "finish"
             \/ l \notin ExecPCs \cup {"drain"} \cup QueuePCs \cup WakePCs
             \/ Closing \/ ~live
      PROVE  OwnerOK'
  <2>1. pc'[Main] = l /\ \A w \in Workers : pc'[w] = pc[w]
    BY <1>0, <1>4, Jump, ActorsAre
  <2>2. Closing' \/ ~live' => Closing \/ ~live
    BY <1>4, <2>1 DEF Closing
  <2> QED
    BY <1>0, <1>4, <2>1, <2>2 DEF OwnerOK
<1>5. ASSUME PushStep(Main) \/ WakeStep(Main) \/ NotifyOne(Main) PROVE OwnerOK'
  <2>1. pc[Main] \in QueuePCs \cup WakePCs /\ UNCHANGED <<live, terminated, ret>>
    BY <1>5 DEF PushStep, WakeStep, QueueTask, QueueCas, QueueChain, QueueLate, WakeGate,
       BumpEpoch, NotifyOne
  <2>2. ret[Main] = "finish" => Closing
    BY <2>1 DEF Closing
  <2>3. ret[Main] \in {"idle", "finish"}
    BY <1>0, ActorsAre DEF ControlOK
  <2>4. CASE NotifyOne(Main)
    <3>1. CASE Goto(Main, ret[Main])
      BY <1>4, <2>1, <2>2, <2>3, <3>1
    <3>2. ASSUME NEW w \in Asleep, pc' = [pc EXCEPT ![Main] = ret[Main], ![w] = "wait"]
          PROVE  OwnerOK'
      <4>1. w \in Workers /\ w \in Actors /\ pc[w] = "asleep" /\ w # Main
        BY ActorsAre DEF Asleep
      <4>2. pc'[Main] = ret[Main]
        BY <1>0, <3>2, <4>1, ActorsAre
      <4>3. live /\ ~Closing
        BY <1>0, <4>1 DEF OwnerOK
      <4> QED
        BY <2>1, <2>2, <2>3, <4>2, <4>3 DEF OwnerOK, Closing
    <3> QED
      BY <2>4, <3>1, <3>2 DEF NotifyOne
  <2>5. CASE PushStep(Main) \/ WakeStep(Main)
    <3>1. \E l \in {"cas", "late", "exec", "gate", "chain", "bump", "notify", ret[Main]} :
             Goto(Main, l) /\ (l = "exec" => ~live)
      BY <2>3, <2>5 DEF PushStep, WakeStep, QueueTask, QueueCas, QueueChain, QueueLate, Push,
         WakeGate, BumpEpoch
    <3> QED
      BY <1>4, <2>1, <2>2, <2>3, <3>1
  <2> QED
    BY <1>5, <2>4, <2>5
<1>6. ASSUME NEW w \in Workers, NotifyOne(w) PROVE OwnerOK'
  <2>1. UNCHANGED <<live, terminated, ret>> /\ pc[w] = "notify"
    BY <1>6 DEF NotifyOne
  <2>2. CASE Goto(w, ret[w])
    BY <1>1, <2>1, <2>2
  <2>3. ASSUME NEW v \in Asleep, pc' = [pc EXCEPT ![w] = ret[w], ![v] = "wait"]
        PROVE  OwnerOK'
    <3>1. pc'[Main] = pc[Main]
      BY <1>0, <2>3, ActorsAre DEF Asleep
    <3>2. live /\ ~Closing
      BY <1>0, <2>1 DEF OwnerOK
    <3> QED
      BY <1>0, <2>1, <3>1, <3>2 DEF OwnerOK, Closing
  <2> QED
    BY <1>6, <2>2, <2>3 DEF NotifyOne
<1>7. CASE Exec(Main) \/ Finish(Main)
  <2>1. Closing /\ terminated /\ UNCHANGED <<live, terminated>> /\ \E l : Goto(Main, l)
    BY <1>0, <1>7 DEF Exec, NewTask, Finish, Closing, OwnerOK
  <2> QED
    BY <1>4, <2>1
<1>8. CASE NotifyAll(Main)
  <2>1. /\ pc'[Main] = "join" /\ pc[Main] = "notifyall" /\ UNCHANGED <<live, terminated, ret>>
        /\ \A w \in Workers : pc[w] = "exited" => pc'[w] = "exited"
    BY <1>8, ActorsAre DEF NotifyAll, Asleep
  <2> QED
    BY <1>0, <2>1 DEF OwnerOK, Closing
<1>9. CASE BumpEpoch(Main, "bumpall", "notifyall")
  BY <1>0, <1>4, <1>9 DEF BumpEpoch, OwnerOK
<1>10. CASE Join
  <2>1. pc'[Main] = "drain" /\ \A w \in Workers : pc'[w] = "exited"
    BY <1>0, <1>10, Jump, ActorsAre DEF Join
  <2> QED
    BY <1>0, <1>10, <2>1 DEF Join, OwnerOK
<1>11. CASE Drain
  <2>1. \A w \in Workers : pc'[w] = pc[w]
    BY <1>0, <1>11, Jump, ActorsAre DEF Drain
  <2>2. terminated' /\ \A w \in Workers : pc[w] = "exited"
    BY <1>0, <1>11 DEF Drain, OwnerOK, Closing
  <2> QED
    BY <2>1, <2>2 DEF OwnerOK
<1>12. CASE Terminate
  <2>1. pc'[Main] = "bumpall" /\ live' /\ terminated'
    BY <1>0, <1>12, Jump, ActorsAre DEF Terminate
  <2> QED
    BY <2>1 DEF OwnerOK, Closing
<1>13. CASE Queue
  <2>1. ret'[Main] = "idle"
    BY <1>0, <1>13, ActorsAre DEF Queue, NewTask, Set
  <2> QED
    BY <1>4, <1>13, <2>1 DEF Queue, NewTask
<1>14. CASE Start
  <2>1. pc'[Main] = "idle" /\ live'
    BY <1>14, ActorsAre DEF Start
  <2> QED
    BY <2>1 DEF OwnerOK, Closing
<1>15. CASE UNCHANGED vars
  BY <1>0, <1>15 DEF OwnerOK, Closing, vars
<1> QED
  BY <1>3, <1>5, <1>6, <1>7, <1>8, <1>9, <1>10, <1>11, <1>12, <1>13, <1>14, <1>15,
     StepClasses, ActorsAre

-----------------------------------------------------------------------------
(* Scans                                                                      *)

\* Quotients and products of natural numbers, for the layout of task_heads.
LEMMA Product ==
    ASSUME NEW m \in Nat, NEW n \in Nat, NEW d \in Nat, m <= n
    PROVE  m * d \in Nat /\ m * d <= n * d
  OBVIOUS

\* Division stays below the number of rows.
LEMMA Quotient ==
    ASSUME NEW i \in Nat, NEW v \in Nat, NEW d \in Nat, i < v * d
    PROVE  /\ v > 0
           /\ i % v \in 0 .. v - 1
           /\ i \div v \in 0 .. d - 1
<1>1. v # 0
  <2>1. SUFFICES ASSUME v = 0 PROVE FALSE
    OBVIOUS
  <2>2. v * d = 0
    BY <2>1
  <2> QED
    BY <2>2
<1>2. i % v \in 0 .. v - 1 /\ i \div v \in Nat /\ i = v * (i \div v) + (i % v)
  BY <1>1
<1>3. i \div v < d
  <2>1. SUFFICES ASSUME d <= i \div v PROVE FALSE
    BY <1>2
  <2>2. d * v <= (i \div v) * v
    BY <1>2, <2>1, Product
  <2> QED
    BY <1>2, <2>2
<1> QED
  BY <1>1, <1>2, <1>3

\* Every scan stays within task_heads: that of fetch(), that of poll(), and the
\* choice of queue_task().
LEMMA ScanBounds ==
    /\ \A a \in Actors : ThreadIndex(a) \in Nat
    /\ \A k \in Nat : k % Dup \in 0 .. Dup - 1
    /\ \A p \in Nat : Clamp(p) \in 0 .. ThreadCount - 1
    /\ \A n \in Nat : PrioritySize(n) \in 0 .. ThreadCount
    /\ Dup <= ThreadCount * Dup
<1>1. \A a \in Actors : ThreadIndex(a) \in Nat
  BY ActorsAre DEF ThreadIndex, Actors
<1>2. \A k \in Nat : k % Dup \in 0 .. Dup - 1
  BY ActorsAre
<1>3. \A p \in Nat : Clamp(p) \in 0 .. ThreadCount - 1
  BY ActorsAre DEF Clamp, MinOf
<1>4. \A n \in Nat : PrioritySize(n) \in 0 .. ThreadCount
  BY ActorsAre DEF PrioritySize, MinOf
<1>5. Dup <= ThreadCount * Dup
  <2>1. 1 <= ThreadCount /\ 1 * Dup = Dup
    BY ActorsAre
  <2> QED
    BY <2>1, ActorsAre, Product
<1> QED
  BY <1>1, <1>2, <1>3, <1>4, <1>5

\* The head fetch() reads next is one of task_heads.
LEMMA FetchInside ==
    ASSUME ScanOK, NEW a \in Actors, at[a] < view[a] * Dup
    PROVE  FetchSlot(a) \in Slots /\ at[a] + 1 \in 0 .. ThreadCount * Dup
<1>1. at[a] \in Nat /\ view[a] \in 0 .. ThreadCount /\ Dup \in Nat /\ ThreadCount \in Nat
  BY ActorsAre, Product DEF ScanOK
<1>2. at[a] % view[a] \in 0 .. ThreadCount - 1 /\ at[a] \div view[a] \in Nat
  BY <1>1, Quotient
<1>3. (at[a] \div view[a] + ThreadIndex(a)) % Dup \in 0 .. Dup - 1
  BY <1>2, ScanBounds
<1>4. view[a] * Dup <= ThreadCount * Dup
  BY <1>1, Product
<1>5. view[a] * Dup \in Nat /\ ThreadCount * Dup \in Nat
  BY <1>1, Product
<1> QED
  BY <1>1, <1>2, <1>3, <1>4, <1>5 DEF FetchSlot, Slots

\* So is the one poll() exchanges next.
LEMMA DrainInside ==
    ASSUME ScanOK, at[Main] < ThreadCount * Dup
    PROVE  DrainSlot \in Slots /\ at[Main] + 1 \in 0 .. ThreadCount * Dup
<1>1. at[Main] \in Nat /\ ThreadCount * Dup \in Nat
  BY ActorsAre, Product DEF ScanOK
<1>2. at[Main] % ThreadCount \in 0 .. ThreadCount - 1 /\ at[Main] \div ThreadCount \in 0 .. Dup - 1
  BY <1>1, ActorsAre, Quotient
<1> QED
  BY <1>1, <1>2 DEF DrainSlot, Slots

\* Every step keeps the scan positions in bounds.
LEMMA ScanStep ==
    ASSUME Shape, [Next]_vars
    PROVE  ScanOK'
<1> USE DEF PollPCs, DelayPCs, QueuePCs, WakePCs, ExecPCs, JoinPCs, scan
<1> DEFINE Last == ThreadCount * Dup
<1>0. /\ ControlOK /\ ScanOK
      /\ at \in [Actors -> 0 .. Last] /\ view \in [Actors -> 0 .. ThreadCount]
      /\ slot \in [Actors -> Slots]
      /\ <<0, 0>> \in Slots /\ 0 \in 0 .. Last /\ 0 \in 0 .. ThreadCount
      /\ running \in Nat /\ waiting \in 0 .. ThreadCount
  <2>1. Last \in Nat
    BY ActorsAre, Product
  <2>2. running \in Nat /\ waiting \in 0 .. ThreadCount
    BY CountsFinite, ActorsAre DEF Shape, CountsOK
  <2> QED
    BY <2>1, <2>2, ActorsAre DEF Shape, ScanOK, Slots
\* a step of one actor
<1>1. ASSUME NEW a \in Actors, NEW i \in 0 .. Last, NEW v \in 0 .. ThreadCount, NEW s \in Slots,
             at' = Set(at, a, i), view' = Set(view, a, v), slot' = Set(slot, a, s),
             NEW l, Goto(a, l), l = "cas" => i < Dup
      PROVE  ScanOK'
  <2>1. /\ at' \in [Actors -> 0 .. Last] /\ view' \in [Actors -> 0 .. ThreadCount]
        /\ slot' \in [Actors -> Slots]
        /\ at'[a] = i /\ \A b \in Actors : b # a => at'[b] = at[b]
    BY <1>0, <1>1 DEF Set
  <2>2. pc'[a] = l /\ \A b \in Actors : b # a => pc'[b] = pc[b]
    BY <1>0, <1>1, Jump
  <2> QED
    BY <1>0, <1>1, <2>1, <2>2 DEF ScanOK
\* an unchanged function is changed by nothing
<1>2. \A a \in Actors : /\ Set(at, a, at[a]) = at
                        /\ Set(view, a, view[a]) = view
                        /\ Set(slot, a, slot[a]) = slot
                        /\ at[a] \in 0 .. Last /\ view[a] \in 0 .. ThreadCount
                        /\ slot[a] \in Slots
                        /\ pc[a] = "cas" => at[a] < Dup
  BY <1>0 DEF Set, ScanOK
<1>3. ASSUME NEW a \in Actors, UNCHANGED scan, NEW l, Goto(a, l), l # "cas"
      PROVE  ScanOK'
  BY <1>1, <1>2, <1>3
<1>4. ASSUME UNCHANGED scan, \A a \in Actors : pc'[a] = "cas" => pc[a] = "cas"
      PROVE  ScanOK'
  BY <1>0, <1>4 DEF ScanOK
<1>5. ASSUME NEW a \in Actors, NEW n \in 0 .. ThreadCount, NEW l, StartFetch(a, n, l), l # "cas"
      PROVE  ScanOK'
  <2>1. /\ at' = Set(at, a, 0) /\ view' = Set(view, a, n) /\ slot' = Set(slot, a, slot[a])
        /\ Goto(a, l)
    BY <1>2, <1>5 DEF StartFetch
  <2> QED
    BY <1>0, <1>1, <1>2, <1>5, <2>1
<1>6. ASSUME NEW a \in Actors, NEW l, NEW hit, NEW miss, Fetch(a, l, hit, miss),
             l # "cas", hit # "cas", miss # "cas"
      PROVE  ScanOK'
  <2>0. view' = Set(view, a, 0) \/ view' = Set(view, a, view[a])
    BY <1>2, <1>6 DEF Fetch
  <2>1. CASE /\ at[a] >= view[a] * Dup /\ Goto(a, miss)
             /\ at' = Set(at, a, 0) /\ UNCHANGED slot
    BY <1>0, <1>1, <1>2, <1>6, <2>0, <2>1
  <2>2. CASE /\ at[a] < view[a] * Dup /\ at' = Set(at, a, at[a] + 1) /\ UNCHANGED <<pc, slot>>
    <3>1. at[a] + 1 \in 0 .. Last
      BY <1>0, <2>2, FetchInside
    <3>2. pc[a] = l
      BY <1>6 DEF Fetch
    <3>3. /\ at' \in [Actors -> 0 .. Last] /\ view' \in [Actors -> 0 .. ThreadCount]
          /\ \A b \in Actors : b # a => at'[b] = at[b]
      BY <1>0, <1>2, <2>0, <2>2, <3>1 DEF Set
    <3> QED
      BY <1>0, <1>6, <2>2, <3>2, <3>3 DEF ScanOK
  <2>3. CASE /\ at[a] < view[a] * Dup /\ Goto(a, hit) /\ at' = Set(at, a, 0)
             /\ slot' = IF l = "fetch" THEN Set(slot, a, FetchSlot(a)) ELSE slot
    <3>1. FetchSlot(a) \in Slots
      BY <1>0, <2>3, FetchInside
    <3>2. slot' = Set(slot, a, FetchSlot(a)) \/ slot' = Set(slot, a, slot[a])
      BY <1>2, <2>3
    <3> QED
      BY <1>0, <1>1, <1>2, <1>6, <2>0, <2>3, <3>1, <3>2
  <2> QED
    BY <1>6, <2>1, <2>2, <2>3 DEF Fetch
<1>7. ASSUME NEW a \in Actors, PushStep(a) PROVE ScanOK'
  <2>1. CASE QueueTask(a)
    <3>1. CASE ~terminated
      <4>1. /\ at' = Set(at, a, 0) /\ view' = Set(view, a, view[a])
            /\ slot' = Set(slot, a, slot[a]) /\ Goto(a, "cas")
        BY <1>2, <2>1, <3>1 DEF QueueTask
      <4> QED
        BY <1>0, <1>1, <1>2, <4>1, ActorsAre
    <3>2. CASE terminated
      <4>1. UNCHANGED scan /\ \E l \in {"late", "exec"} : Goto(a, l)
        BY <2>1, <3>2 DEF QueueTask
      <4> QED
        BY <1>3, <4>1
    <3> QED
      BY <3>1, <3>2
  <2>2. ASSUME item[a] # None PROVE Prio[item[a]] \in Nat
    BY <2>2, TaskAssumption DEF Shape, ChainsOK
  <2>3. pc[a] \in QueuePCs => item[a] # None
    BY DEF Shape, ChainsOK
  <2>4. CASE QueueCas(a)
    <3> DEFINE s == <<Clamp(Prio[item[a]]), (at[a] + ThreadIndex(a)) % Dup>>
    <3>1. at[a] + ThreadIndex(a) \in Nat
      BY <1>2, ScanBounds
    <3>2. s \in Slots
      BY <2>2, <2>3, <2>4, <3>1, ScanBounds DEF QueueCas, Slots
    <3>3. CASE heads[s] = << >>
      <4>1. /\ at' = Set(at, a, 0) /\ view' = Set(view, a, view[a])
            /\ slot' = Set(slot, a, s) /\ Goto(a, "gate")
        BY <1>2, <2>4, <3>3 DEF QueueCas, Push
      <4> QED
        BY <1>0, <1>1, <1>2, <3>2, <4>1
    <3>4. CASE heads[s] # << >>
      <4>1. /\ view' = Set(view, a, view[a]) /\ slot' = Set(slot, a, slot[a])
            /\ \/ at' = Set(at, a, 0) /\ Goto(a, "chain")
               \/ at' = Set(at, a, at[a] + 1) /\ Goto(a, "cas") /\ at[a] # Dup - 1
        BY <1>2, <2>4, <3>4 DEF QueueCas
      <4>2. at[a] < Dup /\ at[a] \in Nat
        BY <1>2, <2>4 DEF QueueCas
      <4>3. at[a] # Dup - 1 => at[a] + 1 < Dup /\ at[a] + 1 \in 0 .. Last
        BY <4>2, ActorsAre, ScanBounds, Product
      <4> QED
        BY <1>0, <1>1, <1>2, <4>1, <4>3
    <3> QED
      BY <3>3, <3>4
  <2>5. CASE QueueChain(a) \/ QueueLate(a)
    <3>1. /\ UNCHANGED <<at, view>>
          /\ \E s \in Slots : slot' = Set(slot, a, s)
          /\ \E l \in {"gate", ret[a]} : Goto(a, l)
      <4>1. CASE QueueChain(a)
        <5>1. PICK k \in 0 .. Dup - 1 : Push(a, <<Clamp(Prio[item[a]]), k>>, "gate")
          BY <4>1 DEF QueueChain
        <5>2. <<Clamp(Prio[item[a]]), k>> \in Slots
          BY <2>2, <2>3, <4>1, ScanBounds DEF QueueChain, Slots
        <5> QED
          BY <4>1, <5>1, <5>2 DEF QueueChain, Push
      <4>2. CASE QueueLate(a)
        BY <1>0, <4>2 DEF QueueLate, Push
      <4> QED
        BY <2>5, <4>1, <4>2
    <3>2. ret[a] # "cas"
      BY <1>0 DEF ControlOK
    <3> QED
      BY <1>1, <1>2, <3>1, <3>2
  <2> QED
    BY <1>7, <2>1, <2>4, <2>5 DEF PushStep
<1>8. ASSUME NEW a \in Actors, WakeStep(a) PROVE ScanOK'
  <2>1. /\ UNCHANGED <<at, view>>
        /\ UNCHANGED slot \/ slot' = Set(slot, a, <<0, 0>>)
        /\ \E l \in {"bump", "notify", ret[a]} : Goto(a, l)
    BY <1>8 DEF WakeStep, WakeGate, BumpEpoch
  <2>2. ret[a] # "cas"
    BY <1>0 DEF ControlOK
  <2> QED
    BY <1>0, <1>1, <1>2, <2>1, <2>2
<1>9. ASSUME NEW a \in Actors, NotifyOne(a) PROVE ScanOK'
  <2>1. at' = at /\ view' = view /\ slot' \in [Actors -> Slots]
    BY <1>0, <1>9 DEF NotifyOne, Set
  <2>2. ret[a] # "cas"
    BY <1>0 DEF ControlOK
  <2>3. \A b \in Actors : pc'[b] = "cas" => pc[b] = "cas"
    BY <1>0, <1>9, <2>2, ActorsAre DEF NotifyOne, Goto, Asleep, ControlOK
  <2> QED
    BY <1>0, <2>1, <2>3 DEF ScanOK
<1>10. ASSUME NEW a \in Actors, Exec(a) \/ Finish(a) PROVE ScanOK'
  <2>1. UNCHANGED scan /\ \E l \in {"queue", "finish", "drain", "idle", "exec", "leave"} : Goto(a, l)
    BY <1>10 DEF Exec, NewTask, Finish, AfterOwnTask
  <2> QED
    BY <1>3, <2>1
<1>11. ASSUME NEW w \in Workers, PollStep(w) PROVE ScanOK'
  <2>1. CASE Fetch(w, "fetch", "take", "miss") \/ Fetch(w, "lookfetch", "gate", "exec")
    BY <1>6, <2>1, ActorsAre
  <2>2. CASE Take(w) \/ PutBack(w) \/ Repush(w)
    <3>1. UNCHANGED scan /\ \E l \in {"leave", "putback", "look", "repush", "gate"} : Goto(w, l)
      BY <2>2 DEF Take, PutBack, Repush
    <3> QED
      BY <1>3, <3>1, ActorsAre
  <2>3. CASE Look(w)
    <3>1. CASE StartFetch(w, view[w], "lookfetch")
      BY <1>2, <1>5, <3>1, ActorsAre
    <3>2. CASE Goto(w, "exec") /\ UNCHANGED scan
      BY <1>3, <3>2, ActorsAre
    <3> QED
      BY <2>3, <3>1, <3>2 DEF Look
  <2> QED
    BY <1>11, <2>1, <2>2, <2>3 DEF PollStep
<1>12. ASSUME NEW w \in Workers, DelayStep(w) PROVE ScanOK'
  <2>1. CASE \/ Fetch(w, "d1", "unreg", "spin") \/ Fetch(w, "d2", "unreg", "epoch")
             \/ Fetch(w, "d3", "unreg", "wait")
    BY <1>6, <2>1, ActorsAre
  <2>2. CASE DelayLoop(w) \/ DelaySpin(w) \/ ReadEpoch(w) \/ Recheck(w) \/ EpochWait(w)
    <3>1. \/ \E l \in DelayPCs : StartFetch(w, waiting, l)
          \/ UNCHANGED scan /\ \E l \in DelayPCs : Goto(w, l)
      BY <2>2 DEF DelayLoop, DelaySpin, ReadEpoch, Recheck, EpochWait
    <3> QED
      BY <1>0, <1>3, <1>5, <3>1, ActorsAre
  <2> QED
    BY <1>12, <2>1, <2>2 DEF DelayStep
<1>13. ASSUME NEW w \in Workers, GuardStep(w) PROVE ScanOK'
  <2>1. CASE ThreadLoop(w)
    <3>1. PrioritySize(running) \in 0 .. ThreadCount
      BY <1>0, ScanBounds
    <3>2. \/ StartFetch(w, PrioritySize(running), "fetch")
          \/ UNCHANGED scan /\ Goto(w, "exited")
      BY <2>1 DEF ThreadLoop
    <3> QED
      BY <1>3, <1>5, <3>1, <3>2, ActorsAre
  <2>2. CASE DelayEnter(w) \/ Unregister(w)
    <3>1. UNCHANGED scan /\ \E l \in {"loop", "d0"} : Goto(w, l)
      BY <2>2 DEF DelayEnter, Unregister
    <3> QED
      BY <1>3, <3>1, ActorsAre
  <2>3. CASE LeavePoll(w, "leave", "loop") \/ LeavePoll(w, "miss", "delay")
    <3>1. /\ at' = Set(at, w, at[w]) /\ view' = Set(view, w, 0) /\ slot' = Set(slot, w, <<0, 0>>)
          /\ \E l \in {"loop", "delay"} : Goto(w, l)
      BY <1>2, <2>3, ActorsAre DEF LeavePoll
    <3> QED
      BY <1>0, <1>1, <1>2, <3>1, ActorsAre
  <2> QED
    BY <1>13, <2>1, <2>2, <2>3 DEF GuardStep
<1>14. CASE NotifyAll(Main)
  BY <1>4, <1>14 DEF NotifyAll
<1>15. CASE BumpEpoch(Main, "bumpall", "notifyall") \/ Terminate \/ Queue
  <2>1. UNCHANGED scan /\ \E l \in {"notifyall", "bumpall", "queue"} : Goto(Main, l)
    BY <1>15 DEF BumpEpoch, Terminate, Queue, NewTask
  <2> QED
    BY <1>3, <2>1, ActorsAre
<1>16. CASE Join
  <2>1. /\ at' = Set(at, Main, 0) /\ view' = Set(view, Main, view[Main])
        /\ slot' = Set(slot, Main, slot[Main]) /\ Goto(Main, "drain")
    BY <1>2, <1>16, ActorsAre DEF Join
  <2> QED
    BY <1>0, <1>1, <1>2, <2>1, ActorsAre
<1>17. CASE Drain
  <2>1. /\ view' = Set(view, Main, view[Main]) /\ slot' = Set(slot, Main, slot[Main])
        /\ \E l \in {"drain", "exec", "idle"} : Goto(Main, l)
        /\ \/ at[Main] < Last /\ at' = Set(at, Main, at[Main] + 1)
           \/ at' = Set(at, Main, 0)
    BY <1>2, <1>17, ActorsAre DEF Drain
  <2>2. at[Main] < Last => at[Main] + 1 \in 0 .. Last
    BY <1>0, DrainInside
  <2> QED
    BY <1>0, <1>1, <1>2, <2>1, <2>2, ActorsAre
<1>18. CASE Start
  BY <1>4, <1>18 DEF Start
<1>19. CASE UNCHANGED vars
  BY <1>4, <1>19 DEF vars
<1> QED
  BY <1>7, <1>8, <1>9, <1>10, <1>11, <1>12, <1>13, <1>14, <1>15, <1>16, <1>17, <1>18,
     <1>19, StepClasses

-----------------------------------------------------------------------------
(* Chains                                                                     *)

\* Sequences of tasks as linked lists: linking a node in front, and taking the
\* first one off.
LEMMA ListFacts ==
    /\ << >> \in Seq(Tasks)
    /\ \A t \in Tasks : <<t>> \in Seq(Tasks) /\ <<t>> # << >>
    /\ \A t \in Tasks, q \in Seq(Tasks) : <<t>> \o q \in Seq(Tasks) /\ <<t>> \o q # << >>
    /\ \A q \in Seq(Tasks) : q # << >> => Head(q) \in Tasks /\ Tail(q) \in Seq(Tasks)
<1>1. \A t \in Tasks : <<t>> \in Seq(Tasks) /\ <<t>> # << >> /\ Len(<<t>>) = 1
  OBVIOUS
<1>2. ASSUME NEW t \in Tasks, NEW q \in Seq(Tasks)
      PROVE  <<t>> \o q \in Seq(Tasks) /\ <<t>> \o q # << >>
  BY <1>1, ConcatProperties, ConcatEqualIffEmpty
<1>3. \A q \in Seq(Tasks) : q # << >> => Head(q) \in Tasks /\ Tail(q) \in Seq(Tasks)
  BY HeadTailProperties
<1> QED
  BY <1>1, <1>2, <1>3, EmptySeq

\* Every step keeps the lists lists of tasks, and no actor reaches a label that
\* follows the first node of an empty one.
LEMMA ChainsStep ==
    ASSUME Shape, [Next]_vars
    PROVE  ChainsOK'
<1> USE DEF PollPCs, DelayPCs, QueuePCs, WakePCs, ExecPCs, JoinPCs, ReturnPCs, chains
<1>0. /\ ControlOK /\ ChainsOK /\ ScanOK
      /\ heads \in [Slots -> Seq(Tasks)] /\ item \in [Actors -> Tasks \cup {None}]
      /\ hold \in [Actors -> Seq(Tasks)] /\ org \in [Actors -> Seq(Tasks)]
      /\ ret \in [Actors -> {"idle", "exec", "finish"}]
      /\ \A a \in Actors : slot[a] \in Slots
  BY DEF Shape, ControlOK, ChainsOK, ScanOK
<1>1. \A a \in Actors : /\ Set(hold, a, hold[a]) = hold /\ hold[a] \in Seq(Tasks)
                        /\ Set(org, a, org[a]) = org /\ org[a] \in Seq(Tasks)
                        /\ Set(item, a, item[a]) = item /\ item[a] \in Tasks \cup {None}
  BY <1>0 DEF Set
<1>2. \A a \in Actors :
         /\ pc[a] \in QueuePCs => item[a] # None
         /\ pc[a] \in {"putback"} \cup ExecPCs => hold[a] # << >>
         /\ pc[a] \in ReturnPCs /\ ret[a] # "idle" => hold[a] # << >>
         /\ pc[a] = "repush" => org[a] # << >>
  BY <1>0 DEF ChainsOK
\* a step of one actor
<1>3. ASSUME NEW a \in Actors, NEW h \in Seq(Tasks), NEW o \in Seq(Tasks),
             NEW i \in Tasks \cup {None}, heads' \in [Slots -> Seq(Tasks)],
             hold' = Set(hold, a, h), org' = Set(org, a, o), item' = Set(item, a, i),
             NEW l, Goto(a, l), \A b \in Actors : b # a => ret'[b] = ret[b],
             l \in QueuePCs => i # None,
             l \in {"putback"} \cup ExecPCs => h # << >>,
             l \in ReturnPCs /\ ret'[a] # "idle" => h # << >>,
             l = "repush" => o # << >>
      PROVE  ChainsOK'
  <2>1. /\ hold' \in [Actors -> Seq(Tasks)] /\ hold'[a] = h
        /\ \A b \in Actors : b # a => hold'[b] = hold[b]
    BY <1>0, <1>3 DEF Set
  <2>2. /\ org' \in [Actors -> Seq(Tasks)] /\ org'[a] = o
        /\ \A b \in Actors : b # a => org'[b] = org[b]
    BY <1>0, <1>3 DEF Set
  <2>3. /\ item' \in [Actors -> Tasks \cup {None}] /\ item'[a] = i
        /\ \A b \in Actors : b # a => item'[b] = item[b]
    BY <1>0, <1>3 DEF Set
  <2>4. pc'[a] = l /\ \A b \in Actors : b # a => pc'[b] = pc[b]
    BY <1>0, <1>3, Jump
  <2>5. ASSUME NEW b \in Actors
        PROVE  /\ pc'[b] \in QueuePCs => item'[b] # None
               /\ pc'[b] \in {"putback"} \cup ExecPCs => hold'[b] # << >>
               /\ pc'[b] \in ReturnPCs /\ ret'[b] # "idle" => hold'[b] # << >>
               /\ pc'[b] = "repush" => org'[b] # << >>
    <3>1. CASE b = a
      BY <1>3, <2>1, <2>2, <2>3, <2>4, <3>1
    <3>2. CASE b # a
      BY <1>2, <1>3, <2>1, <2>2, <2>3, <2>4, <3>2
    <3> QED
      BY <3>1, <3>2
  <2> QED
    BY <1>3, <2>1, <2>2, <2>3, <2>5 DEF ChainsOK
\* a step of one actor that leaves the chains alone
<1>4. ASSUME NEW a \in Actors, UNCHANGED chains, UNCHANGED ret, NEW l, Goto(a, l),
             l \in QueuePCs => item[a] # None,
             l \in {"putback"} \cup ExecPCs => hold[a] # << >>,
             l \in ReturnPCs /\ ret[a] # "idle" => hold[a] # << >>,
             l # "repush"
      PROVE  ChainsOK'
  <2>1. /\ hold' = Set(hold, a, hold[a]) /\ org' = Set(org, a, org[a])
        /\ item' = Set(item, a, item[a]) /\ heads' \in [Slots -> Seq(Tasks)]
    BY <1>0, <1>1, <1>4
  <2>2. \A b \in Actors : ret'[b] = ret[b]
    BY <1>4
  <2>3. /\ hold[a] \in Seq(Tasks) /\ org[a] \in Seq(Tasks)
        /\ item[a] \in Tasks \cup {None}
    BY <1>1
  <2> QED
    BY ONLY <1>3, <1>4, <2>1, <2>2, <2>3, a \in Actors
<1>5. ASSUME UNCHANGED <<chains, pc>>, UNCHANGED ret PROVE ChainsOK'
  BY <1>0, <1>5 DEF ChainsOK
\* Push()
<1>6. ASSUME NEW a \in Actors, NEW s \in Slots, NEW l \in {"gate", ret[a]}, Push(a, s, l),
             UNCHANGED ret, pc[a] \in QueuePCs
      PROVE  ChainsOK'
  <2>1. item[a] \in Tasks /\ heads[s] \in Seq(Tasks)
    BY <1>0, <1>2, <1>6
  <2>2. heads' \in [Slots -> Seq(Tasks)]
    BY <1>0, <1>6, <2>1, ListFacts DEF Push
  <2>3. /\ hold' = Set(hold, a, hold[a]) /\ org' = Set(org, a, org[a])
        /\ item' = Set(item, a, None) /\ Goto(a, l)
    BY <1>1, <1>6 DEF Push
  <2>4. l \in {"gate", "idle", "exec", "finish"} /\ (ret[a] # "idle" => hold[a] # << >>)
    BY <1>0, <1>2, <1>6
  <2>5. l \in {"exec", "finish"} => hold[a] # << >>
    BY <1>6, <2>4
  <2> QED
    BY <1>1, <1>3, <1>6, <2>2, <2>3, <2>4, <2>5
<1>7. ASSUME NEW a \in Actors, PushStep(a) PROVE ChainsOK'
  <2>1. CASE QueueTask(a) /\ (~terminated \/ live)
    <3>1. UNCHANGED chains /\ UNCHANGED ret /\ \E l \in {"cas", "late"} : Goto(a, l)
      BY <2>1 DEF QueueTask
    <3>2. pc[a] = "queue"
      BY <2>1 DEF QueueTask
    <3> QED
      BY <1>2, <1>4, <3>1, <3>2
  <2>2. CASE QueueTask(a) /\ terminated /\ ~live
    <3>1. /\ pc[a] = "queue" /\ Goto(a, "exec") /\ UNCHANGED <<heads, ret>>
          /\ hold' = Set(hold, a, <<item[a]>> \o hold[a]) /\ org' = Set(org, a, org[a])
          /\ item' = Set(item, a, None)
      BY <1>1, <2>2 DEF QueueTask
    <3>2. item[a] \in Tasks
      BY <1>0, <1>2, <3>1
    <3>3. <<item[a]>> \o hold[a] \in Seq(Tasks) /\ <<item[a]>> \o hold[a] # << >>
      BY <1>1, <3>2, ListFacts
    <3> QED
      BY <1>0, <1>1, <1>3, <3>1, <3>3
  <2>3. item[a] # None => Prio[item[a]] \in Nat
    BY <1>0, TaskAssumption
  <2>4. CASE QueueCas(a)
    <3> DEFINE s == <<Clamp(Prio[item[a]]), (at[a] + ThreadIndex(a)) % Dup>>
    <3>0. ThreadCount * Dup \in Nat /\ at[a] \in 0 .. ThreadCount * Dup
      BY <1>0, ActorsAre, Product DEF ScanOK
    <3>1. at[a] + ThreadIndex(a) \in Nat
      BY <3>0, ActorsAre DEF ThreadIndex, Actors, Main
    <3>2. pc[a] = "cas" /\ UNCHANGED ret
      BY <2>4 DEF QueueCas
    <3>3. s \in Slots
      BY <1>2, <2>3, <3>1, <3>2, ScanBounds DEF Slots
    <3>4. CASE heads[s] = << >>
      <4>1. Push(a, s, "gate")
        BY <2>4, <3>4 DEF QueueCas
      <4> QED
        BY <1>6, <3>2, <3>3, <4>1
    <3>5. CASE heads[s] # << >>
      <4>1. UNCHANGED chains /\ \E l \in {"chain", "cas"} : Goto(a, l)
        BY <2>4, <3>5 DEF QueueCas
      <4> QED
        BY <1>2, <1>4, <3>2, <4>1
    <3> QED
      BY <3>4, <3>5
  <2>5. CASE QueueChain(a)
    <3>1. PICK k \in 0 .. Dup - 1 : Push(a, <<Clamp(Prio[item[a]]), k>>, "gate")
      BY <2>5 DEF QueueChain
    <3>2. pc[a] = "chain" /\ UNCHANGED ret
      BY <2>5 DEF QueueChain
    <3>3. <<Clamp(Prio[item[a]]), k>> \in Slots
      BY <1>2, <2>3, <3>2, ScanBounds DEF Slots
    <3> QED
      BY <1>6, <3>1, <3>2, <3>3
  <2>6. CASE QueueLate(a)
    <3>1. <<0, 0>> \in Slots
      BY ActorsAre DEF Slots
    <3> QED
      BY <1>6, <2>6, <3>1 DEF QueueLate
  <2> QED
    BY <1>7, <2>1, <2>2, <2>4, <2>5, <2>6 DEF PushStep
<1>8. ASSUME NEW a \in Actors, WakeStep(a) PROVE ChainsOK'
  <2>1. /\ pc[a] \in WakePCs /\ UNCHANGED chains /\ UNCHANGED ret
        /\ \E l \in {"bump", "notify", ret[a]} : Goto(a, l)
    BY <1>8 DEF WakeStep, WakeGate, BumpEpoch
  <2>2. ret[a] \in {"idle", "exec", "finish"}
    BY <1>0
  <2> QED
    BY <1>2, <1>4, <2>1, <2>2
<1>9. ASSUME NEW a \in Actors, NotifyOne(a) PROVE ChainsOK'
  <2>1. pc[a] = "notify" /\ UNCHANGED chains /\ UNCHANGED ret
    BY <1>9 DEF NotifyOne
  <2>2. ret[a] \in {"idle", "exec", "finish"}
    BY <1>0
  <2>3. CASE Goto(a, ret[a])
    BY <1>2, <1>4, <2>1, <2>2, <2>3
  <2>4. ASSUME NEW w \in Asleep, pc' = [pc EXCEPT ![a] = ret[a], ![w] = "wait"]
        PROVE  ChainsOK'
    <3>0. pc \in [Actors -> PCs] /\ w \in Actors /\ w # a
      BY <1>0, <2>1, ActorsAre DEF ControlOK, Asleep
    <3>4. pc'[a] = ret[a] /\ pc'[w] = "wait" /\ \A b \in Actors \ {a, w} : pc'[b] = pc[b]
      BY <2>4, <3>0
    <3>1. \A b \in Actors : pc'[b] = pc[b] \/ pc'[b] = "wait" \/ (b = a /\ pc'[b] = ret[a])
      BY <3>4
    <3>2. ret[a] # "idle" => hold[a] # << >>
      BY <1>2, <2>1
    <3>3. ASSUME NEW b \in Actors
          PROVE  /\ pc'[b] \in QueuePCs => item'[b] # None
                 /\ pc'[b] \in {"putback"} \cup ExecPCs => hold'[b] # << >>
                 /\ pc'[b] \in ReturnPCs /\ ret'[b] # "idle" => hold'[b] # << >>
                 /\ pc'[b] = "repush" => org'[b] # << >>
      BY <1>2, <2>1, <2>2, <3>1, <3>2
    <3> QED
      BY <1>0, <2>1, <3>3 DEF ChainsOK
  <2> QED
    BY <1>9, <2>3, <2>4 DEF NotifyOne
<1>10. ASSUME NEW a \in Actors, Exec(a) PROVE ChainsOK'
  <2>1. pc[a] = "exec" /\ hold[a] # << >> /\ Head(hold[a]) \in Tasks
    BY <1>1, <1>2, <1>10, ListFacts DEF Exec
  <2>2. CASE Goto(a, "finish") /\ UNCHANGED chains /\ UNCHANGED ret
    BY <1>4, <2>1, <2>2
  <2>3. CASE Child[Head(hold[a])] # None /\ NewTask(a, Child[Head(hold[a])], "finish")
             /\ UNCHANGED <<heads, hold, org>>
    <3> DEFINE c == Child[Head(hold[a])]
    <3>1. c \in Tasks
      BY <2>1, <2>3, TaskAssumption
    <3>2. /\ hold' = Set(hold, a, hold[a]) /\ org' = Set(org, a, org[a])
          /\ item' = Set(item, a, c) /\ Goto(a, "queue")
          /\ \A b \in Actors : b # a => ret'[b] = ret[b]
      BY <1>0, <1>1, <2>3 DEF NewTask, Set
    <3>3. heads' \in [Slots -> Seq(Tasks)]
      BY <1>0, <2>3
    <3> QED
      <4>1. hold[a] \in Seq(Tasks) /\ org[a] \in Seq(Tasks) /\ a \in Actors
        BY <1>1
      <4>2. c \in Tasks \cup {None} /\ c # None
        BY <2>3, <3>1
      <4> HIDE DEF c
      <4> QED
        BY ONLY <1>3, <2>1, <3>2, <3>3, <4>1, <4>2
  <2> QED
    BY <1>10, <2>2, <2>3 DEF Exec
<1>11. ASSUME NEW a \in Actors, Finish(a) PROVE ChainsOK'
  <2>1. hold[a] # << >> /\ Tail(hold[a]) \in Seq(Tasks)
    BY <1>1, <1>2, <1>11, ListFacts DEF Finish
  <2>2. /\ UNCHANGED <<heads, ret>> /\ hold' = Set(hold, a, Tail(hold[a]))
        /\ org' = Set(org, a, org[a]) /\ item' = Set(item, a, item[a])
    BY <1>1, <1>11 DEF Finish
  <2>3. \E l \in {"drain", "idle", "leave", "exec", "finish"} :
           Goto(a, l) /\ (l \in {"exec", "finish"} => Tail(hold[a]) # << >>)
    BY <1>11 DEF Finish, AfterOwnTask
  <2> QED
    BY <1>0, <1>1, <1>3, <2>1, <2>2, <2>3
<1>12. ASSUME NEW w \in Workers, PollStep(w) PROVE ChainsOK'
  <2>0. w \in Actors /\ slot[w] \in Slots /\ heads[slot[w]] \in Seq(Tasks)
    BY <1>0, ActorsAre
  <2>1. CASE Fetch(w, "fetch", "take", "miss")
    <3>1. /\ UNCHANGED chains /\ UNCHANGED ret
          /\ UNCHANGED pc \/ \E l \in {"take", "miss"} : Goto(w, l)
      BY <2>1 DEF Fetch
    <3> QED
      BY <1>4, <1>5, <2>0, <3>1
  <2>2. CASE Fetch(w, "lookfetch", "gate", "exec")
    <3>1. /\ UNCHANGED chains /\ UNCHANGED ret /\ pc[w] = "lookfetch"
          /\ UNCHANGED pc \/ \E l \in {"gate", "exec"} : Goto(w, l)
      BY <2>2 DEF Fetch
    <3>2. hold[w] # << >>
      BY <1>0, <1>2, <2>0, <3>1 DEF ControlOK
    <3> QED
      BY <1>4, <1>5, <2>0, <3>1, <3>2
  <2>3. CASE Take(w)
    <3>1. /\ hold' = Set(hold, w, heads[slot[w]]) /\ org' = Set(org, w, org[w])
          /\ item' = Set(item, w, item[w]) /\ UNCHANGED ret
          /\ \E l \in {"leave", "putback"} :
                Goto(w, l) /\ (l = "putback" => heads[slot[w]] # << >>)
      BY <1>1, <2>0, <2>3 DEF Take
    <3>2. heads' \in [Slots -> Seq(Tasks)]
      BY <1>0, <2>3, ListFacts DEF Take
    <3> QED
      BY <1>1, <1>3, <2>0, <3>1, <3>2
  <2>4. CASE PutBack(w)
    <3>1. hold[w] # << >> /\ Tail(hold[w]) \in Seq(Tasks) /\ Head(hold[w]) \in Tasks
      BY <1>1, <1>2, <2>0, <2>4, ListFacts DEF PutBack
    <3>2. <<Head(hold[w])>> \in Seq(Tasks) /\ <<Head(hold[w])>> # << >>
      BY <3>1, ListFacts
    <3>3. /\ hold' = Set(hold, w, <<Head(hold[w])>>) /\ org' = Set(org, w, heads[slot[w]])
          /\ item' = Set(item, w, item[w])
          /\ \A b \in Actors : b # w => ret'[b] = ret[b]
          /\ \E l \in {"look", "repush"} :
                Goto(w, l) /\ (l = "repush" => heads[slot[w]] # << >>)
      BY <1>0, <1>1, <2>0, <2>4 DEF PutBack, Set
    <3>4. heads' \in [Slots -> Seq(Tasks)]
      BY <1>0, <2>4, <3>1 DEF PutBack
    <3> QED
      BY <1>1, <1>3, <2>0, <3>2, <3>3, <3>4
  <2>5. CASE Repush(w)
    <3>1. /\ org[w] # << >> /\ Tail(org[w]) \in Seq(Tasks) /\ Head(org[w]) \in Tasks
          /\ pc[w] = "repush"
      BY <1>1, <1>2, <2>0, <2>5, ListFacts DEF Repush
    <3>2. hold[w] # << >>
      BY <1>0, <1>2, <2>0, <3>1 DEF ControlOK
    <3>3. /\ hold' = Set(hold, w, hold[w]) /\ org' = Set(org, w, Tail(org[w]))
          /\ item' = Set(item, w, item[w]) /\ UNCHANGED ret
          /\ \E l \in {"gate", "repush"} :
                Goto(w, l) /\ (l = "repush" => Tail(org[w]) # << >>)
      BY <1>1, <2>0, <2>5 DEF Repush
    <3>4. heads' \in [Slots -> Seq(Tasks)]
      BY <1>0, <2>0, <2>5, <3>1, ListFacts DEF Repush
    <3> QED
      BY <1>1, <1>3, <2>0, <3>1, <3>2, <3>3, <3>4
  <2>6. CASE Look(w)
    <3>1. /\ UNCHANGED chains /\ UNCHANGED ret /\ pc[w] = "look"
          /\ \E l \in {"lookfetch", "exec"} : Goto(w, l)
      BY <2>6 DEF Look, StartFetch
    <3>2. hold[w] # << >>
      BY <1>0, <1>2, <2>0, <3>1 DEF ControlOK
    <3> QED
      BY <1>4, <2>0, <3>1, <3>2
  <2> QED
    BY <1>12, <2>1, <2>2, <2>3, <2>4, <2>5, <2>6 DEF PollStep
<1>13. ASSUME NEW w \in Workers, DelayStep(w) PROVE ChainsOK'
  <2>1. /\ UNCHANGED chains /\ UNCHANGED ret
        /\ UNCHANGED pc \/ \E l \in DelayPCs : Goto(w, l)
    BY <1>13 DEF DelayStep, DelayLoop, DelaySpin, ReadEpoch, Recheck, EpochWait, Fetch,
       StartFetch
  <2> QED
    BY <1>4, <1>5, <2>1, ActorsAre
<1>14. ASSUME NEW w \in Workers, GuardStep(w) PROVE ChainsOK'
  <2>1. /\ UNCHANGED chains
        /\ \E l \in {"exited", "fetch", "loop", "d0", "delay"} : Goto(w, l)
    BY <1>14 DEF GuardStep, ThreadLoop, StartFetch, DelayEnter, Unregister, LeavePoll
  <2>2. \A b \in Actors : b # w => ret'[b] = ret[b]
    BY <1>0, <1>14 DEF GuardStep, ThreadLoop, DelayEnter, Unregister, LeavePoll, Set
  <2>3. w \in Actors
    BY ActorsAre
  <2> QED
    BY <1>0, <1>1, <1>3, <2>1, <2>2, <2>3
<1>15. CASE NotifyAll(Main)
  <2>1. /\ UNCHANGED chains /\ UNCHANGED ret
        /\ \A b \in Actors : pc'[b] \in {pc[b], "join", "wait"}
    BY <1>15 DEF NotifyAll
  <2> QED
    BY <1>0, <1>2, <2>1 DEF ChainsOK
<1>16. CASE BumpEpoch(Main, "bumpall", "notifyall") \/ Join \/ Terminate
  <2>1. /\ UNCHANGED chains /\ UNCHANGED ret
        /\ \E l \in {"notifyall", "drain", "bumpall"} : Goto(Main, l)
    BY <1>16 DEF BumpEpoch, Join, Terminate
  <2> QED
    BY <1>4, <2>1, ActorsAre
<1>17. CASE Drain
  <2>0. Main \in Actors
    BY ActorsAre
  <2>1. CASE at[Main] < ThreadCount * Dup
    <3>1. DrainSlot \in Slots /\ heads[DrainSlot] \in Seq(Tasks)
      BY <1>0, <2>1, DrainInside
    <3>2. ~(at[Main] = ThreadCount * Dup)
      BY <1>0, <2>0, <2>1, ActorsAre, Product DEF ScanOK
    <3>3. /\ hold' = Set(hold, Main, heads[DrainSlot]) /\ org' = Set(org, Main, org[Main])
          /\ item' = Set(item, Main, item[Main]) /\ UNCHANGED ret
          /\ \E l \in {"drain", "exec"} :
                Goto(Main, l) /\ (l = "exec" => heads[DrainSlot] # << >>)
      BY <1>1, <1>17, <2>0, <3>2 DEF Drain
    <3>4. heads' \in [Slots -> Seq(Tasks)]
      BY <1>0, <1>17, <3>2, ListFacts DEF Drain
    <3> QED
      BY <1>1, <1>3, <2>0, <3>1, <3>3, <3>4
  <2>2. CASE ~(at[Main] < ThreadCount * Dup)
    <3>1. UNCHANGED chains /\ UNCHANGED ret /\ \E l \in {"drain", "idle"} : Goto(Main, l)
      BY <1>17, <2>2 DEF Drain
    <3> QED
      BY <1>4, <2>0, <3>1
  <2> QED
    BY <2>1, <2>2
<1>18. CASE Queue
  <2>1. PICK t \in Roots \ created : NewTask(Main, t, "idle")
    BY <1>18 DEF Queue
  <2>2. t \in Tasks /\ t # None /\ Main \in Actors
    BY <2>1, TaskAssumption, ActorsAre
  <2>3. /\ hold' = Set(hold, Main, hold[Main]) /\ org' = Set(org, Main, org[Main])
        /\ item' = Set(item, Main, t) /\ Goto(Main, "queue") /\ UNCHANGED heads
        /\ ret'[Main] = "idle" /\ \A b \in Actors : b # Main => ret'[b] = ret[b]
    BY <1>0, <1>1, <1>18, <2>1, <2>2 DEF Queue, NewTask, Set
  <2> QED
    BY <1>0, <1>1, <1>3, <2>2, <2>3, ZenonT(60)
<1>19. CASE Start
  <2>1. /\ UNCHANGED <<hold, org, item, ret>> /\ heads' = EmptyHeads
        /\ \A b \in Actors : pc'[b] \in {"idle", "loop"}
    BY <1>19 DEF Start
  <2>2. EmptyHeads \in [Slots -> Seq(Tasks)]
    BY ListFacts DEF EmptyHeads
  <2> QED
    BY <1>0, <2>1, <2>2 DEF ChainsOK
<1>20. CASE UNCHANGED vars
  BY <1>5, <1>20 DEF vars
<1> QED
  BY <1>7, <1>8, <1>9, <1>10, <1>11, <1>12, <1>13, <1>14, <1>15, <1>16, <1>17, <1>18,
     <1>19, <1>20, StepClasses
-----------------------------------------------------------------------------
(* Types of the rest, and the theorems                                        *)

\* Every step keeps the types of the remaining state; only execute_task() reads
\* the head of a list for it.
LEMMA RestStep ==
    ASSUME Shape, [Next]_vars
    PROVE  RestOK'
<1> USE DEF counters, parking, history, pool, chains
<1>0. /\ RestOK
      /\ live \in BOOLEAN /\ dirty \in BOOLEAN /\ terminated \in BOOLEAN
      /\ starts \in 0 .. MaxStarts /\ taskCount \in Int
      /\ spins \in [Actors -> Nat] /\ fresh \in SUBSET Workers
      /\ created \in SUBSET Tasks /\ done \in SUBSET Tasks /\ runs \in [Tasks -> Nat]
  BY DEF Shape, RestOK
<1>1. \A a \in Actors : pc[a] \in ExecPCs => Head(hold[a]) \in Tasks
  <2>1. \A a \in Actors : pc[a] \in ExecPCs => hold[a] \in Seq(Tasks) /\ hold[a] # << >>
    BY DEF Shape, ChainsOK
  <2> QED
    BY <2>1, ListFacts
<1>2. CASE UNCHANGED <<live, dirty, terminated, starts, taskCount, parking, history>>
  BY <1>0, <1>2 DEF RestOK
<1>3. ASSUME NEW a \in Actors, PushStep(a) \/ WakeStep(a) \/ NotifyOne(a) PROVE RestOK'
  <2>1. UNCHANGED <<live, dirty, terminated, starts, taskCount, spins, history>>
        /\ fresh' \in {fresh, {}}
    BY <1>3 DEF PushStep, WakeStep, QueueTask, QueueCas, QueueChain, QueueLate, WakeGate,
       BumpEpoch, NotifyOne
  <2> QED
    BY <1>0, <2>1 DEF RestOK
<1>4. ASSUME NEW a \in Actors, Exec(a) PROVE RestOK'
  <2>1. Head(hold[a]) \in Tasks
    BY <1>1, <1>4 DEF Exec, ExecPCs
  <2>2. /\ UNCHANGED <<live, dirty, terminated, starts, parking, done>>
        /\ runs' = [runs EXCEPT ![Head(hold[a])] = @ + 1]
        /\ taskCount' \in {taskCount, taskCount + 1}
        /\ created' = created \/ \E c \in Tasks : created' = created \cup {c}
    BY <1>4, <2>1, TaskAssumption DEF Exec, NewTask
  <2>3. runs' \in [Tasks -> Nat] /\ taskCount' \in Int /\ created' \in SUBSET Tasks
    BY <1>0, <2>1, <2>2
  <2> QED
    BY <1>0, <2>2, <2>3 DEF RestOK
<1>5. ASSUME NEW a \in Actors, Finish(a) PROVE RestOK'
  <2>1. Head(hold[a]) \in Tasks
    BY <1>1, <1>5 DEF Finish, ExecPCs
  <2>2. /\ UNCHANGED <<live, dirty, terminated, starts, parking, created, runs>>
        /\ taskCount' = taskCount - 1 /\ done' = done \cup {Head(hold[a])}
    BY <1>5 DEF Finish
  <2> QED
    BY <1>0, <2>1, <2>2 DEF RestOK
<1>6. ASSUME NEW w \in Workers, PollStep(w) \/ DelayStep(w) \/ GuardStep(w) PROVE RestOK'
  <2>1. /\ UNCHANGED <<live, dirty, terminated, starts, taskCount, history>>
        /\ \/ UNCHANGED spins
           \/ spins' = Set(spins, w, 0)
           \/ spins' = Set(spins, w, spins[w] + 1)
        /\ fresh' \in {fresh, fresh \cup {w}, fresh \ {w}}
    BY <1>6 DEF PollStep, Fetch, Take, PutBack, Repush, Look, DelayStep, DelayLoop,
       DelaySpin, ReadEpoch, Recheck, EpochWait, GuardStep, ThreadLoop, DelayEnter,
       Unregister, LeavePoll
  <2>2. spins' \in [Actors -> Nat]
    BY <1>0, <2>1, ActorsAre DEF Set
  <2> QED
    BY <1>0, <2>1, <2>2 DEF RestOK
<1>7. CASE \/ NotifyAll(Main) \/ BumpEpoch(Main, "bumpall", "notifyall")
           \/ Join \/ Drain \/ Terminate
  <2>1. /\ UNCHANGED <<starts, taskCount, spins, history>> /\ fresh' \in {fresh, {}}
        /\ terminated' \in {terminated, TRUE}
    BY <1>7 DEF NotifyAll, BumpEpoch, Join, Drain, Terminate
  <2>2. live' \in BOOLEAN /\ dirty' \in BOOLEAN
    BY <1>0, <1>7 DEF NotifyAll, BumpEpoch, Join, Drain, Terminate
  <2>3. terminated' \in BOOLEAN
    BY <1>0, <2>1
  <2> QED
    BY <1>0, <2>1, <2>2, <2>3 DEF RestOK
<1>8. CASE Queue
  <2>1. /\ UNCHANGED <<live, dirty, terminated, starts, parking, runs, done>>
        /\ taskCount' = taskCount + 1
        /\ \E c \in Tasks : created' = created \cup {c}
    BY <1>8, TaskAssumption DEF Queue, NewTask
  <2> QED
    BY <1>0, <2>1 DEF RestOK
<1>9. CASE Start
  <2>1. /\ UNCHANGED <<dirty, taskCount, parking, history>> /\ live' = TRUE
        /\ terminated' = FALSE /\ starts' = starts + 1 /\ starts < MaxStarts
    BY <1>9 DEF Start
  <2>2. starts' \in 0 .. MaxStarts
    BY <1>0, <2>1, PoolAssumption
  <2> QED
    BY <1>0, <2>1, <2>2 DEF RestOK
<1>10. CASE UNCHANGED vars
  BY <1>2, <1>10 DEF vars
<1> QED
  BY <1>3, <1>4, <1>5, <1>6, <1>7, <1>8, <1>9, <1>10, StepClasses

\* The pool before start(): no thread, no task, every counter zero.
LEMMA ShapeInit == Init => Shape
<1> SUFFICES ASSUME Init PROVE Shape
  OBVIOUS
<1> USE DEF PollPCs, DelayPCs, QueuePCs, WakePCs, ExecPCs, JoinPCs, PollingPCs, WorkerPCs,
            OwnerPCs, ReturnPCs
<1>1. pc \in [Actors -> PCs] /\ pc[Main] = "idle" /\ \A w \in Workers : pc[w] = "exited"
  BY ActorsAre DEF Init, PCs
<1>2. ControlOK
  BY <1>1, ActorsAre DEF Init, ControlOK
<1>3. ChainsOK
  <2>1. heads \in [Slots -> Seq(Tasks)] /\ hold \in [Actors -> Seq(Tasks)]
        /\ org \in [Actors -> Seq(Tasks)] /\ item \in [Actors -> Tasks \cup {None}]
    BY ListFacts DEF Init, EmptyHeads
  <2> QED
    BY <1>1, <2>1, ActorsAre DEF ChainsOK
<1>4. ScanOK
  <2>1. 0 \in 0 .. ThreadCount * Dup /\ 0 \in 0 .. ThreadCount /\ <<0, 0>> \in Slots
    BY ActorsAre, Product DEF Slots
  <2> QED
    BY <1>1, <2>1, ActorsAre DEF Init, ScanOK
<1>5. CountsOK
  <2>1. Polling = {} /\ Registered = {}
    BY <1>1 DEF Polling, Registered
  <2> QED
    BY <2>1, FS_EmptySet DEF Init, CountsOK
<1>6. OwnerOK
  BY <1>1 DEF Init, OwnerOK
<1>7. RestOK
  <2>1. starts \in 0 .. MaxStarts
    BY PoolAssumption DEF Init
  <2>2. spins \in [Actors -> Nat] /\ runs \in [Tasks -> Nat] /\ taskCount \in Int
    BY DEF Init
  <2> QED
    BY <2>1, <2>2 DEF Init, RestOK
<1> QED
  BY <1>2, <1>3, <1>4, <1>5, <1>6, <1>7 DEF Shape

\* The invariant holds in every behaviour.
LEMMA ShapeHolds == Spec => []Shape
<1>1. Shape /\ [Next]_vars => Shape'
  BY ControlStep, ChainsStep, ScanStep, CountsStep, OwnerOKStep, RestStep DEF Shape
<1> QED
  BY <1>1, ShapeInit, PTL DEF Spec

\* Type correctness of the pool for any number of threads, duplicates, tasks and
\* restarts: in particular no scan of fetch() or poll() and no choice of
\* queue_task() indexes task_heads out of bounds, although priority_size is computed
\* from counters other threads change meanwhile, and no thread follows the first
\* node of a list it has found empty.
THEOREM TypeCorrect == Spec => []TypeOK
<1>1. Shape => TypeOK
  <2> SUFFICES ASSUME Shape PROVE TypeOK
    OBVIOUS
  <2>1. running \in Int /\ waiting \in Int
    BY CountsFinite DEF Shape, CountsOK
  <2>2. /\ pc \in [Actors -> PCs] /\ ret \in [Actors -> {"idle", "exec", "finish"}]
        /\ heads \in [Slots -> Seq(Tasks)] /\ hold \in [Actors -> Seq(Tasks)]
        /\ org \in [Actors -> Seq(Tasks)] /\ item \in [Actors -> Tasks \cup {None}]
    BY DEF Shape, ControlOK, ChainsOK
  <2>3. /\ at \in [Actors -> 0 .. ThreadCount * Dup] /\ view \in [Actors -> 0 .. ThreadCount]
        /\ slot \in [Actors -> Slots]
    BY DEF Shape, ScanOK
  <2> QED
    BY <2>1, <2>2, <2>3 DEF TypeOK, Shape, RestOK
<1> QED
  BY <1>1, ShapeHolds, PTL

\* The counters running_count and waiting_thread_count equal the number of threads
\* inside poll_one() and inside delay(), through every early return of both: the
\* priorities a poller sees and the wakeup gate are computed from them.
THEOREM GuardsExact ==
    Spec => [](running = Cardinality(Polling) /\ waiting = Cardinality(Registered))
<1>1. Shape => running = Cardinality(Polling) /\ waiting = Cardinality(Registered)
  BY DEF Shape, CountsOK
<1> QED
  BY <1>1, ShapeHolds, PTL

\* When join() polls the last tasks, no pool thread is left and the assertions on
\* the two counters hold.
THEOREM JoinAlone ==
    Spec => [](pc[Main] = "drain" =>
                  /\ \A w \in Workers : pc[w] = "exited"
                  /\ running = 0 /\ waiting = 0)
<1>1. Shape => (pc[Main] = "drain" => /\ \A w \in Workers : pc[w] = "exited"
                                      /\ running = 0 /\ waiting = 0)
  <2> SUFFICES ASSUME Shape, pc[Main] = "drain"
               PROVE  (\A w \in Workers : pc[w] = "exited") /\ running = 0 /\ waiting = 0
    OBVIOUS
  <2>1. \A w \in Workers : pc[w] = "exited"
    BY DEF Shape, OwnerOK, Closing
  <2>2. Polling = {} /\ Registered = {}
    BY <2>1 DEF Polling, Registered, PollPCs, QueuePCs, WakePCs, ExecPCs, DelayPCs
  <2> QED
    BY <2>1, <2>2, FS_EmptySet DEF Shape, CountsOK
<1> QED
  BY <1>1, ShapeHolds, PTL

-----------------------------------------------------------------------------
(* Wakeups                                                                    *)

\* Where a pool thread is that has a task to execute.
BusyPCs == {"repush", "look", "lookfetch"} \cup QueuePCs \cup WakePCs \cup ExecPCs

\* The scan of actor a has slot s still before it.
Visited(a, p) == <<p % view[a], (p \div view[a] + ThreadIndex(a)) % Dup>>
ToCome(a, s) == \E p \in Nat : at[a] <= p /\ p < view[a] * Dup /\ Visited(a, p) = s

\* Actor a is going to wake a thread for slot s.
Announces(a, s) ==
    \/ pc[a] = "bump"
    \/ pc[a] \in {"gate", "repush"} /\ slot[a][1] <= s[1]
    \/ pc[a] = "look" /\ slot[a][1] <= s[1] /\ s[1] < view[a]
    \/ pc[a] = "lookfetch" /\ slot[a][1] <= s[1] /\ ToCome(a, s)

\* Pool thread w is registered and will look at slot s before it sleeps.
Alert(w, s) ==
    \/ pc[w] \in {"d0", "d1", "spin", "d2", "epoch", "recheck", "unreg"}
    \/ pc[w] = "d3" /\ (w \notin fresh \/ ToCome(w, s))
    \/ pc[w] = "wait" /\ w \notin fresh

\* Pool thread w is going to poll again, or it sees slot s in this poll; or it is
\* the exception of NoStrandedTask.
Polls(w, s) ==
    \/ pc[w] \in {"loop", "leave", "miss", "delay"}
    \/ pc[w] \in {"fetch", "take", "putback"} /\ s[1] < view[w]
    \/ pc[w] \in BusyPCs /\ (Head(hold[w]) \in Blocking => Clamp(Prio[Head(hold[w])]) > s[1])

Serves(a, s) == Announces(a, s) \/ (a \in Workers /\ (Alert(a, s) \/ Polls(a, s)))

\* The epoch was bumped while everyone slept, and the notification is to come.
Heralded ==
    /\ \E a \in Actors : pc[a] = "notify"
    /\ \A w \in Workers : pc[w] \in DelayPCs => pc[w] = "asleep" /\ w \notin fresh

\* A task for which a parked thread should be woken is attended to.
Due(s) == heads[s] # << >> /\ s[1] + LimitCount < waiting
Cared(s) == Heralded \/ \E a \in Actors : Serves(a, s)
Attended == ~terminated => \A s \in Slots : Due(s) => Cared(s)

\* Before terminate() each task is in the row of its priority.
InRow(q, n) == \A i \in 1 .. Len(q) : Clamp(Prio[q[i]]) = n
RowsOK ==
    ~terminated =>
       /\ \A s \in Slots : InRow(heads[s], s[1])
       /\ \A w \in Workers : /\ pc[w] = "putback" => InRow(hold[w], slot[w][1])
                             /\ pc[w] = "repush" => InRow(org[w], slot[w][1])

\* What poll_one_internal() found is in its view, and tasks are chained to the first
\* head only after terminate().
FoundOK ==
    /\ \A w \in Workers : pc[w] \in {"take", "putback"} => slot[w][1] < view[w]
    /\ \A a \in Actors : pc[a] = "late" => terminated

\* How terminate() empties the kernel's queue of sleepers.
EndOK ==
    terminated =>
       \/ \A w \in Workers : pc[w] = "exited"
       \/ pc[Main] = "bumpall"
       \/ /\ pc[Main] \in {"notifyall", "join"}
          /\ \A w \in fresh : pc[w] \in {"recheck", "unreg"}
          /\ pc[Main] = "join" => Asleep = {}

WakeInv == Attended /\ RowsOK /\ FoundOK /\ EndOK

-----------------------------------------------------------------------------
\* Actor b is left as it is.
Same(b) ==
    /\ pc'[b] = pc[b] /\ slot'[b] = slot[b] /\ view'[b] = view[b] /\ at'[b] = at[b]
    /\ hold'[b] = hold[b] /\ org'[b] = org[b]
    /\ b \in fresh' => b \in fresh

\* An actor that is left as it is goes on serving.
LEMMA ServesKept ==
    ASSUME NEW b \in Actors, NEW s \in Slots, Same(b), Serves(b, s)
    PROVE  Serves(b, s)'
<1>1. ToCome(b, s) => ToCome(b, s)'
  BY DEF Same, ToCome, Visited
<1>2. Announces(b, s) => Announces(b, s)'
  BY <1>1 DEF Same, Announces
<1>3. Alert(b, s) => Alert(b, s)'
  BY <1>1 DEF Same, Alert
<1>4. Polls(b, s) => Polls(b, s)'
  BY DEF Same, Polls
<1> QED
  BY <1>2, <1>3, <1>4 DEF Serves

\* What a step of actor a owes to slot s: it is cared for, or nothing has changed
\* about it and a had no part in it.
Carried(a, s) ==
    Due(s)' => \/ Cared(s)'
               \/ /\ Due(s) /\ ~Serves(a, s) /\ pc[a] \notin {"notify", "asleep"}
                  /\ pc'[a] \in DelayPCs => pc[a] \in DelayPCs

\* A step of one actor that owes nothing keeps every slot attended to.
LEMMA Solo ==
    ASSUME NEW a \in Actors, \A b \in Actors : b # a => Same(b),
           NEW s \in Slots, Attended, ~terminated, Carried(a, s)
    PROVE  Due(s)' => Cared(s)'
<1> SUFFICES ASSUME Due(s)', ~Cared(s)' PROVE FALSE
  OBVIOUS
<1>1. /\ Due(s) /\ ~Serves(a, s) /\ pc[a] \notin {"notify", "asleep"}
      /\ pc'[a] \in DelayPCs => pc[a] \in DelayPCs
  BY DEF Carried
<1>2. Cared(s)
  BY <1>1 DEF Attended
<1>3. ASSUME NEW b \in Actors, Serves(b, s) PROVE FALSE
  <2>1. b # a
    BY <1>1, <1>3
  <2>2. Serves(b, s)'
    BY <1>3, <2>1, ServesKept
  <2> QED
    BY <2>2 DEF Cared
<1>4. ASSUME Heralded PROVE FALSE
  <2>1. PICK b \in Actors : pc[b] = "notify"
    BY <1>4 DEF Heralded
  <2>2. pc'[b] = "notify"
    BY <1>1, <2>1 DEF Same
  <2>3. ASSUME NEW w \in Workers, pc'[w] \in DelayPCs
        PROVE  pc'[w] = "asleep" /\ w \notin fresh'
    <3>1. w \in Actors
      BY ActorsAre
    <3>2. CASE w = a
      BY <1>1, <1>4, <2>3, <3>2 DEF Heralded
    <3>3. CASE w # a
      BY <1>4, <2>3, <3>1, <3>3 DEF Heralded, Same
    <3> QED
      BY <3>2, <3>3
  <2>4. Heralded'
    BY <2>2, <2>3 DEF Heralded
  <2> QED
    BY <2>4 DEF Cared
<1> QED
  BY <1>2, <1>3, <1>4 DEF Cared

-----------------------------------------------------------------------------
\* Quotient and remainder are unique.
LEMMA DivMod ==
    ASSUME NEW d \in Nat, NEW q \in Nat, NEW r \in 0 .. d - 1, NEW n \in Nat, n = q * d + r
    PROVE  n % d = r /\ n \div d = q
<1>1. d > 0
  OBVIOUS
<1>2. n % d \in 0 .. d - 1 /\ n \div d \in Nat /\ n = d * (n \div d) + (n % d)
  BY ONLY n \in Nat, d \in Nat, <1>1
<1>3. PICK p \in Nat, m \in 0 .. d - 1 : p = n \div d /\ m = n % d /\ n = d * p + m
  BY <1>2
<1>4. ASSUME NEW x \in Nat, NEW y \in Nat, x + 1 <= y PROVE x * d + d <= y * d
  <2>1. (x + 1) * d <= y * d
    BY <1>4, Product
  <2>2. (x + 1) * d = x * d + d
    OBVIOUS
  <2> QED
    BY <2>1, <2>2
<1>5. PICK pd \in Nat, qd \in Nat : pd = p * d /\ qd = q * d
  BY Product
<1>6. n = pd + m /\ n = qd + r
  <2>1. d * p = p * d
    OBVIOUS
  <2> QED
    BY ONLY <1>3, <1>5, <2>1, n = q * d + r
<1>7. ~(p + 1 <= q)
  <2>1. p + 1 <= q => pd + d <= qd
    BY <1>4, <1>5
  <2> QED
    BY ONLY <1>6, <2>1, d \in Nat, pd \in Nat, qd \in Nat, r \in 0 .. d - 1, m \in 0 .. d - 1
<1>8. ~(q + 1 <= p)
  <2>1. q + 1 <= p => qd + d <= pd
    BY <1>4, <1>5
  <2> QED
    BY ONLY <1>6, <2>1, d \in Nat, pd \in Nat, qd \in Nat, r \in 0 .. d - 1, m \in 0 .. d - 1
<1>9. p = q
  BY ONLY <1>7, <1>8, p \in Nat, q \in Nat
<1>10. m = r
  <2>1. pd = qd
    BY <1>5, <1>9
  <2> QED
    BY ONLY <1>6, <2>1, pd \in Nat, m \in 0 .. d - 1, r \in 0 .. d - 1, d \in Nat
<1> QED
  BY <1>3, <1>9, <1>10

\* The duplicates scanned from any index are all duplicates.
LEMMA AllDuplicates ==
    ASSUME NEW i \in Nat, NEW k \in 0 .. Dup - 1
    PROVE  \E j \in 0 .. Dup - 1 : (j + i) % Dup = k
<1> DEFINE q == i \div Dup
           r == i % Dup
<1>1. q \in Nat /\ r \in 0 .. Dup - 1 /\ i = Dup * q + r
  BY ActorsAre
<1>2. q * Dup \in Nat /\ Dup * q = q * Dup /\ (q + 1) * Dup = q * Dup + Dup
  BY <1>1, ActorsAre, Product
<1>3. (q * Dup + k) % Dup = k /\ ((q + 1) * Dup + k) % Dup = k
  <2>1. q * Dup + k \in Nat /\ (q + 1) * Dup + k \in Nat /\ q + 1 \in Nat
    BY <1>1, <1>2, ActorsAre
  <2> HIDE DEF q
  <2>2. ASSUME NEW m \in Nat, m * Dup + k \in Nat PROVE (m * Dup + k) % Dup = k
    BY <2>2, DivMod, ActorsAre
  <2> QED
    BY <1>1, <2>1, <2>2
<1> HIDE DEF q, r
<1>4. CASE r <= k
  <2>1. k - r \in 0 .. Dup - 1 /\ (k - r) + i = q * Dup + k
    BY <1>1, <1>2, <1>4, ActorsAre
  <2> QED
    BY <1>3, <2>1
<1>5. CASE k < r
  <2>1. k - r + Dup \in 0 .. Dup - 1 /\ (k - r + Dup) + i = (q + 1) * Dup + k
    BY <1>1, <1>2, <1>5, ActorsAre
  <2> QED
    BY <1>3, <2>1
<1> QED
  BY <1>1, <1>4, <1>5

\* A scan that begins comes to every slot of its rows.
LEMMA ToComeStart ==
    ASSUME NEW a \in Actors, NEW s \in Slots, ScanOK', at'[a] = 0, s[1] < view'[a]
    PROVE  ToCome(a, s)'
<1>1. /\ view'[a] \in Nat /\ ThreadIndex(a) \in Nat /\ Dup \in Nat
      /\ s[1] \in 0 .. view'[a] - 1 /\ s[2] \in 0 .. Dup - 1 /\ s = <<s[1], s[2]>>
  BY ActorsAre, ScanBounds DEF ScanOK, Slots
<1>2. PICK j \in 0 .. Dup - 1 : (j + ThreadIndex(a)) % Dup = s[2]
  BY <1>1, AllDuplicates
<1> DEFINE v == view'[a]
           p == j * v + s[1]
<1>3. p \in Nat /\ p % v = s[1] /\ p \div v = j
  <2>1. v \in Nat /\ j \in Nat /\ s[1] \in 0 .. v - 1
    BY <1>1
  <2>2. j * v \in Nat
    BY <2>1, Product
  <2>3. p \in Nat
    BY <2>1, <2>2
  <2>4. p = j * v + s[1]
    OBVIOUS
  <2> HIDE DEF p, v
  <2> QED
    BY <2>1, <2>3, <2>4, DivMod
<1>4. j + 1 \in Nat /\ (j + 1) * v <= Dup * v /\ (j + 1) * v = j * v + v /\ Dup * v = v * Dup
      /\ j * v \in Nat
  BY <1>1, Product
<1>5. p < v * Dup
  BY <1>1, <1>4
<1>6. <<p % v, (p \div v + ThreadIndex(a)) % Dup>> = s
  BY <1>1, <1>2, <1>3
<1> QED
  BY <1>3, <1>5, <1>6 DEF ToCome, Visited

\* It goes on without passing a slot that is not empty.
LEMMA ToComeNext ==
    ASSUME NEW a \in Actors, NEW s \in Slots, ScanOK, ToCome(a, s),
           heads[FetchSlot(a)] = << >>, heads[s] # << >>,
           at'[a] = at[a] + 1, view'[a] = view[a]
    PROVE  ToCome(a, s)'
<1>1. PICK p \in Nat : at[a] <= p /\ p < view[a] * Dup /\ Visited(a, p) = s
  BY DEF ToCome
<1>2. FetchSlot(a) = Visited(a, at[a])
  BY DEF FetchSlot, Visited
<1>3. p # at[a]
  BY <1>1, <1>2
<1>4. at[a] \in Nat
  BY ActorsAre, Product DEF ScanOK
<1>5. at'[a] <= p /\ p < view'[a] * Dup /\ Visited(a, p)' = s
  BY <1>1, <1>3, <1>4 DEF Visited
<1> QED
  BY <1>5 DEF ToCome

\* It does not end before it has come to the slot.
LEMMA ToComeEnd ==
    ASSUME NEW a \in Actors, NEW s \in Slots, ScanOK, ToCome(a, s)
    PROVE  at[a] < view[a] * Dup
<1>1. at[a] \in Nat /\ view[a] * Dup \in Nat
  BY ActorsAre, Product DEF ScanOK
<1> QED
  BY <1>1 DEF ToCome

-----------------------------------------------------------------------------
\* The steps in which one actor changes its own state and the heads.
SoloStep(a) ==
    \/ PushStep(a) \/ WakeStep(a) \/ Exec(a) \/ Finish(a)
    \/ a \in Workers /\ (PollStep(a) \/ DelayStep(a) \/ GuardStep(a))
    \/ a = Main /\ Queue

\* They leave the other actors as they are.
LEMMA SoloSame ==
    ASSUME Shape, NEW a \in Actors, SoloStep(a)
    PROVE  UNCHANGED terminated /\ \A b \in Actors : b # a => Same(b)
<1> USE DEF SoloStep, PushStep, WakeStep, PollStep, DelayStep, GuardStep, counters, scan, chains,
        parking
<1> DEFINE Alone(f, g) == f = g \/ \E v : f = Set(g, a, v)
<1>1. UNCHANGED terminated
  BY DEF QueueTask, QueueCas, QueueChain, QueueLate, WakeGate, BumpEpoch, Exec, Finish, Fetch,
     Take, PutBack, Repush, Look, DelayLoop, DelaySpin, ReadEpoch, Recheck, EpochWait,
     ThreadLoop, DelayEnter, Unregister, LeavePoll, Queue
<1>2. Alone(pc', pc)
  BY ZenonT(60)
     DEF QueueTask, QueueCas, QueueChain, QueueLate, Push, WakeGate, BumpEpoch, Exec, NewTask,
     Finish, Fetch, StartFetch, Take, PutBack, Repush, Look, DelayLoop, DelaySpin, ReadEpoch,
     Recheck, EpochWait, ThreadLoop, DelayEnter, Unregister, LeavePoll, Queue, Goto, Set
<1>3. Alone(slot', slot)
  BY ZenonT(60) DEF QueueTask, QueueCas, QueueChain, QueueLate, Push, WakeGate, BumpEpoch, Exec,
     Finish, Fetch, StartFetch, Take, PutBack, Repush, Look, DelayLoop, DelaySpin, ReadEpoch,
     Recheck, EpochWait, ThreadLoop, DelayEnter, Unregister, LeavePoll, Queue
<1>4. Alone(view', view)
  BY DEF QueueTask, QueueCas, QueueChain, QueueLate, WakeGate, BumpEpoch, Exec,
     Finish, Fetch, StartFetch, Take, PutBack, Repush, Look, DelayLoop, DelaySpin, ReadEpoch,
     Recheck, EpochWait, ThreadLoop, DelayEnter, Unregister, LeavePoll, Queue
<1>5. Alone(at', at)
  BY DEF QueueTask, QueueCas, QueueChain, QueueLate, WakeGate, BumpEpoch, Exec,
     Finish, Fetch, StartFetch, Take, PutBack, Repush, Look, DelayLoop, DelaySpin, ReadEpoch,
     Recheck, EpochWait, ThreadLoop, DelayEnter, Unregister, LeavePoll, Queue
<1>6. Alone(hold', hold)
  BY ZenonT(60) DEF QueueTask, QueueCas, QueueChain, QueueLate, Push, WakeGate, BumpEpoch, Exec,
     Finish, Fetch, Take, PutBack, Repush, Look, DelayLoop, DelaySpin, ReadEpoch,
     Recheck, EpochWait, ThreadLoop, DelayEnter, Unregister, LeavePoll, Queue
<1>7. Alone(org', org)
  BY ZenonT(60) DEF QueueTask, QueueCas, QueueChain, QueueLate, Push, WakeGate, BumpEpoch, Exec,
     Finish, Fetch, Take, PutBack, Repush, Look, DelayLoop, DelaySpin, ReadEpoch,
     Recheck, EpochWait, ThreadLoop, DelayEnter, Unregister, LeavePoll, Queue
<1>8. fresh' \subseteq fresh \cup {a}
  BY DEF QueueTask, QueueCas, QueueChain, QueueLate, WakeGate, BumpEpoch, Exec,
     Finish, Fetch, Take, PutBack, Repush, Look, DelayLoop, DelaySpin, ReadEpoch,
     Recheck, EpochWait, ThreadLoop, DelayEnter, Unregister, LeavePoll, Queue
<1>9. /\ DOMAIN pc = Actors /\ DOMAIN slot = Actors /\ DOMAIN view = Actors
      /\ DOMAIN at = Actors /\ DOMAIN hold = Actors /\ DOMAIN org = Actors
  BY DEF Shape, ControlOK, ChainsOK, ScanOK
<1>10. ASSUME NEW f, NEW g, Alone(f, g), DOMAIN g = Actors, NEW b \in Actors, b # a
       PROVE  f[b] = g[b]
  BY <1>10 DEF Set
<1> HIDE DEF Alone
<1> QED
  BY <1>1, <1>2, <1>3, <1>4, <1>5, <1>6, <1>7, <1>8, <1>9, <1>10 DEF Same

-----------------------------------------------------------------------------
\* A thread with a task to execute serves a slot until it has executed it.
LEMMA BusyOn ==
    ASSUME NEW a \in Actors, NEW s \in Slots, Polls(a, s), pc[a] \in BusyPCs,
           pc'[a] \in BusyPCs, hold'[a] = hold[a]
    PROVE  Polls(a, s)'
  BY DEF Polls, BusyPCs, QueuePCs, WakePCs, ExecPCs

\* queue_task() announces the slot it pushes to.
LEMMA PushCarried ==
    ASSUME Shape, WakeInv, ~terminated, NEW a \in Actors, PushStep(a), NEW s \in Slots
    PROVE  Carried(a, s)
<1> USE DEF PollPCs, DelayPCs, QueuePCs, WakePCs, ExecPCs, chains, counters
<1>0. /\ ControlOK /\ hold \in [Actors -> Seq(Tasks)] /\ heads \in [Slots -> Seq(Tasks)]
      /\ slot \in [Actors -> Slots]
  BY DEF Shape, ChainsOK, ScanOK
<1>1. /\ pc[a] \in {"queue", "cas", "chain"} /\ UNCHANGED waiting
      /\ hold'[a] = hold[a]
      /\ \E l \in {"cas", "chain", "gate"} : Goto(a, l)
  <2>1. pc[a] # "late"
    BY DEF WakeInv, FoundOK
  <2> QED
    BY <2>1 DEF PushStep, QueueTask, QueueCas, QueueChain, QueueLate, Push
<1>2. pc'[a] \in {"cas", "chain", "gate"}
  BY <1>0, <1>1, Jump
<1>3. UNCHANGED heads \/ \E r \in Slots : /\ heads' = [heads EXCEPT ![r] = <<item[a]>> \o @]
                                          /\ slot' = Set(slot, a, r) /\ pc'[a] = "gate"
  <2>1. UNCHANGED heads \/ \E r : Push(a, r, "gate")
    BY <1>1 DEF PushStep, QueueTask, QueueCas, QueueChain, QueueLate
  <2>2. ASSUME NEW r, Push(a, r, "gate"), ~UNCHANGED heads
        PROVE  /\ r \in Slots /\ heads' = [heads EXCEPT ![r] = <<item[a]>> \o @]
               /\ slot' = Set(slot, a, r) /\ pc'[a] = "gate"
    <3>1. heads' = [heads EXCEPT ![r] = <<item[a]>> \o @] /\ slot' = Set(slot, a, r)
          /\ Goto(a, "gate")
      BY <2>2 DEF Push
    <3>2. r \in DOMAIN heads
      BY <1>0, <2>2, <3>1
    <3> QED
      BY <1>0, <3>1, <3>2, Jump
  <2> QED
    BY <2>1, <2>2
<1>4. Serves(a, s) => Serves(a, s)'
  <2>1. Serves(a, s) => a \in Workers /\ Polls(a, s)
    BY <1>1 DEF Serves, Announces, Alert
  <2> QED
    BY <1>1, <1>2, <2>1, BusyOn DEF Serves, BusyPCs
<1>5. CASE Due(s)
  <2>1. pc[a] \notin {"notify", "asleep"} /\ pc'[a] \notin DelayPCs
    BY <1>1, <1>2
  <2> QED
    BY <1>4, <1>5, <2>1 DEF Carried, Cared
<1>6. CASE ~Due(s) /\ Due(s)'
  <2>1. heads'[s] # heads[s]
    BY <1>1, <1>6 DEF Due
  <2>2. slot'[a] = s /\ pc'[a] = "gate"
    BY <1>0, <1>3, <2>1 DEF Set
  <2>3. s[1] <= s[1]
    BY ActorsAre DEF Slots
  <2>4. Serves(a, s)'
    BY <2>2, <2>3 DEF Serves, Announces
  <2> QED
    BY <2>4 DEF Carried, Cared
<1> QED
  BY <1>5, <1>6 DEF Carried

\* A wakeup that is due is not skipped, and the bump of the epoch reaches whoever is
\* about to sleep.
LEMMA WakeCarried ==
    ASSUME Shape, WakeInv, ~terminated, NEW a \in Actors, WakeStep(a), NEW s \in Slots
    PROVE  Carried(a, s)
<1> USE DEF PollPCs, DelayPCs, QueuePCs, WakePCs, ExecPCs, chains, counters
<1>0. /\ ControlOK /\ slot \in [Actors -> Slots]
      /\ slot[a][1] \in Nat /\ s[1] \in Nat /\ LimitCount \in Nat /\ waiting \in Nat
  BY CountsFinite, PoolAssumption, ActorsAre DEF Shape, ScanOK, Slots, CountsOK
<1>1. CASE WakeGate(a)
  <2>1. /\ pc[a] = "gate" /\ UNCHANGED <<heads, waiting, hold>>
        /\ IF WakeWorthwhile(a) THEN pc'[a] = "bump" /\ slot'[a] = slot[a] ELSE pc'[a] = ret[a]
    BY <1>0, <1>1, Jump DEF WakeGate
  <2>2. a \in Workers => ret[a] \in {"exec", "finish"}
    BY <1>0, <2>1 DEF ControlOK, ReturnPCs
  <2>3. ASSUME Due(s), Serves(a, s) PROVE Serves(a, s)'
    <3>1. CASE slot[a][1] <= s[1]
      <4>1. WakeWorthwhile(a)
        BY <1>0, <2>3, <3>1 DEF WakeWorthwhile, Due
      <4> QED
        BY <2>1, <4>1 DEF Serves, Announces
    <3>2. CASE ~(slot[a][1] <= s[1])
      <4>1. a \in Workers /\ Polls(a, s)
        BY <2>1, <2>3, <3>2 DEF Serves, Announces, Alert
      <4> QED
        BY <2>1, <2>2, <4>1, BusyOn DEF Serves, BusyPCs
    <3> QED
      BY <3>1, <3>2
  <2>4. pc'[a] \notin DelayPCs
    BY <1>0, <2>1 DEF ControlOK
  <2>5. Due(s)' => Due(s)
    BY <2>1 DEF Due
  <2> QED
    BY <2>1, <2>3, <2>4, <2>5 DEF Carried, Cared
<1>2. CASE BumpEpoch(a, "bump", "notify")
  <2>1. /\ pc[a] = "bump" /\ fresh' = {} /\ pc'[a] = "notify"
    BY <1>0, <1>2, Jump DEF BumpEpoch
  <2>2. ASSUME NEW w \in Workers, pc'[w] \in DelayPCs, pc'[w] # "asleep" PROVE Cared(s)'
    <3>1. Alert(w, s)'
      BY <2>1, <2>2 DEF Alert
    <3> QED
      BY <2>2, <3>1, ActorsAre DEF Cared, Serves
  <2>3. CASE \A w \in Workers : pc'[w] \in DelayPCs => pc'[w] = "asleep"
    <3>1. \A w \in Workers : pc'[w] \in DelayPCs => pc'[w] = "asleep" /\ w \notin fresh'
      BY <2>1, <2>3
    <3>2. Heralded'
      BY <2>1, <3>1 DEF Heralded
    <3> QED
      BY <3>2 DEF Carried, Cared
  <2> QED
    BY <2>2, <2>3 DEF Carried
<1> QED
  BY <1>1, <1>2 DEF WakeStep

\* A task that is executed is followed by another poll.
LEMMA ExecCarried ==
    ASSUME Shape, WakeInv, ~terminated, NEW a \in Actors, Exec(a) \/ Finish(a), NEW s \in Slots
    PROVE  Carried(a, s)
<1> USE DEF PollPCs, DelayPCs, QueuePCs, WakePCs, ExecPCs, chains, counters
<1>0. ControlOK
  BY DEF Shape
<1>1. UNCHANGED <<heads, waiting>> /\ pc[a] \in {"exec", "finish"}
  BY DEF Exec, NewTask, Finish
<1>2. pc'[a] \in {"queue", "finish", "drain", "idle", "exec", "leave"}
  BY <1>0, Jump DEF Exec, NewTask, Finish, AfterOwnTask
<1>3. a \in Workers => pc'[a] = "leave" \/ (pc'[a] \in {"queue", "finish"} /\ hold'[a] = hold[a])
  BY <1>0, Jump, ActorsAre DEF Exec, NewTask, Finish
<1>4. Serves(a, s) => a \in Workers /\ Polls(a, s)
  BY <1>1 DEF Serves, Announces, Alert
<1>5. Serves(a, s) => Polls(a, s)'
  BY <1>1, <1>3, <1>4, BusyOn DEF BusyPCs, Polls
<1>6. Due(s)' => Due(s)
  BY <1>1 DEF Due
<1> QED
  BY <1>1, <1>2, <1>4, <1>5, <1>6 DEF Carried, Cared, Serves

\* One step of fetch(): the end of the scan, an empty head, or one that is not.
LEMMA FetchCases ==
    ASSUME Shape, NEW w \in Workers, NEW l, NEW hit, NEW miss, Fetch(w, l, hit, miss),
           l # hit, l # miss
    PROVE  /\ pc[w] = l /\ UNCHANGED <<heads, waiting, hold, fresh>>
           /\ l = "fetch" => view'[w] = view[w]
           /\ \/ at[w] >= view[w] * Dup /\ pc'[w] = miss /\ slot'[w] = slot[w]
              \/ /\ at[w] < view[w] * Dup /\ heads[FetchSlot(w)] = << >> /\ pc'[w] = l
                 /\ at'[w] = at[w] + 1 /\ view'[w] = view[w] /\ slot'[w] = slot[w]
              \/ /\ at[w] < view[w] * Dup /\ pc'[w] = hit
                 /\ slot'[w] = IF l = "fetch" THEN FetchSlot(w) ELSE slot[w]
<1>0. /\ ControlOK /\ w \in Actors /\ DOMAIN at = Actors /\ DOMAIN view = Actors
      /\ DOMAIN slot = Actors
  BY ActorsAre DEF Shape, ScanOK
<1>1. /\ pc[w] = l /\ UNCHANGED <<heads, waiting, hold, fresh>>
      /\ view' = IF l # "fetch" /\ pc'[w] # l THEN Set(view, w, 0) ELSE view
  BY DEF Fetch, counters, chains, parking
<1>2. CASE at[w] >= view[w] * Dup /\ Goto(w, miss) /\ UNCHANGED slot
  BY <1>0, <1>1, <1>2, Jump
<1>3. CASE /\ at[w] < view[w] * Dup /\ heads[FetchSlot(w)] = << >>
           /\ at' = Set(at, w, at[w] + 1) /\ UNCHANGED <<pc, slot>>
  <2>1. view' = view
    BY <1>1, <1>3
  <2> QED
    BY <1>0, <1>1, <1>3, <2>1 DEF Set
<1>4. CASE /\ at[w] < view[w] * Dup /\ Goto(w, hit)
           /\ slot' = IF l = "fetch" THEN Set(slot, w, FetchSlot(w)) ELSE slot
  <2>1. pc'[w] = hit
    BY <1>0, <1>4, Jump
  <2>2. slot'[w] = IF l = "fetch" THEN FetchSlot(w) ELSE slot[w]
    BY <1>0, <1>4 DEF Set
  <2> QED
    BY <1>1, <1>4, <2>1, <2>2
<1> QED
  BY <1>2, <1>3, <1>4 DEF Fetch

\* poll_one_internal(): whoever takes a task sees to the ones it leaves, as far as
\* their priority is not above that of the task it took.
LEMMA PollCarried ==
    ASSUME Shape, ScanOK', WakeInv, ~terminated, NEW w \in Workers, PollStep(w), NEW s \in Slots
    PROVE  Carried(w, s)
<1> USE DEF PollPCs, DelayPCs, QueuePCs, WakePCs, ExecPCs, chains, counters, scan
<1>0. /\ ControlOK /\ ScanOK /\ w \in Actors /\ heads \in [Slots -> Seq(Tasks)]
      /\ slot \in [Actors -> Slots] /\ slot[w] \in Slots
      /\ hold \in [Actors -> Seq(Tasks)] /\ org \in [Actors -> Seq(Tasks)]
      /\ at \in [Actors -> 0 .. ThreadCount * Dup] /\ view \in [Actors -> 0 .. ThreadCount]
      /\ slot[w][1] \in Nat /\ s[1] \in Nat /\ LimitCount \in Nat /\ waiting \in Nat
      /\ view[w] \in Nat
  <2>1. /\ ControlOK /\ ScanOK /\ w \in Actors /\ heads \in [Slots -> Seq(Tasks)]
        /\ slot \in [Actors -> Slots] /\ slot[w] \in Slots
        /\ hold \in [Actors -> Seq(Tasks)] /\ org \in [Actors -> Seq(Tasks)]
        /\ at \in [Actors -> 0 .. ThreadCount * Dup] /\ view \in [Actors -> 0 .. ThreadCount]
    BY ActorsAre DEF Shape, ScanOK, ChainsOK
  <2>2. LimitCount \in Nat /\ waiting \in Nat
    BY CountsFinite, PoolAssumption, ActorsAre DEF Shape, CountsOK
  <2>3. slot[w][1] \in Nat /\ s[1] \in Nat /\ view[w] \in Nat
    BY <2>1, ActorsAre DEF Slots
  <2> QED
    BY <2>1, <2>2, <2>3
<1>1. ASSUME Due(s)' => Due(s), Serves(w, s) /\ Due(s) => Serves(w, s)',
             pc[w] \notin {"notify", "asleep"}, pc'[w] \notin DelayPCs
      PROVE  Carried(w, s)
  BY <1>0, <1>1 DEF Carried, Cared
<1>2. ASSUME Serves(w, s)' PROVE Carried(w, s)
  BY <1>0, <1>2 DEF Carried, Cared
<1>3. CASE Fetch(w, "fetch", "take", "miss")
  <2>1. /\ pc[w] = "fetch" /\ UNCHANGED <<heads, waiting>> /\ view'[w] = view[w]
        /\ pc'[w] \in {"fetch", "take", "miss"}
    BY <1>3, FetchCases
  <2>2. Due(s)' => Due(s)
    BY <2>1 DEF Due
  <2>3. Serves(w, s) => Polls(w, s)'
    BY <2>1 DEF Serves, Announces, Alert, Polls, BusyPCs
  <2> QED
    BY <1>1, <2>1, <2>2, <2>3 DEF Serves
<1>4. CASE Take(w)
  <2>1. /\ pc[w] = "take" /\ UNCHANGED <<waiting, view>>
        /\ heads' = [heads EXCEPT ![slot[w]] = << >>] /\ pc'[w] \in {"leave", "putback"}
    BY <1>0, <1>4, Jump DEF Take
  <2>2. Due(s)' => Due(s)
    BY <1>0, <2>1 DEF Due
  <2>3. Serves(w, s) => Polls(w, s)'
    BY <2>1 DEF Serves, Announces, Alert, Polls, BusyPCs
  <2> QED
    BY <1>1, <2>1, <2>2, <2>3 DEF Serves
<1>5. CASE PutBack(w)
  <2>1. /\ pc[w] = "putback" /\ UNCHANGED <<waiting, view, slot>>
        /\ heads' = [heads EXCEPT ![slot[w]] = Tail(hold[w])] /\ pc'[w] \in {"look", "repush"}
        /\ hold'[w] = <<Head(hold[w])>>
    BY <1>0, <1>5, Jump DEF PutBack, Set
  <2>2. hold[w] # << >> /\ slot[w][1] < view[w] /\ InRow(hold[w], slot[w][1])
    BY <1>0, <2>1 DEF Shape, ChainsOK, WakeInv, FoundOK, RowsOK
  <2>3. 1 \in 1 .. Len(hold[w]) /\ Head(hold[w]) = hold[w][1] /\ Head(hold'[w]) = Head(hold[w])
    BY <1>0, <2>1, <2>2
  <2>4. Clamp(Prio[Head(hold'[w])]) = slot[w][1]
    BY <2>2, <2>3 DEF InRow
  <2>5. ASSUME s[1] < view[w] PROVE Serves(w, s)'
    <3>1. CASE slot[w][1] <= s[1]
      BY <2>1, <2>5, <3>1 DEF Serves, Announces
    <3>2. CASE slot[w][1] > s[1]
      <4>1. Polls(w, s)'
        BY <2>1, <2>4, <3>2 DEF Polls, BusyPCs
      <4> QED
        BY <4>1 DEF Serves
    <3> QED
      BY <1>0, <3>1, <3>2
  <2>6. CASE s = slot[w]
    BY <1>2, <2>2, <2>5, <2>6
  <2>7. CASE s # slot[w]
    <3>1. Due(s)' => Due(s)
      BY <1>0, <2>1, <2>7 DEF Due
    <3>2. Serves(w, s) => s[1] < view[w]
      BY <2>1 DEF Serves, Announces, Alert, Polls, BusyPCs
    <3> QED
      BY <1>1, <2>1, <2>5, <3>1, <3>2
  <2> QED
    BY <2>6, <2>7
<1>6. CASE Repush(w)
  <2>1. /\ pc[w] = "repush" /\ UNCHANGED <<waiting, slot, hold>>
        /\ heads' = [heads EXCEPT ![slot[w]] = <<Head(org[w])>> \o @]
        /\ pc'[w] \in {"gate", "repush"}
    BY <1>0, <1>6, Jump DEF Repush
  <2>2. slot[w][1] <= s[1] => Serves(w, s)'
    BY <2>1 DEF Serves, Announces
  <2>3. CASE s = slot[w]
    BY <1>0, <1>2, <2>2, <2>3
  <2>4. CASE s # slot[w]
    <3>1. Due(s)' => Due(s)
      BY <1>0, <2>1, <2>4 DEF Due
    <3>2. Polls(w, s) => Polls(w, s)'
      BY <1>0, <2>1, BusyOn DEF BusyPCs
    <3>3. Serves(w, s) => slot[w][1] <= s[1] \/ Polls(w, s)
      BY <2>1 DEF Serves, Announces, Alert
    <3> QED
      BY <1>1, <2>1, <2>2, <3>1, <3>2, <3>3 DEF Serves
  <2> QED
    BY <2>3, <2>4
<1>7. CASE Look(w)
  <2>1. /\ pc[w] = "look" /\ UNCHANGED <<heads, waiting, slot, hold>>
        /\ IF WakeWorthwhile(w) THEN pc'[w] = "lookfetch" /\ view'[w] = view[w] /\ at'[w] = 0
                                ELSE pc'[w] = "exec"
    BY <1>0, <1>7, Jump DEF Look, StartFetch, Set
  <2>2. Due(s)' => Due(s)
    BY <2>1 DEF Due
  <2>3. Polls(w, s) => Polls(w, s)'
    BY <1>0, <2>1, BusyOn DEF BusyPCs
  <2>4. ASSUME Announces(w, s), Due(s) PROVE Announces(w, s)'
    <3>1. slot[w][1] <= s[1] /\ s[1] < view[w]
      BY <2>1, <2>4 DEF Announces
    <3>2. WakeWorthwhile(w)
      BY <1>0, <2>4, <3>1 DEF WakeWorthwhile, Due
    <3>3. ToCome(w, s)'
      BY <1>0, <2>1, <3>1, <3>2, ToComeStart
    <3> QED
      BY <2>1, <3>1, <3>2, <3>3 DEF Announces
  <2>5. Serves(w, s) => Announces(w, s) \/ Polls(w, s)
    BY <2>1 DEF Serves, Alert
  <2> QED
    BY <1>1, <2>1, <2>2, <2>3, <2>4, <2>5 DEF Serves
<1>8. CASE Fetch(w, "lookfetch", "gate", "exec")
  <2>1. /\ pc[w] = "lookfetch" /\ UNCHANGED <<heads, waiting, hold>> /\ slot'[w] = slot[w]
        /\ \/ at[w] >= view[w] * Dup /\ pc'[w] = "exec"
           \/ /\ heads[FetchSlot(w)] = << >> /\ pc'[w] = "lookfetch"
              /\ at'[w] = at[w] + 1 /\ view'[w] = view[w]
           \/ pc'[w] = "gate"
    BY <1>8, FetchCases
  <2>2. Due(s)' => Due(s)
    BY <2>1 DEF Due
  <2>3. Polls(w, s) => Polls(w, s)'
    BY <1>0, <2>1, BusyOn DEF BusyPCs
  <2>4. ASSUME Announces(w, s), Due(s) PROVE Announces(w, s)'
    <3>1. slot[w][1] <= s[1] /\ ToCome(w, s)
      BY <2>1, <2>4 DEF Announces
    <3>2. at[w] < view[w] * Dup
      BY <1>0, <3>1, ToComeEnd
    <3>3. at[w] \in Int /\ view[w] * Dup \in Int
      BY <1>0, ActorsAre, Product
    <3>4. pc'[w] = "lookfetch" => ToCome(w, s)'
      BY <1>0, <2>1, <2>4, <3>1, ToComeNext DEF Due
    <3> QED
      BY <2>1, <3>1, <3>2, <3>3, <3>4 DEF Announces
  <2>5. Serves(w, s) => Announces(w, s) \/ Polls(w, s)
    BY <2>1 DEF Serves, Alert
  <2> QED
    BY <1>1, <2>1, <2>2, <2>3, <2>4, <2>5 DEF Serves
<1> QED
  BY <1>3, <1>4, <1>5, <1>6, <1>7, <1>8 DEF PollStep

\* delay(): a registered thread looks at the heads again after it has read the epoch.
LEMMA DelayCarried ==
    ASSUME Shape, ScanOK', WakeInv, ~terminated, NEW w \in Workers, DelayStep(w), NEW s \in Slots
    PROVE  Carried(w, s)
<1> USE DEF PollPCs, DelayPCs, QueuePCs, WakePCs, ExecPCs, chains, counters, scan, parking
<1>0. /\ ControlOK /\ ScanOK /\ w \in Actors
      /\ s[1] \in Nat /\ LimitCount \in Nat /\ waiting \in Nat
      /\ at \in [Actors -> 0 .. ThreadCount * Dup] /\ view \in [Actors -> 0 .. ThreadCount]
  <2>1. waiting \in Nat
    BY CountsFinite DEF Shape, CountsOK
  <2> QED
    BY <2>1, PoolAssumption, ActorsAre DEF Shape, ScanOK, Slots
<1>1. /\ UNCHANGED <<heads, waiting>> /\ pc[w] \in DelayPCs \ {"asleep"}
  BY DEF DelayStep, DelayLoop, DelaySpin, ReadEpoch, Recheck, EpochWait, Fetch
<1>2. Due(s)' => Due(s)
  BY <1>1 DEF Due
<1>3. ASSUME Serves(w, s) /\ Due(s) => Alert(w, s)' PROVE Carried(w, s)
  <2>1. Serves(w, s) /\ Due(s) => Cared(s)'
    BY <1>0, <1>3 DEF Cared, Serves
  <2> QED
    BY <1>1, <1>2, <2>1 DEF Carried
<1>4. CASE DelayLoop(w) \/ DelaySpin(w) \/ ReadEpoch(w)
  <2>1. pc'[w] \in {"d0", "d1", "spin", "d2", "recheck", "unreg"}
    BY <1>0, <1>4, Jump DEF DelayLoop, DelaySpin, ReadEpoch, StartFetch
  <2> QED
    BY <1>3, <2>1 DEF Alert
<1>5. CASE Recheck(w)
  <2>1. pc'[w] = "d3" /\ view'[w] = waiting /\ at'[w] = 0
    BY <1>0, <1>5, Jump DEF Recheck, StartFetch, Set
  <2>2. Due(s) => ToCome(w, s)'
    BY <1>0, <2>1, ToComeStart DEF Due
  <2> QED
    BY <1>3, <2>1, <2>2 DEF Alert
<1>6. CASE EpochWait(w)
  <2>1. pc[w] = "wait" /\ (w \notin fresh => pc'[w] = "d0")
    BY <1>0, <1>6, Jump DEF EpochWait
  <2>2. Serves(w, s) => w \notin fresh
    BY <2>1 DEF Serves, Announces, Alert, Polls, BusyPCs
  <2> QED
    BY <1>3, <2>1, <2>2 DEF Alert
<1>7. CASE Fetch(w, "d1", "unreg", "spin") \/ Fetch(w, "d2", "unreg", "epoch")
  <2>1. pc'[w] \in {"d1", "spin", "d2", "epoch", "unreg"}
    BY <1>7, FetchCases
  <2> QED
    BY <1>3, <2>1 DEF Alert
<1>8. CASE Fetch(w, "d3", "unreg", "wait")
  <2>1. /\ pc[w] = "d3" /\ UNCHANGED fresh
        /\ \/ at[w] >= view[w] * Dup /\ pc'[w] = "wait"
           \/ /\ heads[FetchSlot(w)] = << >> /\ pc'[w] = "d3"
              /\ at'[w] = at[w] + 1 /\ view'[w] = view[w]
           \/ pc'[w] = "unreg"
    BY <1>8, FetchCases
  <2>2. Serves(w, s) => w \notin fresh \/ ToCome(w, s)
    BY <2>1 DEF Serves, Announces, Alert, Polls, BusyPCs
  <2>3. CASE w \notin fresh
    BY <1>3, <2>1, <2>3 DEF Alert
  <2>4. ASSUME ToCome(w, s), Due(s) PROVE Alert(w, s)'
    <3>1. at[w] < view[w] * Dup
      BY <1>0, <2>4, ToComeEnd
    <3>2. at[w] \in Int /\ view[w] * Dup \in Int
      BY <1>0, ActorsAre, Product
    <3>3. pc'[w] = "d3" => ToCome(w, s)'
      BY <1>0, <2>1, <2>4, ToComeNext DEF Due
    <3> QED
      BY <2>1, <3>1, <3>2, <3>3 DEF Alert
  <2> QED
    BY <1>3, <2>2, <2>3, <2>4
<1> QED
  BY <1>4, <1>5, <1>6, <1>7, <1>8 DEF DelayStep

\* No thread is both inside poll_one() and registered.
LEMMA Sharing ==
    ASSUME Shape, NEW w \in Workers, pc[w] = "loop"
    PROVE  running \in Nat /\ waiting \in Nat /\ running + waiting + 1 <= W
<1> USE DEF PollPCs, DelayPCs, QueuePCs, WakePCs, ExecPCs
<1>1. IsFiniteSet(Workers) /\ Cardinality(Workers) = W
  BY WorkersFinite
<1>2. /\ IsFiniteSet(Polling) /\ IsFiniteSet(Registered)
      /\ Cardinality(Polling) \in Nat /\ Cardinality(Registered) \in Nat
      /\ running = Cardinality(Polling) /\ waiting = Cardinality(Registered)
  BY CountsFinite DEF Shape, CountsOK
<1>3. Polling \cap Registered = {} /\ w \notin Polling \cup Registered
  BY DEF Polling, Registered
<1>4. /\ IsFiniteSet(Polling \cup Registered)
      /\ Cardinality(Polling \cup Registered) = running + waiting
  <2>1. /\ IsFiniteSet(Polling \cup Registered)
        /\ Cardinality(Polling \cup Registered) = running + waiting - Cardinality({})
    BY <1>2, <1>3, FS_Union
  <2>2. Cardinality({}) = 0
    BY FS_EmptySet
  <2>3. running \in Nat /\ waiting \in Nat
    BY <1>2
  <2> QED
    BY ONLY <2>1, <2>2, <2>3
<1>5. /\ IsFiniteSet((Polling \cup Registered) \cup {w})
      /\ Cardinality((Polling \cup Registered) \cup {w}) = running + waiting + 1
  <2> DEFINE U == Polling \cup Registered
  <2>1. IsFiniteSet(U) /\ w \notin U /\ Cardinality(U) = running + waiting
    BY <1>3, <1>4
  <2> HIDE DEF U
  <2>2. IsFiniteSet(U \cup {w}) /\ Cardinality(U \cup {w}) = running + waiting + 1
    BY <2>1, FS_AddElement
  <2> QED
    BY <2>2 DEF U
<1>6. (Polling \cup Registered) \cup {w} \subseteq Workers
  BY DEF Polling, Registered
<1> QED
  BY <1>1, <1>2, <1>5, <1>6, FS_Subset

\* thread_loop(): a thread that starts to poll sees the slots for which it was woken,
\* and one that registers looks at all it could be woken for.
LEMMA GuardCarried ==
    ASSUME Shape, WakeInv, ~terminated, NEW w \in Workers, GuardStep(w), NEW s \in Slots
    PROVE  Carried(w, s)
<1> USE DEF PollPCs, DelayPCs, QueuePCs, WakePCs, ExecPCs, chains, counters, scan
<1>0. /\ ControlOK /\ w \in Actors /\ s[1] \in Nat /\ LimitCount \in Nat /\ W \in Nat
      /\ view \in [Actors -> 0 .. ThreadCount]
  BY PoolAssumption, ActorsAre DEF Shape, ScanOK, Slots
<1>1. ASSUME Serves(w, s)' PROVE Carried(w, s)
  BY <1>0, <1>1 DEF Carried, Cared
<1>2. CASE ThreadLoop(w)
  <2>1. /\ pc[w] = "loop" /\ pc'[w] = "fetch" /\ view'[w] = PrioritySize(running)
        /\ UNCHANGED <<heads, waiting>>
    BY <1>0, <1>2, Jump DEF ThreadLoop, StartFetch, Set
  <2>2. running \in Nat /\ waiting \in Nat /\ running + waiting + 1 <= W
    BY <2>1, Sharing
  <2>3. Due(s)' => s[1] < view'[w]
    BY <1>0, <2>1, <2>2, ActorsAre, SMTT(30) DEF Due, PrioritySize, MinOf
  <2>4. Due(s)' => Serves(w, s)'
    BY <2>1, <2>3 DEF Serves, Polls
  <2> QED
    BY <1>1, <2>4 DEF Carried
<1>3. CASE \/ DelayEnter(w) \/ Unregister(w)
           \/ LeavePoll(w, "leave", "loop") \/ LeavePoll(w, "miss", "delay")
  <2>1. pc'[w] \in {"d0", "loop", "delay"}
    BY <1>0, <1>3, Jump DEF DelayEnter, Unregister, LeavePoll
  <2>2. Serves(w, s)'
    BY <2>1 DEF Serves, Alert, Polls
  <2> QED
    BY <1>1, <2>2
<1> QED
  BY <1>2, <1>3 DEF GuardStep

\* notify_one() wakes a thread that was asleep when the epoch was bumped, or somebody
\* else serves the slot.
LEMMA NotifyCared ==
    ASSUME Shape, WakeInv, ~terminated, NEW a \in Actors, NotifyOne(a), NEW s \in Slots
    PROVE  Due(s)' => Cared(s)'
<1> USE DEF PollPCs, DelayPCs, QueuePCs, WakePCs, ExecPCs, chains, counters, parking
<1>0. /\ ControlOK /\ pc \in [Actors -> PCs] /\ slot \in [Actors -> Slots]
      /\ s[1] \in Nat /\ LimitCount \in Nat
  BY PoolAssumption, ActorsAre DEF Shape, ControlOK, ScanOK, Slots
<1>1. /\ pc[a] = "notify" /\ UNCHANGED <<heads, waiting, hold, view, at, org, fresh>>
      /\ slot' = Set(slot, a, <<0, 0>>)
  BY DEF NotifyOne
<1>2. a \in Workers => ret[a] \in {"exec", "finish"}
  BY <1>0, <1>1 DEF ControlOK, ReturnPCs
<1> SUFFICES ASSUME Due(s)' PROVE Cared(s)'
  OBVIOUS
<1>3. Due(s) /\ Cared(s)
  BY <1>1 DEF Due, WakeInv, Attended
<1>4. waiting # 0
  <2>1. waiting \in Nat /\ s[1] + LimitCount < waiting
    BY <1>3, CountsFinite DEF Due, Shape, CountsOK
  <2> QED
    BY <1>0, <2>1
<1>5. ASSUME NEW b \in Actors, Serves(b, s), b # a => pc'[b] = pc[b], pc'[a] = ret[a]
      PROVE  Cared(s)'
  <2>1. CASE b = a
    <3>1. a \in Workers /\ Polls(a, s)
      BY <1>1, <1>5, <2>1 DEF Serves, Announces, Alert
    <3>2. Polls(a, s)'
      BY <1>1, <1>2, <1>5, <3>1, BusyOn DEF BusyPCs
    <3> QED
      BY <3>1, <3>2, ActorsAre DEF Cared, Serves
  <2>2. CASE b # a
    <3>1. Same(b)
      BY <1>0, <1>1, <1>5, <2>2 DEF Same, Set
    <3> QED
      BY <1>5, <3>1, ServesKept DEF Cared
  <2> QED
    BY <2>1, <2>2
<1>6. CASE Asleep = {} /\ Goto(a, ret[a])
  <2>1. pc'[a] = ret[a] /\ \A b \in Actors : b # a => pc'[b] = pc[b]
    BY <1>0, <1>6, Jump
  <2>2. ~Heralded
    <3>1. SUFFICES ASSUME Heralded PROVE FALSE
      OBVIOUS
    <3>2. Registered = {}
      BY <1>6, <3>1 DEF Heralded, Registered, Asleep
    <3> QED
      BY <1>4, <3>2, FS_EmptySet DEF Shape, CountsOK
  <2> QED
    BY <1>3, <1>5, <2>1, <2>2 DEF Cared
<1>7. ASSUME NEW w \in Asleep, pc' = [pc EXCEPT ![a] = ret[a], ![w] = "wait"]
      PROVE  Cared(s)'
  <2>1. w \in Workers /\ w \in Actors /\ w # a /\ pc[w] = "asleep"
    BY <1>1, ActorsAre DEF Asleep
  <2>2. pc'[w] = "wait" /\ pc'[a] = ret[a] /\ \A b \in Actors : b # a /\ b # w => pc'[b] = pc[b]
    BY <1>0, <1>7, <2>1
  <2>3. CASE w \notin fresh
    <3>1. Alert(w, s)'
      BY <1>1, <2>2, <2>3 DEF Alert
    <3> QED
      BY <2>1, <3>1 DEF Cared, Serves
  <2>4. CASE w \in fresh
    <3>1. ~Heralded
      BY <2>1, <2>4 DEF Heralded
    <3>2. ~Serves(w, s)
      BY <2>1 DEF Serves, Announces, Alert, Polls, BusyPCs
    <3> QED
      BY <1>3, <1>5, <2>2, <3>1, <3>2 DEF Cared
  <2> QED
    BY <2>3, <2>4
<1> QED
  BY <1>6, <1>7 DEF NotifyOne

\* Next, by who moves.
LEMMA SoloClasses ==
    [Next]_vars =>
        \/ \E a \in Actors : SoloStep(a) \/ NotifyOne(a)
        \/ NotifyAll(Main) \/ BumpEpoch(Main, "bumpall", "notifyall") \/ Join \/ Drain
        \/ Terminate \/ Start
        \/ UNCHANGED vars
  BY StepClasses, ActorsAre DEF SoloStep

\* Every step keeps every task attended to.
LEMMA AttendedStep ==
    ASSUME Shape, ScanOK', WakeInv, [Next]_vars
    PROVE  Attended'
<1> SUFFICES ASSUME ~terminated', NEW s \in Slots, Due(s)' PROVE Cared(s)'
  BY DEF Attended
<1>1. ASSUME NEW a \in Actors, SoloStep(a) PROVE Cared(s)'
  <2>1. ~terminated /\ \A b \in Actors : b # a => Same(b)
    BY <1>1, SoloSame
  <2>2. CASE a = Main /\ Queue
    <3>1. /\ pc[a] = "idle" /\ UNCHANGED <<heads, waiting>> /\ Goto(a, "queue")
      BY <2>2 DEF Queue, NewTask
    <3>2. pc'[a] = "queue"
      BY <3>1, Jump DEF Shape
    <3>3. Due(s) /\ ~Serves(a, s)
      BY <2>2, <3>1, ActorsAre DEF Due, Serves, Announces
    <3>4. Carried(a, s)
      BY <3>1, <3>2, <3>3 DEF Carried, DelayPCs
    <3> QED
      BY <2>1, <3>4, Solo DEF WakeInv
  <2>3. CASE ~(a = Main /\ Queue)
    <3>1. Carried(a, s)
      BY <1>1, <2>1, <2>3, PushCarried, WakeCarried, ExecCarried, PollCarried, DelayCarried,
         GuardCarried DEF SoloStep
    <3> QED
      BY <2>1, <3>1, Solo DEF WakeInv
  <2> QED
    BY <2>2, <2>3
<1>2. ASSUME NEW a \in Actors, NotifyOne(a) PROVE Cared(s)'
  <2>1. ~terminated
    BY <1>2 DEF NotifyOne, counters
  <2> QED
    BY <1>2, <2>1, NotifyCared
<1>3. CASE NotifyAll(Main) \/ BumpEpoch(Main, "bumpall", "notifyall") \/ Join \/ Drain
  <2>1. pc[Main] \in JoinPCs /\ terminated' = terminated
    BY <1>3 DEF NotifyAll, BumpEpoch, Join, Drain, JoinPCs, counters
  <2> QED
    BY <2>1 DEF Shape, OwnerOK
<1>4. CASE Terminate
  BY <1>4 DEF Terminate
<1>5. CASE Start
  <2>1. heads'[s] = << >>
    BY <1>5 DEF Start, EmptyHeads
  <2> QED
    BY <2>1 DEF Due
<1>6. CASE UNCHANGED vars
  <2>1. /\ UNCHANGED <<heads, waiting, terminated>>
        /\ \A b \in Actors : Same(b)
    BY <1>6 DEF vars, counters, scan, chains, parking, Same
  <2>2. Cared(s)
    BY <2>1 DEF Due, WakeInv, Attended
  <2>3. CASE Heralded
    BY <1>6, <2>3 DEF vars, parking, Heralded, Cared
  <2>4. ASSUME NEW b \in Actors, Serves(b, s) PROVE Cared(s)'
    BY <2>1, <2>4, ServesKept DEF Cared
  <2> QED
    BY <2>2, <2>3, <2>4 DEF Cared
<1> QED
  BY <1>1, <1>2, <1>3, <1>4, <1>5, <1>6, SoloClasses

-----------------------------------------------------------------------------
\* Rows of lists.
LEMMA RowFacts ==
    ASSUME NEW n
    PROVE  /\ InRow(<< >>, n)
           /\ \A t \in Tasks, q \in Seq(Tasks) :
                 Clamp(Prio[t]) = n /\ InRow(q, n) => InRow(<<t>> \o q, n)
           /\ \A q \in Seq(Tasks) : q # << >> /\ InRow(q, n) =>
                 InRow(Tail(q), n) /\ Clamp(Prio[Head(q)]) = n
<1>1. InRow(<< >>, n)
  BY DEF InRow
<1>2. ASSUME NEW t \in Tasks, NEW q \in Seq(Tasks), Clamp(Prio[t]) = n, InRow(q, n)
      PROVE  InRow(<<t>> \o q, n)
  <2>1. /\ Len(<<t>> \o q) = 1 + Len(q) /\ Len(q) \in Nat
        /\ \A i \in 1 .. Len(<<t>> \o q) : (<<t>> \o q)[i] = IF i = 1 THEN t ELSE q[i - 1]
    OBVIOUS
  <2>2. \A i \in 1 .. 1 + Len(q) : i # 1 => i - 1 \in 1 .. Len(q)
    BY <2>1
  <2> QED
    BY <1>2, <2>1, <2>2 DEF InRow
<1>3. ASSUME NEW q \in Seq(Tasks), q # << >>, InRow(q, n)
      PROVE  InRow(Tail(q), n) /\ Clamp(Prio[Head(q)]) = n
  <2>1. /\ Len(q) \in Nat /\ Len(q) >= 1 /\ Head(q) = q[1] /\ Len(Tail(q)) = Len(q) - 1
        /\ \A i \in 1 .. Len(Tail(q)) : Tail(q)[i] = q[i + 1]
    BY <1>3
  <2>2. \A i \in 1 .. Len(q) - 1 : i + 1 \in 1 .. Len(q)
    BY <2>1
  <2> QED
    BY <1>3, <2>1, <2>2 DEF InRow
<1> QED
  BY <1>1, <1>2, <1>3

\* Every push before terminate() goes to the row of the task's priority.
LEMMA RowsStep ==
    ASSUME Shape, WakeInv, [Next]_vars
    PROVE  RowsOK'
<1> USE DEF PollPCs, DelayPCs, QueuePCs, WakePCs, ExecPCs, chains, counters, scan
<1> SUFFICES ASSUME ~terminated' PROVE RowsOK'
  BY DEF RowsOK
<1>0. /\ ControlOK /\ heads \in [Slots -> Seq(Tasks)] /\ slot \in [Actors -> Slots]
      /\ hold \in [Actors -> Seq(Tasks)] /\ org \in [Actors -> Seq(Tasks)]
      /\ pc \in [Actors -> PCs]
  BY DEF Shape, ControlOK, ChainsOK, ScanOK
<1>1. ASSUME ~terminated
      PROVE  /\ \A s \in Slots : InRow(heads[s], s[1])
             /\ \A w \in Workers : /\ pc[w] = "putback" => InRow(hold[w], slot[w][1])
                                   /\ pc[w] = "repush" => InRow(org[w], slot[w][1])
  BY <1>1 DEF WakeInv, RowsOK
\* a step of one actor
<1>2. ASSUME NEW a \in Actors, ~terminated, \A b \in Actors : b # a => Same(b),
             \A s \in Slots : InRow(heads'[s], s[1]),
             pc'[a] = "putback" => InRow(hold'[a], slot'[a][1]),
             pc'[a] = "repush" => InRow(org'[a], slot'[a][1])
      PROVE  RowsOK'
  BY <1>1, <1>2, ActorsAre DEF RowsOK, Same
<1>3. ASSUME NEW a \in Actors, SoloStep(a) PROVE RowsOK'
  <2>0. ~terminated /\ \A b \in Actors : b # a => Same(b)
    BY <1>3, SoloSame
  <2>1. ASSUME NEW r \in Slots, Push(a, r, "gate"), r[1] = Clamp(Prio[item[a]]), item[a] \in Tasks
        PROVE  RowsOK'
    <3>1. heads' = [heads EXCEPT ![r] = <<item[a]>> \o @] /\ pc'[a] = "gate"
      BY <1>0, <2>1, Jump DEF Push
    <3>2. ASSUME NEW s \in Slots PROVE InRow(heads'[s], s[1])
      BY <1>0, <1>1, <2>0, <2>1, <3>1, RowFacts
    <3> QED
      BY <1>2, <2>0, <3>1, <3>2
  <2>2. CASE QueueCas(a) \/ QueueChain(a)
    <3>1. item[a] \in Tasks
      BY <2>2 DEF QueueCas, QueueChain, Shape, ChainsOK
    <3>2. Prio[item[a]] \in Nat /\ Clamp(Prio[item[a]]) \in 0 .. ThreadCount - 1
      BY <3>1, TaskAssumption, ScanBounds
    <3>3. UNCHANGED heads \/ \E k \in 0 .. Dup - 1 : Push(a, <<Clamp(Prio[item[a]]), k>>, "gate")
      <4>1. CASE QueueChain(a)
        BY <4>1 DEF QueueChain
      <4>2. CASE QueueCas(a)
        <5>1. at[a] \in Nat /\ ThreadIndex(a) \in Nat
          BY ActorsAre, ScanBounds, Product DEF Shape, ScanOK
        <5>2. (at[a] + ThreadIndex(a)) % Dup \in 0 .. Dup - 1
          BY <5>1, ScanBounds
        <5> QED
          BY <4>2, <5>2 DEF QueueCas
      <4> QED
        BY <2>2, <4>1, <4>2
    <3>4. ASSUME NEW k \in 0 .. Dup - 1, Push(a, <<Clamp(Prio[item[a]]), k>>, "gate")
          PROVE  RowsOK'
      <4>1. <<Clamp(Prio[item[a]]), k>> \in Slots
        BY <3>2 DEF Slots
      <4> QED
        BY <2>1, <3>1, <3>4, <4>1
    <3>5. CASE UNCHANGED heads
      <4>1. pc'[a] \in {"gate", "cas", "chain"}
        BY <1>0, <2>2, Jump DEF QueueCas, QueueChain, Push
      <4> QED
        BY <1>1, <1>2, <2>0, <3>5, <4>1
    <3> QED
      BY <3>3, <3>4, <3>5
  <2>3. CASE a \in Workers /\ Take(a)
    <3>1. /\ pc[a] = "take" /\ hold'[a] = heads[slot[a]] /\ UNCHANGED slot
          /\ heads' = [heads EXCEPT ![slot[a]] = << >>] /\ pc'[a] \in {"leave", "putback"}
      BY <1>0, <2>3, Jump DEF Take, Set
    <3>2. slot[a] \in Slots
      BY <1>0
    <3>3. ASSUME NEW s \in Slots PROVE InRow(heads'[s], s[1])
      BY <1>0, <1>1, <2>0, <3>1, <3>2, RowFacts
    <3>4. InRow(hold'[a], slot'[a][1])
      BY <1>1, <2>0, <3>1, <3>2
    <3> QED
      BY <1>2, <2>0, <3>1, <3>3, <3>4
  <2>4. CASE a \in Workers /\ PutBack(a)
    <3>1. /\ pc[a] = "putback" /\ org'[a] = heads[slot[a]] /\ UNCHANGED slot
          /\ heads' = [heads EXCEPT ![slot[a]] = Tail(hold[a])] /\ pc'[a] \in {"look", "repush"}
      BY <1>0, <2>4, Jump DEF PutBack, Set
    <3>2. slot[a] \in Slots /\ hold[a] # << >> /\ hold[a] \in Seq(Tasks)
          /\ InRow(hold[a], slot[a][1])
      BY <1>0, <1>1, <2>0, <2>4, <3>1 DEF Shape, ChainsOK
    <3>3. ASSUME NEW s \in Slots PROVE InRow(heads'[s], s[1])
      BY <1>0, <1>1, <2>0, <3>1, <3>2, RowFacts
    <3>4. InRow(org'[a], slot'[a][1])
      BY <1>1, <2>0, <3>1, <3>2
    <3> QED
      BY <1>2, <2>0, <3>1, <3>3, <3>4
  <2>5. CASE a \in Workers /\ Repush(a)
    <3>1. /\ pc[a] = "repush" /\ org'[a] = Tail(org[a]) /\ UNCHANGED slot
          /\ heads' = [heads EXCEPT ![slot[a]] = <<Head(org[a])>> \o @]
          /\ pc'[a] \in {"gate", "repush"}
      BY <1>0, <2>5, Jump DEF Repush, Set
    <3>2. slot[a] \in Slots /\ org[a] # << >> /\ org[a] \in Seq(Tasks) /\ Head(org[a]) \in Tasks
          /\ InRow(org[a], slot[a][1])
      BY <1>0, <1>1, <2>0, <2>5, <3>1, ListFacts DEF Shape, ChainsOK
    <3>3. Clamp(Prio[Head(org[a])]) = slot[a][1] /\ InRow(Tail(org[a]), slot[a][1])
      BY <3>2, RowFacts
    <3>4. ASSUME NEW s \in Slots PROVE InRow(heads'[s], s[1])
      BY <1>0, <1>1, <2>0, <3>1, <3>2, <3>3, RowFacts
    <3> QED
      BY <1>2, <2>0, <3>1, <3>3, <3>4
  <2>6. CASE ~(QueueCas(a) \/ QueueChain(a) \/ QueueLate(a)
                 \/ (a \in Workers /\ (Take(a) \/ PutBack(a) \/ Repush(a))))
    <3>1. UNCHANGED heads
      BY <1>3, <2>6 DEF SoloStep, PushStep, WakeStep, PollStep, DelayStep, GuardStep, QueueTask,
         WakeGate, BumpEpoch, Exec, NewTask, Finish, Fetch, Look, DelayLoop, DelaySpin, ReadEpoch,
         Recheck, EpochWait, ThreadLoop, DelayEnter, Unregister, LeavePoll, Queue
    <3> DEFINE Away == \/ UNCHANGED pc /\ pc[a] \notin {"putback", "repush"}
                       \/ Goto(a, ret[a])
                       \/ \E l \in PCs \ {"putback", "repush"} : Goto(a, l)
    <3>2. Away
      <4> USE DEF PCs
      <4>1. CASE QueueTask(a) \/ WakeStep(a)
        BY <4>1 DEF WakeStep, QueueTask, WakeGate, BumpEpoch
      <4>2. CASE Exec(a) \/ (a = Main /\ Queue)
        BY <4>2 DEF Exec, NewTask, Queue
      <4>3. CASE Finish(a)
        <5>1. PICK l \in {"drain", "idle", "exec", "finish", "leave"} : Goto(a, l)
          BY <4>3 DEF Finish, AfterOwnTask
        <5>2. l \in PCs \ {"putback", "repush"}
          BY DEF JoinPCs
        <5> QED
          BY <5>1, <5>2
      <4>4. CASE PollStep(a) /\ ~(Take(a) \/ PutBack(a) \/ Repush(a))
        BY <4>4 DEF PollStep, Fetch, StartFetch, Look
      <4>5. CASE DelayStep(a)
        BY <4>5 DEF DelayStep, Fetch, StartFetch, DelayLoop, DelaySpin, ReadEpoch, Recheck,
           EpochWait
      <4>6. CASE GuardStep(a)
        BY <4>6 DEF GuardStep, ThreadLoop, StartFetch, DelayEnter, Unregister, LeavePoll
      <4> QED
        BY <1>3, <2>6, <4>1, <4>2, <4>3, <4>4, <4>5, <4>6 DEF SoloStep, PushStep
    <3>3. pc'[a] \notin {"putback", "repush"}
      BY <1>0, <3>2, Jump, ZenonT(60) DEF ControlOK
    <3> QED
      BY <1>1, <1>2, <2>0, <3>1, <3>3
  <2>7. ~QueueLate(a)
    BY <2>0 DEF QueueLate, WakeInv, FoundOK
  <2> QED
    BY <2>2, <2>3, <2>4, <2>5, <2>6, <2>7
<1>4. ASSUME NEW a \in Actors, NotifyOne(a) PROVE RowsOK'
  <2>1. /\ ~terminated /\ UNCHANGED <<heads, hold, org>> /\ pc[a] = "notify"
        /\ slot' = Set(slot, a, <<0, 0>>)
    BY <1>4 DEF NotifyOne
  <2>2. \A b \in Actors : \/ pc'[b] = pc[b] /\ b # a
                          \/ pc'[b] \in {"wait", "idle", "exec", "finish"}
    BY <1>0, <1>4, Jump, ActorsAre DEF NotifyOne, ControlOK, Asleep
  <2>3. \A b \in Actors : b # a => slot'[b] = slot[b]
    BY <1>0, <2>1 DEF Set
  <2> QED
    BY <1>1, <2>1, <2>2, <2>3, ActorsAre DEF RowsOK
<1>5. CASE NotifyAll(Main) \/ BumpEpoch(Main, "bumpall", "notifyall") \/ Join \/ Drain
  <2>1. pc[Main] \in JoinPCs /\ terminated' = terminated
    BY <1>5 DEF NotifyAll, BumpEpoch, Join, Drain, JoinPCs
  <2> QED
    BY <2>1 DEF Shape, OwnerOK
<1>6. CASE Terminate
  BY <1>6 DEF Terminate
<1>7. CASE Start
  <2>1. /\ \A s \in Slots : heads'[s] = << >>
        /\ \A w \in Workers : pc'[w] = "loop"
    BY <1>7, ActorsAre DEF Start, EmptyHeads
  <2> QED
    BY <2>1, RowFacts DEF RowsOK
<1>8. CASE UNCHANGED vars
  BY <1>1, <1>8 DEF vars, RowsOK
<1> QED
  BY <1>3, <1>4, <1>5, <1>6, <1>7, <1>8, SoloClasses

\* A poll finds a slot within its view.
LEMMA FoundStep ==
    ASSUME Shape, WakeInv, [Next]_vars
    PROVE  FoundOK'
<1> USE DEF PollPCs, DelayPCs, QueuePCs, WakePCs, ExecPCs, chains, counters, scan
<1>0. /\ ControlOK /\ FoundOK /\ slot \in [Actors -> Slots] /\ pc \in [Actors -> PCs]
  BY DEF Shape, ControlOK, ScanOK, WakeInv
<1>1. ASSUME NEW a \in Actors, SoloStep(a) PROVE FoundOK'
  <2>0. UNCHANGED terminated /\ \A b \in Actors : b # a => Same(b)
    BY <1>1, SoloSame
  <2>1. ASSUME a \in Workers => (pc'[a] \in {"take", "putback"} => slot'[a][1] < view'[a]),
               pc'[a] = "late" => terminated
        PROVE  FoundOK'
    BY <1>0, <2>0, <2>1, ActorsAre DEF FoundOK, Same
  <2>2. CASE QueueTask(a)
    <3>1. pc'[a] \in {"cas", "exec"} \/ (pc'[a] = "late" /\ terminated)
      BY <1>0, <2>2, Jump DEF QueueTask
    <3> QED
      BY <2>1, <3>1
  <2>3. CASE QueueCas(a) \/ QueueChain(a) \/ QueueLate(a) \/ WakeStep(a)
    <3>1. pc'[a] \in {"cas", "chain", "gate", "bump", "notify", ret[a]}
      BY <1>0, <2>3, Jump, Zenon
         DEF QueueCas, QueueChain, QueueLate, Push, WakeStep, WakeGate, BumpEpoch
    <3>2. ret[a] \in {"idle", "exec", "finish"}
      BY <1>0 DEF ControlOK
    <3> QED
      BY <2>1, <3>1, <3>2
  <2>4. CASE Exec(a) \/ Finish(a) \/ (a = Main /\ Queue)
    <3>1. pc'[a] \in {"queue", "finish", "drain", "idle", "exec", "leave"}
      BY <1>0, <2>4, Jump DEF Exec, NewTask, Finish, AfterOwnTask, Queue
    <3> QED
      BY <2>1, <3>1
  <2>5. CASE a \in Workers /\ PollStep(a)
    <3>1. CASE Fetch(a, "fetch", "take", "miss")
      <4>1. /\ view'[a] = view[a]
            /\ \/ pc'[a] \in {"fetch", "miss"}
               \/ at[a] < view[a] * Dup /\ pc'[a] = "take" /\ slot'[a] = FetchSlot(a)
        BY <2>5, <3>1, FetchCases
      <4>2. ASSUME at[a] < view[a] * Dup PROVE FetchSlot(a)[1] < view[a]
        <5>1. at[a] \in Nat /\ view[a] \in Nat /\ Dup \in Nat
          BY ActorsAre, Product DEF Shape, ScanOK
        <5>2. at[a] % view[a] \in 0 .. view[a] - 1
          BY <4>2, <5>1, Quotient
        <5> QED
          BY <5>1, <5>2 DEF FetchSlot
      <4> QED
        BY <2>1, <4>1, <4>2
    <3>2. CASE Take(a)
      <4>1. pc[a] = "take" /\ UNCHANGED <<slot, view>> /\ pc'[a] \in {"leave", "putback"}
        BY <1>0, <3>2, Jump DEF Take
      <4> QED
        BY <1>0, <2>1, <4>1 DEF FoundOK
    <3>3. CASE PutBack(a) \/ Repush(a) \/ Look(a)
      <4>1. pc'[a] \in {"look", "repush", "gate", "lookfetch", "exec"}
        BY <1>0, <3>3, Jump DEF PutBack, Repush, Look, StartFetch
      <4> QED
        BY <2>1, <4>1
    <3>4. CASE Fetch(a, "lookfetch", "gate", "exec")
      <4>1. pc'[a] \in {"lookfetch", "gate", "exec"}
        BY <2>5, <3>4, FetchCases
      <4> QED
        BY <2>1, <4>1
    <3> QED
      BY <2>5, <3>1, <3>2, <3>3, <3>4 DEF PollStep
  <2>6. CASE a \in Workers /\ DelayStep(a)
    <3>1. \/ UNCHANGED pc /\ pc[a] \in DelayPCs
          \/ \E l \in DelayPCs : Goto(a, l)
      BY <2>6 DEF DelayStep, DelayLoop, DelaySpin, ReadEpoch, Recheck, EpochWait, Fetch,
         StartFetch
    <3>2. pc'[a] \in DelayPCs
      BY <1>0, <3>1, Jump
    <3> QED
      BY <2>1, <3>2
  <2>7. CASE a \in Workers /\ GuardStep(a)
    <3>1. pc'[a] \in {"exited", "fetch", "loop", "d0", "delay"}
      BY <1>0, <2>7, Jump DEF GuardStep, ThreadLoop, StartFetch, DelayEnter, Unregister, LeavePoll
    <3> QED
      BY <2>1, <3>1
  <2> QED
    BY <1>1, <2>2, <2>3, <2>4, <2>5, <2>6, <2>7 DEF SoloStep, PushStep
<1>2. ASSUME NEW a \in Actors, NotifyOne(a) PROVE FoundOK'
  <2>1. /\ UNCHANGED <<terminated, view>> /\ slot' = Set(slot, a, <<0, 0>>)
    BY <1>2 DEF NotifyOne
  <2>2. \A b \in Actors : \/ pc'[b] = pc[b] /\ b # a
                          \/ pc'[b] \in {"wait", "idle", "exec", "finish"}
    BY <1>0, <1>2, Jump, ActorsAre DEF NotifyOne, ControlOK, Asleep
  <2>3. \A b \in Actors : b # a => slot'[b] = slot[b]
    BY <1>0, <2>1 DEF Set
  <2> QED
    BY <1>0, <2>1, <2>2, <2>3, ActorsAre DEF FoundOK
<1>3. ASSUME UNCHANGED <<slot, view>>, terminated' = terminated \/ terminated',
             \A b \in Actors : pc'[b] \in {"take", "putback", "late"} => pc'[b] = pc[b]
      PROVE  FoundOK'
  BY <1>0, <1>3, ActorsAre DEF FoundOK
<1>4. CASE NotifyAll(Main)
  <2>1. \A b \in Actors : pc'[b] = pc[b] \/ pc'[b] \in {"join", "wait"}
    BY <1>4 DEF NotifyAll
  <2> QED
    BY <1>3, <1>4, <2>1 DEF NotifyAll
<1>5. CASE BumpEpoch(Main, "bumpall", "notifyall") \/ Join \/ Drain \/ Terminate
  <2>1. /\ UNCHANGED <<slot, view>> /\ (terminated' = terminated \/ terminated')
        /\ \E l \in {"notifyall", "drain", "exec", "idle", "bumpall"} : Goto(Main, l)
    BY <1>5 DEF BumpEpoch, Join, Drain, Terminate
  <2>2. \A b \in Actors : \/ pc'[b] = pc[b]
                          \/ pc'[b] \in {"notifyall", "drain", "exec", "idle", "bumpall"}
    BY <1>0, <2>1, Jump, ActorsAre
  <2> QED
    BY <1>3, <2>1, <2>2
<1>6. CASE Start
  <2>1. \A b \in Actors : pc'[b] \in {"idle", "loop"}
    BY <1>6 DEF Start
  <2> QED
    BY <2>1, ActorsAre DEF FoundOK
<1>7. CASE UNCHANGED vars
  BY <1>0, <1>7 DEF vars, FoundOK
<1> QED
  BY <1>1, <1>2, <1>4, <1>5, <1>6, <1>7, SoloClasses

\* After terminate() has bumped the epoch nobody goes to sleep any more, and its
\* notification reaches whoever does.
LEMMA EndStep ==
    ASSUME Shape, WakeInv, [Next]_vars
    PROVE  EndOK'
<1> USE DEF PollPCs, DelayPCs, QueuePCs, WakePCs, ExecPCs, JoinPCs, counters, parking
<1> SUFFICES ASSUME terminated' PROVE EndOK'
  BY DEF EndOK
<1>0. /\ ControlOK /\ EndOK /\ fresh \in SUBSET Workers /\ pc \in [Actors -> PCs]
  BY DEF Shape, ControlOK, RestOK, WakeInv
<1>1. ASSUME NEW w \in Workers, SoloStep(w) PROVE EndOK'
  <2>0. terminated /\ \A b \in Actors : b # w => Same(b)
    BY <1>1, SoloSame, ActorsAre
  <2>1. pc[w] # "exited" /\ pc'[Main] = pc[Main]
    <3>1. pc[w] # "exited"
      BY <1>1, ActorsAre DEF SoloStep, PushStep, WakeStep, PollStep, DelayStep, GuardStep,
         QueueTask, QueueCas, QueueChain, QueueLate, WakeGate, BumpEpoch, Exec, Finish, Fetch,
         Take, PutBack, Repush, Look, DelayLoop, DelaySpin, ReadEpoch, Recheck, EpochWait,
         ThreadLoop, DelayEnter, Unregister, LeavePoll
    <3> QED
      BY <2>0, <3>1, ActorsAre DEF Same
  <2>2. CASE pc[Main] = "bumpall"
    BY <2>1, <2>2 DEF EndOK
  <2>3. CASE /\ pc[Main] \in {"notifyall", "join"}
             /\ \A v \in fresh : pc[v] \in {"recheck", "unreg"}
             /\ pc[Main] = "join" => Asleep = {}
    <3>1. (w \in fresh' => pc'[w] \in {"recheck", "unreg"}) /\ pc'[w] # "asleep"
      <4>1. CASE Recheck(w) \/ Unregister(w) \/ ReadEpoch(w)
        BY <1>0, <2>0, <4>1, Jump, ActorsAre DEF Recheck, Unregister, ReadEpoch
      <4>2. CASE EpochWait(w)
        <5>1. w \notin fresh
          BY <2>3, <4>2 DEF EpochWait
        <5> QED
          BY <1>0, <4>2, <5>1, Jump, ActorsAre DEF EpochWait
      <4>3. CASE ~(Recheck(w) \/ Unregister(w) \/ ReadEpoch(w) \/ EpochWait(w))
        <5>1. fresh' \subseteq fresh /\ pc[w] \notin {"recheck", "unreg"}
          BY <1>1, <4>3, ActorsAre, Zenon DEF SoloStep, PushStep, WakeStep, PollStep, DelayStep,
             GuardStep, QueueTask, QueueCas, QueueChain, QueueLate, WakeGate, BumpEpoch, Exec,
             Finish, Fetch, Take, PutBack, Repush, Look, DelayLoop, DelaySpin, ThreadLoop,
             DelayEnter, LeavePoll
        <5>2. w \notin fresh'
          BY <2>3, <5>1
        <5>3. \/ UNCHANGED pc /\ pc[w] # "asleep"
              \/ Goto(w, ret[w])
              \/ \E l \in PCs \ {"asleep"} : Goto(w, l)
          <6> USE DEF PCs
          <6>1. CASE PushStep(w) \/ WakeStep(w)
            BY <6>1 DEF PushStep, WakeStep, QueueTask, QueueCas, QueueChain, QueueLate, Push,
               WakeGate, BumpEpoch
          <6>2. CASE Exec(w) \/ Finish(w)
            BY <6>2, ActorsAre DEF Exec, NewTask, Finish
          <6>3. CASE PollStep(w)
            BY <6>3 DEF PollStep, Fetch, StartFetch, Take, PutBack, Repush, Look
          <6>4. CASE DelayStep(w)
            BY <4>3, <6>4 DEF DelayStep, DelayLoop, DelaySpin, Fetch, StartFetch
          <6>5. CASE GuardStep(w)
            BY <6>5 DEF GuardStep, ThreadLoop, StartFetch, DelayEnter, Unregister, LeavePoll
          <6> QED
            BY <1>1, <6>1, <6>2, <6>3, <6>4, <6>5, ActorsAre DEF SoloStep
        <5>4. pc'[w] # "asleep"
          BY <1>0, <5>3, Jump, ActorsAre DEF ControlOK
        <5> QED
          BY <5>2, <5>4
      <4> QED
        BY <4>1, <4>2, <4>3
    <3>2. \A v \in fresh' : pc'[v] \in {"recheck", "unreg"}
      <4>1. fresh' \subseteq Workers
        BY <1>0, <1>1, <2>0, RestStep DEF RestOK
      <4> QED
        BY <2>0, <2>3, <3>1, <4>1, ActorsAre DEF Same
    <3>3. pc'[Main] = "join" => Asleep' = {}
      BY <2>0, <2>1, <2>3, <3>1, ActorsAre DEF Asleep, Same
    <3> QED
      BY <2>1, <2>3, <3>2, <3>3 DEF EndOK
  <2> QED
    BY <1>0, <2>0, <2>1, <2>2, <2>3 DEF EndOK
<1>2. ASSUME SoloStep(Main) PROVE EndOK'
  <2>1. terminated /\ \A w \in Workers : pc'[w] = pc[w]
    BY <1>2, SoloSame, ActorsAre DEF Same
  <2>2. pc[Main] \notin {"bumpall", "notifyall", "join"}
    BY <1>2, ActorsAre DEF SoloStep, PushStep, WakeStep, QueueTask, QueueCas, QueueChain,
       QueueLate, WakeGate, BumpEpoch, Exec, Finish, Queue
  <2> QED
    BY <1>0, <2>1, <2>2 DEF EndOK
<1>3. ASSUME NEW a \in Actors, NotifyOne(a) PROVE EndOK'
  <2>1. terminated /\ UNCHANGED fresh /\ pc[a] = "notify"
    BY <1>3 DEF NotifyOne
  <2>2. \A b \in Actors : \/ pc'[b] = pc[b] /\ b # a
                          \/ b = a /\ pc'[b] \in {"idle", "exec", "finish"}
                          \/ b \in Asleep /\ pc'[b] = "wait"
    BY <1>0, <1>3, Jump, ActorsAre DEF NotifyOne, ControlOK, Asleep
  <2>3. CASE \A w \in Workers : pc[w] = "exited"
    <3>1. \A w \in Workers : pc'[w] = pc[w]
      BY <2>1, <2>2, <2>3, ActorsAre DEF Asleep
    <3> QED
      BY <2>3, <3>1 DEF EndOK
  <2>4. CASE ~(\A w \in Workers : pc[w] = "exited")
    <3>1. pc'[Main] = pc[Main]
      BY <1>0, <2>1, <2>2, <2>4, ActorsAre DEF EndOK, Asleep
    <3>2. Asleep' \subseteq Asleep
      BY <2>2, ActorsAre DEF Asleep
    <3>3. ASSUME NEW w \in fresh, pc[w] \in {"recheck", "unreg"} PROVE pc'[w] = pc[w]
      BY <1>0, <2>1, <2>2, <3>3, ActorsAre DEF Asleep
    <3> QED
      BY <1>0, <2>1, <2>4, <3>1, <3>2, <3>3 DEF EndOK
  <2> QED
    BY <2>3, <2>4
<1>4. CASE NotifyAll(Main)
  <2>1. /\ UNCHANGED fresh /\ pc[Main] = "notifyall" /\ terminated
        /\ \A b \in Actors : pc'[b] = IF b = Main THEN "join"
                                      ELSE IF b \in Asleep THEN "wait" ELSE pc[b]
    BY <1>4 DEF NotifyAll
  <2>2. Asleep' = {}
    BY <2>1, ActorsAre DEF Asleep
  <2>3. pc'[Main] = "join"
    BY <2>1, ActorsAre
  <2>4. CASE \A w \in Workers : pc[w] = "exited"
    <3>1. \A w \in Workers : pc'[w] = "exited"
      BY <2>1, <2>4, ActorsAre DEF Asleep
    <3> QED
      BY <3>1 DEF EndOK
  <2>5. CASE \A w \in fresh : pc[w] \in {"recheck", "unreg"}
    <3>1. \A w \in fresh' : pc'[w] \in {"recheck", "unreg"}
      BY <1>0, <2>1, <2>5, ActorsAre DEF Asleep
    <3> QED
      BY <2>2, <2>3, <3>1 DEF EndOK
  <2> QED
    BY <1>0, <2>1, <2>4, <2>5 DEF EndOK
<1>5. CASE BumpEpoch(Main, "bumpall", "notifyall")
  <2>1. fresh' = {} /\ pc'[Main] = "notifyall"
    BY <1>0, <1>5, Jump, ActorsAre DEF BumpEpoch
  <2> QED
    BY <2>1 DEF EndOK
<1>6. CASE Join \/ Drain
  <2>1. \A w \in Workers : pc[w] = "exited"
    BY <1>6 DEF Join, Drain, Shape, OwnerOK, Closing
  <2>2. \E l : Goto(Main, l)
    BY <1>6 DEF Join, Drain
  <2>3. \A w \in Workers : pc'[w] = "exited"
    BY <1>0, <2>1, <2>2, Jump, ActorsAre
  <2> QED
    BY <2>3 DEF EndOK
<1>7. CASE Terminate
  <2>1. pc'[Main] = "bumpall"
    BY <1>0, <1>7, Jump, ActorsAre DEF Terminate
  <2> QED
    BY <2>1 DEF EndOK
<1>8. CASE Start
  BY <1>8 DEF Start
<1>9. CASE UNCHANGED vars
  BY <1>0, <1>9 DEF vars, EndOK, Asleep
<1> QED
  BY <1>1, <1>2, <1>3, <1>4, <1>5, <1>6, <1>7, <1>8, <1>9, SoloClasses, ActorsAre

\* The invariant holds in every behaviour.
LEMMA WakeHolds == Spec => []WakeInv
<1>1. Init => WakeInv
  <2> SUFFICES ASSUME Init PROVE WakeInv
    OBVIOUS
  <2>1. /\ terminated /\ \A w \in Workers : pc[w] = "exited"
        /\ \A a \in Actors : pc[a] \in {"idle", "exited"}
    BY ActorsAre DEF Init
  <2> QED
    BY <2>1, ActorsAre DEF WakeInv, Attended, RowsOK, FoundOK, EndOK
<1>2. Shape /\ ScanOK' /\ WakeInv /\ [Next]_vars => WakeInv'
  BY AttendedStep, RowsStep, FoundStep, EndStep DEF WakeInv
<1>3. Shape => ScanOK
  BY DEF Shape
<1> QED
  BY <1>1, <1>2, <1>3, ShapeHolds, PTL DEF Spec

\* No lost wakeup, for any number of threads, duplicates, tasks and any limit: when
\* nobody is on the move, no task is left behind for which one of the sleeping threads
\* should have been woken, unless a thread blocks in a task of lower priority that it
\* took instead.
THEOREM NothingStranded == Spec => []NoStrandedTask
<1>1. Shape /\ WakeInv => NoStrandedTask
  <2> USE DEF PollPCs, DelayPCs, QueuePCs, WakePCs, ExecPCs
  <2> SUFFICES ASSUME Shape, WakeInv, \A a \in Actors : Quiet(a), NEW s \in Slots,
                      s[1] + LimitCount < Cardinality(Asleep), heads[s] # << >>
               PROVE  \E w \in Workers : BlockedBelow(w, s[1])
    BY DEF NoStrandedTask
  <2>1. /\ IsFiniteSet(Asleep) /\ Cardinality(Asleep) <= waiting /\ Cardinality(Asleep) \in Nat
        /\ waiting \in Nat
    <3>1. Asleep \subseteq Registered
      BY DEF Asleep, Registered
    <3> QED
      BY <3>1, CountsFinite, FS_Subset, FS_CardinalityType DEF Shape, CountsOK
  <2>2. s[1] \in Nat /\ LimitCount \in Nat
    BY PoolAssumption, ActorsAre DEF Slots
  <2>3. CASE terminated
    <3>1. Asleep = {}
      BY <2>3, ActorsAre DEF WakeInv, EndOK, Quiet, Asleep
    <3> QED
      BY <2>2, <3>1, FS_EmptySet
  <2>4. CASE ~terminated
    <3>1. Cared(s)
      BY <2>1, <2>2, <2>4 DEF WakeInv, Attended, Due
    <3>2. ~Heralded
      BY DEF Heralded, Quiet
    <3>3. PICK a \in Actors : Serves(a, s)
      BY <3>1, <3>2 DEF Cared
    <3>4. a \in Workers /\ Polls(a, s) /\ pc[a] = "finish" /\ Head(hold[a]) \in Blocking
      BY <3>3 DEF Quiet, Serves, Announces, Alert, Polls, BusyPCs
    <3>5. BlockedBelow(a, s[1])
      BY <3>4 DEF Polls, BlockedBelow, BusyPCs
    <3> QED
      BY <3>4, <3>5
  <2> QED
    BY <2>3, <2>4
<1> QED
  BY <1>1, ShapeHolds, WakeHolds, PTL
=============================================================================
