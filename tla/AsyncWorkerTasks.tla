-------------------------- MODULE AsyncWorkerTasks --------------------------
(***************************************************************************)
(* What becomes of the tasks of AsyncWorker, for any number of threads,    *)
(* duplicates, tasks and restarts: every task is in exactly one list until *)
(* its callback has returned, task_count is exact, join() leaves nothing   *)
(* behind, and the pool implements TaskPool.                               *)
(***************************************************************************)
EXTENDS AsyncWorkerProofs

\* A box is a list that may hold tasks: a task head, what an actor has detached, what
\* it found in the head it put back, and the task queue_task() is placing.
Boxes == ({"head"} \X Slots) \cup ({"hold", "org", "item"} \X Actors)
Box(p) ==
    IF p[1] = "head" THEN Elems(heads[p[2]])
    ELSE IF p[1] = "hold" THEN Elems(hold[p[2]])
    ELSE IF p[1] = "org" THEN Elems(org[p[2]])
    ELSE {item[p[2]]} \ {None}

\* The tasks that are counted and not freed are the ones in the boxes, each in one
\* box and once in it.
Apart == \A p, q \in Boxes : p # q => Box(p) \cap Box(q) = {}
Whole == \A t \in Tasks : t \in created \ done <=> \E p \in Boxes : t \in Box(p)
NoRepeat == /\ \A s \in Slots : Distinct(heads[s])
            /\ \A a \in Actors : Distinct(hold[a]) /\ Distinct(org[a])

\* Which lists are empty where.  A pool thread executes one task at a time; no one
\* pushes to a head while there are none.
Busy(a) == pc[a] = "finish" \/ (pc[a] \in QueuePCs \cup WakePCs /\ ret[a] = "finish")
IdleOK(a) ==
    /\ item[a] # None => pc[a] \in QueuePCs
    /\ org[a] # << >> => pc[a] = "repush"
    /\ hold[a] # << >> => pc[a] \in {"putback"} \cup ExecPCs \cup ReturnPCs
    /\ pc[a] \in ReturnPCs /\ ret[a] = "idle" => hold[a] = << >>
    /\ pc[a] \in {"repush", "look", "lookfetch"} => ret[a] = "exec"
    /\ pc[a] \in {"cas", "chain", "late"} => live
    /\ a \in Workers /\ pc[a] \in ExecPCs \cup ReturnPCs => Tail(hold[a]) = << >>
EmptyOK == \A a \in Actors : IdleOK(a)

\* How far join()'s last pass has come: a pass that has found nothing leaves only
\* empty heads behind it.
DrainOK ==
    /\ ~live => \A s \in Slots : heads[s] = << >>
    /\ live /\ Closing /\ pc[Main] # "drain" => dirty
    /\ pc[Main] \in JoinPCs => live
    /\ pc[Main] = "drain" /\ ~dirty =>
          \A k \in 0 .. at[Main] - 1 : heads[<<k % ThreadCount, k \div ThreadCount>>] = << >>

\* How often the tasks in each box were executed.  Before start() a task that queues
\* another one executes it nested in itself.
Fresh ==
    /\ \A s \in Slots : \A t \in Elems(heads[s]) : runs[t] = 0
    /\ \A a \in Actors : /\ \A t \in Elems(org[a]) : runs[t] = 0
                         /\ item[a] # None => runs[item[a]] = 0
HeldRuns(a) ==
    hold[a] # << >> =>
       /\ runs[Head(hold[a])] = IF Busy(a) THEN 1 ELSE 0
       /\ \A t \in Elems(Tail(hold[a])) : runs[t] = IF a = Main /\ ~live THEN 1 ELSE 0
RunsOK ==
    /\ Fresh
    /\ \A a \in Actors : HeldRuns(a)
    /\ \A t \in Tasks : (t \notin created => runs[t] = 0) /\ (t \in done => runs[t] = 1)

CountOK == IsFiniteSet(created) /\ taskCount = Cardinality(created \ done) /\ done \subseteq created

Books == Apart /\ Whole /\ NoRepeat /\ EmptyOK /\ DrainOK /\ RunsOK /\ CountOK

-----------------------------------------------------------------------------
(* Lists and boxes                                                            *)

\* Elements of a list, and lists without repetitions.
LEMMA ElemFacts ==
    /\ Elems(<< >>) = {} /\ Distinct(<< >>)
    /\ \A t \in Tasks : Elems(<<t>>) = {t} /\ Distinct(<<t>>) /\ Head(<<t>>) = t /\ Tail(<<t>>) = << >>
    /\ \A t \in Tasks, q \in Seq(Tasks) :
          /\ Elems(<<t>> \o q) = {t} \cup Elems(q)
          /\ t \notin Elems(q) /\ Distinct(q) => Distinct(<<t>> \o q)
          /\ Head(<<t>> \o q) = t /\ Tail(<<t>> \o q) = q
    /\ \A q \in Seq(Tasks) : q # << >> =>
          /\ Elems(q) = {Head(q)} \cup Elems(Tail(q))
          /\ Distinct(q) => Distinct(Tail(q)) /\ Head(q) \notin Elems(Tail(q))
    /\ \A q \in Seq(Tasks) : Elems(q) \subseteq Tasks
<1>1. Elems(<< >>) = {} /\ Distinct(<< >>)
  BY DEF Elems, Distinct
<1>2. ASSUME NEW t \in Tasks
      PROVE  Elems(<<t>>) = {t} /\ Distinct(<<t>>) /\ Head(<<t>>) = t /\ Tail(<<t>>) = << >>
  <2>1. Len(<<t>>) = 1 /\ <<t>>[1] = t
    OBVIOUS
  <2>2. Elems(<<t>>) = {t}
    BY <2>1 DEF Elems
  <2>3. Distinct(<<t>>)
    BY <2>1 DEF Distinct
  <2>4. Head(<<t>>) = t /\ Tail(<<t>>) = << >>
    OBVIOUS
  <2> QED
    BY <2>2, <2>3, <2>4
<1>3. ASSUME NEW t \in Tasks, NEW q \in Seq(Tasks)
      PROVE  /\ Elems(<<t>> \o q) = {t} \cup Elems(q)
             /\ t \notin Elems(q) /\ Distinct(q) => Distinct(<<t>> \o q)
             /\ Head(<<t>> \o q) = t /\ Tail(<<t>> \o q) = q
  <2> DEFINE r == <<t>> \o q
  <2>1. r \in Seq(Tasks) /\ Len(r) = Len(q) + 1 /\ Len(q) \in Nat
    OBVIOUS
  <2>2. r[1] = t /\ \A i \in 1 .. Len(q) : r[i + 1] = q[i]
    OBVIOUS
  <2>3. \A i \in 2 .. Len(r) : i - 1 \in 1 .. Len(q) /\ r[i] = q[i - 1]
    BY <2>1, <2>2
  <2>4. Elems(r) = {t} \cup Elems(q)
    <3>1. ASSUME NEW x \in Elems(r) PROVE x \in {t} \cup Elems(q)
      <4>1. PICK i \in 1 .. Len(r) : x = r[i]
        BY <3>1 DEF Elems
      <4>2. CASE i = 1
        BY <2>2, <4>1, <4>2
      <4>3. CASE i # 1
        BY <2>1, <2>3, <4>1, <4>3 DEF Elems
      <4> QED
        BY <4>2, <4>3
    <3>2. ASSUME NEW x \in Elems(q) PROVE x \in Elems(r)
      <4>1. PICK i \in 1 .. Len(q) : x = q[i]
        BY <3>2 DEF Elems
      <4>2. i + 1 \in 1 .. Len(r) /\ r[i + 1] = x
        BY <2>1, <2>2, <4>1
      <4> QED
        BY <4>2 DEF Elems
    <3>3. t \in Elems(r)
      BY <2>1, <2>2 DEF Elems
    <3> QED
      BY <3>1, <3>2, <3>3
  <2>5. ASSUME t \notin Elems(q), Distinct(q) PROVE Distinct(r)
    <3> SUFFICES ASSUME NEW i \in 1 .. Len(r), NEW j \in 1 .. Len(r), r[i] = r[j]
                 PROVE  i = j
      BY DEF Distinct
    <3>1. \A k \in 2 .. Len(r) : r[k] # t
      BY <2>1, <2>3, <2>5 DEF Elems
    <3>2. CASE i = 1 \/ j = 1
      BY <2>1, <2>2, <3>1, <3>2
    <3>3. CASE i # 1 /\ j # 1
      <4>1. i - 1 \in 1 .. Len(q) /\ j - 1 \in 1 .. Len(q) /\ q[i - 1] = q[j - 1]
        BY <2>1, <2>3, <3>3
      <4>2. i - 1 = j - 1
        BY <2>5, <4>1 DEF Distinct
      <4> QED
        BY <4>2
    <3> QED
      BY <3>2, <3>3
  <2>6. Head(r) = t
    BY <2>1, <2>2
  <2>7. Tail(r) = q
    <3>1. Tail(r) \in Seq(Tasks) /\ Len(Tail(r)) = Len(q)
      BY <2>1
    <3>2. \A i \in 1 .. Len(q) : Tail(r)[i] = q[i]
      BY <2>1, <2>2
    <3> QED
      BY <3>1, <3>2
  <2> QED
    BY <2>4, <2>5, <2>6, <2>7
<1>4. ASSUME NEW q \in Seq(Tasks), q # << >>
      PROVE  /\ Elems(q) = {Head(q)} \cup Elems(Tail(q))
             /\ Distinct(q) => Distinct(Tail(q)) /\ Head(q) \notin Elems(Tail(q))
  <2>1. /\ Len(q) \in Nat /\ Len(q) >= 1 /\ Tail(q) \in Seq(Tasks) /\ Head(q) = q[1]
        /\ Len(Tail(q)) = Len(q) - 1
        /\ \A i \in 1 .. Len(q) - 1 : Tail(q)[i] = q[i + 1]
    BY <1>4
  <2>2. Elems(q) = {Head(q)} \cup Elems(Tail(q))
    <3>1. ASSUME NEW x \in Elems(q) PROVE x \in {Head(q)} \cup Elems(Tail(q))
      <4>1. PICK i \in 1 .. Len(q) : x = q[i]
        BY <3>1 DEF Elems
      <4>2. CASE i = 1
        BY <2>1, <4>1, <4>2
      <4>3. CASE i # 1
        <5>1. i - 1 \in 1 .. Len(Tail(q)) /\ Tail(q)[i - 1] = x
          BY <2>1, <4>1, <4>3
        <5> QED
          BY <5>1 DEF Elems
      <4> QED
        BY <4>2, <4>3
    <3>2. ASSUME NEW x \in Elems(Tail(q)) PROVE x \in Elems(q)
      <4>1. PICK i \in 1 .. Len(Tail(q)) : x = Tail(q)[i]
        BY <3>2 DEF Elems
      <4>2. i + 1 \in 1 .. Len(q) /\ x = q[i + 1]
        BY <2>1, <4>1
      <4> QED
        BY <4>2 DEF Elems
    <3>3. Head(q) \in Elems(q)
      BY <2>1 DEF Elems
    <3> QED
      BY <3>1, <3>2, <3>3
  <2>3. ASSUME Distinct(q) PROVE Distinct(Tail(q)) /\ Head(q) \notin Elems(Tail(q))
    <3>1. ASSUME NEW i \in 1 .. Len(Tail(q)), NEW j \in 1 .. Len(Tail(q)), Tail(q)[i] = Tail(q)[j]
          PROVE  i = j
      <4>1. i + 1 \in 1 .. Len(q) /\ j + 1 \in 1 .. Len(q) /\ q[i + 1] = q[j + 1]
        BY <2>1, <3>1
      <4>2. i + 1 = j + 1
        BY <2>3, <4>1 DEF Distinct
      <4> QED
        BY <2>1, <4>2
    <3>2. ASSUME Head(q) \in Elems(Tail(q)) PROVE FALSE
      <4>1. PICK i \in 1 .. Len(Tail(q)) : Head(q) = Tail(q)[i]
        BY <3>2 DEF Elems
      <4>2. i + 1 \in 1 .. Len(q) /\ 1 \in 1 .. Len(q) /\ q[i + 1] = q[1]
        BY <2>1, <4>1
      <4>3. i + 1 = 1
        BY <2>3, <4>2 DEF Distinct
      <4> QED
        BY <2>1, <4>3
    <3> QED
      BY <3>1, <3>2 DEF Distinct
  <2> QED
    BY <2>2, <2>3
<1>5. ASSUME NEW q \in Seq(Tasks) PROVE Elems(q) \subseteq Tasks
  BY DEF Elems
<1> QED
  BY <1>1, <1>2, <1>3, <1>4, <1>5

\* There is a head.
LEMMA SlotZero == <<0, 0>> \in Slots
  BY ActorsAre DEF Slots

\* What is in which box.
LEMMA BoxIs ==
    /\ \A s \in Slots : <<"head", s>> \in Boxes /\ Box(<<"head", s>>) = Elems(heads[s])
    /\ \A a \in Actors : /\ <<"hold", a>> \in Boxes /\ Box(<<"hold", a>>) = Elems(hold[a])
                         /\ <<"org", a>> \in Boxes /\ Box(<<"org", a>>) = Elems(org[a])
                         /\ <<"item", a>> \in Boxes /\ Box(<<"item", a>>) = {item[a]} \ {None}
    /\ \A p \in Boxes : \/ \E s \in Slots : p = <<"head", s>>
                        \/ \E a \in Actors : p \in {<<"hold", a>>, <<"org", a>>, <<"item", a>>}
  BY DEF Boxes, Box

\* The same in the next state.
LEMMA BoxWillBe ==
    /\ \A s \in Slots : Box(<<"head", s>>)' = Elems(heads'[s])
    /\ \A a \in Actors : /\ Box(<<"hold", a>>)' = Elems(hold'[a])
                         /\ Box(<<"org", a>>)' = Elems(org'[a])
                         /\ Box(<<"item", a>>)' = {item'[a]} \ {None}
  BY DEF Boxes, Box, Elems

\* Boxes hold tasks.
LEMMA BoxTasks ==
    ASSUME ChainsOK
    PROVE  \A p \in Boxes : Box(p) \subseteq Tasks
<1>1. /\ \A s \in Slots : heads[s] \in Seq(Tasks)
      /\ \A a \in Actors : hold[a] \in Seq(Tasks) /\ org[a] \in Seq(Tasks) /\ item[a] \in Tasks \cup {None}
  BY DEF ChainsOK
<1>2. /\ \A s \in Slots : Elems(heads[s]) \subseteq Tasks
      /\ \A a \in Actors : Elems(hold[a]) \subseteq Tasks /\ Elems(org[a]) \subseteq Tasks
  BY <1>1, ElemFacts
<1>3. \A a \in Actors : {item[a]} \ {None} \subseteq Tasks
  BY <1>1
<1>4. /\ \A s \in Slots : Box(<<"head", s>>) \subseteq Tasks
      /\ \A a \in Actors : /\ Box(<<"hold", a>>) \subseteq Tasks
                           /\ Box(<<"org", a>>) \subseteq Tasks
                           /\ Box(<<"item", a>>) \subseteq Tasks
  BY <1>2, <1>3, BoxIs
<1> QED
  BY <1>4, BoxIs

\* Tasks moved among the boxes of P only, none dropped, none in two of them.
LEMMA Moved ==
    ASSUME Apart, Whole, UNCHANGED <<created, done>>, NEW P \in SUBSET Boxes,
           \A p \in Boxes \ P : Box(p)' = Box(p),
           \A p, q \in P : p # q => Box(p)' \cap Box(q)' = {},
           \A t : (\E p \in P : t \in Box(p)') <=> (\E p \in P : t \in Box(p))
    PROVE  Apart' /\ Whole'
<1>1. ASSUME NEW p \in Boxes, NEW q \in Boxes, p # q, NEW t \in Box(p)', t \in Box(q)'
      PROVE  FALSE
  <2>1. CASE p \in P /\ q \in P
    BY <1>1, <2>1
  <2>2. CASE p \in P /\ q \notin P
    <3>1. PICK r \in P : t \in Box(r)
      BY <1>1, <2>2
    <3> QED
      BY <1>1, <2>2, <3>1 DEF Apart
  <2>3. CASE p \notin P /\ q \in P
    <3>1. PICK r \in P : t \in Box(r)
      BY <1>1, <2>3
    <3> QED
      BY <1>1, <2>3, <3>1 DEF Apart
  <2>4. CASE p \notin P /\ q \notin P
    BY <1>1, <2>4 DEF Apart
  <2> QED
    BY <2>1, <2>2, <2>3, <2>4
<1>2. Apart'
  BY <1>1 DEF Apart, Boxes
<1>3. ASSUME NEW t \in Tasks
      PROVE  (\E p \in Boxes : t \in Box(p)') <=> (\E p \in Boxes : t \in Box(p))
  <2>1. ASSUME NEW p \in Boxes, t \in Box(p)' PROVE \E q \in Boxes : t \in Box(q)
    BY <2>1
  <2>2. ASSUME NEW p \in Boxes, t \in Box(p) PROVE \E q \in Boxes : t \in Box(q)'
    BY <2>2
  <2> QED
    BY <2>1, <2>2
<1>4. Whole'
  BY <1>3 DEF Whole, Boxes
<1> QED
  BY <1>2, <1>4

\* A task that was in no box enters one.
LEMMA Entered ==
    ASSUME Apart, Whole, NEW b \in Boxes, NEW x \in Tasks,
           x \notin created, done \subseteq created, created' = created \cup {x}, UNCHANGED done,
           \A p \in Boxes \ {b} : Box(p)' = Box(p), Box(b)' = Box(b) \cup {x}
    PROVE  Apart' /\ Whole'
<1>1. \A p \in Boxes : x \notin Box(p)
  BY DEF Whole
<1>2. Apart'
  <2>1. ASSUME NEW p \in Boxes, NEW q \in Boxes, p # q, NEW t \in Box(p)', t \in Box(q)'
        PROVE  FALSE
    <3>1. t # x => t \in Box(p) /\ t \in Box(q)
      BY <2>1
    <3>2. t = x => p = b /\ q = b
      BY <1>1, <2>1
    <3> QED
      BY <2>1, <3>1, <3>2 DEF Apart
  <2> QED
    BY <2>1 DEF Apart, Boxes
<1>3. ASSUME NEW t \in Tasks
      PROVE  t \in created' \ done' <=> \E p \in Boxes : t \in Box(p)'
  <2>1. CASE t = x
    BY <2>1
  <2>2. CASE t # x
    BY <2>2 DEF Whole
  <2> QED
    BY <2>1, <2>2
<1>4. Whole'
  BY <1>3 DEF Whole, Boxes
<1> QED
  BY <1>2, <1>4

\* A task leaves the boxes for good.
LEMMA Left ==
    ASSUME Apart, Whole, NEW b \in Boxes, NEW x \in Box(b), Box(b) \subseteq Tasks,
           UNCHANGED created, done' = done \cup {x},
           \A p \in Boxes \ {b} : Box(p)' = Box(p), Box(b)' = Box(b) \ {x}
    PROVE  Apart' /\ Whole'
<1>1. \A p \in Boxes : Box(p)' = Box(p) \ {x}
  <2>1. \A p \in Boxes \ {b} : x \notin Box(p)
    BY DEF Apart
  <2> QED
    BY <2>1
<1>2. Apart'
  <2>1. ASSUME NEW p \in Boxes, NEW q \in Boxes, p # q PROVE Box(p)' \cap Box(q)' = {}
    BY <1>1, <2>1 DEF Apart
  <2> QED
    BY <2>1 DEF Apart, Boxes
<1>3. ASSUME NEW t \in Tasks
      PROVE  t \in created' \ done' <=> \E p \in Boxes : t \in Box(p)'
  BY <1>1 DEF Whole
<1>4. Whole'
  BY <1>3 DEF Whole, Boxes
<1> QED
  BY <1>2, <1>4

-----------------------------------------------------------------------------
(* What a step does to the boxes                                              *)

\* queue_task() links its task into a head, or executes it at once; an actor detaches
\* a head; PutBack; Repush; new_task(); the end of a task.
Link(a, s) ==
    /\ item[a] # None
    /\ heads' = [heads EXCEPT ![s] = <<item[a]>> \o @]
    /\ item' = Set(item, a, None)
    /\ UNCHANGED <<hold, org, history, taskCount>>
Nest(a) ==
    /\ item[a] # None
    /\ hold' = Set(hold, a, <<item[a]>> \o hold[a])
    /\ item' = Set(item, a, None)
    /\ UNCHANGED <<heads, org, history, taskCount>>
Detach(a, s) ==
    /\ hold[a] = << >>
    /\ hold' = Set(hold, a, heads[s])
    /\ heads' = [heads EXCEPT ![s] = << >>]
    /\ UNCHANGED <<org, item, history, taskCount>>
Split(a, s) ==
    /\ hold[a] # << >> /\ org[a] = << >>
    /\ org' = Set(org, a, heads[s])
    /\ heads' = [heads EXCEPT ![s] = Tail(hold[a])]
    /\ hold' = Set(hold, a, <<Head(hold[a])>>)
    /\ UNCHANGED <<item, history, taskCount>>
Return(a, s) ==
    /\ org[a] # << >>
    /\ heads' = [heads EXCEPT ![s] = <<Head(org[a])>> \o @]
    /\ org' = Set(org, a, Tail(org[a]))
    /\ UNCHANGED <<hold, item, history, taskCount>>
Enter(a, t) ==
    /\ item[a] = None /\ t \in Tasks /\ t \notin created
    /\ item' = Set(item, a, t)
    /\ created' = created \cup {t}
    /\ taskCount' = taskCount + 1
    /\ UNCHANGED <<heads, hold, org, done>>
Drop(a) ==
    /\ hold[a] # << >>
    /\ hold' = Set(hold, a, Tail(hold[a]))
    /\ done' = done \cup {Head(hold[a])}
    /\ taskCount' = taskCount - 1
    /\ UNCHANGED <<heads, org, item, created, runs>>
Still == UNCHANGED <<heads, hold, org, item, created, done, taskCount>>

\* Every step is one of these.
LEMMA Effects ==
    ASSUME Shape, Books, Next
    PROVE  \/ Still
           \/ \E a \in Actors, s \in Slots : \/ Link(a, s) \/ Detach(a, s)
                                             \/ Split(a, s) \/ Return(a, s)
           \/ \E a \in Actors : Nest(a) \/ Drop(a)
           \/ \E a \in Actors, t \in Tasks : Enter(a, t)
<1> USE DEF PollPCs, DelayPCs, QueuePCs, WakePCs, ExecPCs, JoinPCs, ReturnPCs
<1>0. /\ ControlOK /\ ChainsOK /\ ScanOK
      /\ \A a \in Actors : slot[a] \in Slots /\ item[a] \in Tasks \cup {None}
      /\ \A a \in Actors : IdleOK(a)
  BY DEF Shape, ControlOK, ChainsOK, ScanOK, Books, EmptyOK
<1>1. ASSUME NEW a \in Actors, PushStep(a)
      PROVE  Still \/ Nest(a) \/ \E s \in Slots : Link(a, s)
  <2>1. item[a] # None /\ Prio[item[a]] \in Nat
    BY <1>0, <1>1, TaskAssumption DEF ChainsOK, PushStep, QueueTask, QueueCas, QueueChain, QueueLate
  <2>2. /\ Clamp(Prio[item[a]]) \in 0 .. ThreadCount - 1
        /\ (at[a] + ThreadIndex(a)) % Dup \in 0 .. Dup - 1
        /\ <<0, 0>> \in Slots
    <3>1. at[a] + ThreadIndex(a) \in Nat
      BY <1>0, ScanBounds, ActorsAre DEF ScanOK
    <3> QED
      BY <2>1, <3>1, ScanBounds, ActorsAre DEF Slots
  <2>3. CASE QueueTask(a)
    BY <2>1, <2>3 DEF QueueTask, Nest, Still, history, counters
  <2>4. CASE QueueCas(a)
    BY <2>1, <2>2, <2>4 DEF QueueCas, Push, Link, Still, history, counters, chains, Slots
  <2>5. CASE QueueChain(a)
    BY <2>1, <2>2, <2>5 DEF QueueChain, Push, Link, history, counters, Slots
  <2>6. CASE QueueLate(a)
    BY <2>1, <2>2, <2>6 DEF QueueLate, Push, Link, history, counters
  <2> QED
    BY <1>1, <2>3, <2>4, <2>5, <2>6 DEF PushStep
<1>2. ASSUME NEW a \in Actors, Exec(a)
      PROVE  Still \/ \E t \in Tasks : Enter(a, t)
  <2>1. item[a] = None /\ hold[a] # << >> /\ Head(hold[a]) \in Tasks
    <3>1. hold[a] # << >> /\ item[a] = None
      BY <1>0, <1>2 DEF IdleOK, Exec, ChainsOK
    <3>2. hold[a] \in Seq(Tasks)
      BY <1>0 DEF ChainsOK
    <3> QED
      BY <3>1, <3>2, ListFacts
  <2>2. Child[Head(hold[a])] \in Tasks \cup {None}
    BY <2>1, TaskAssumption
  <2> QED
    BY <1>2, <2>1, <2>2 DEF Exec, NewTask, Enter, Still, chains
<1>3. ASSUME NEW a \in Actors, Finish(a) PROVE Drop(a)
  BY <1>0, <1>3 DEF Finish, Drop, ChainsOK
<1>4. ASSUME NEW w \in Workers, PollStep(w)
      PROVE  Still \/ \E s \in Slots : Detach(w, s) \/ Split(w, s) \/ Return(w, s)
  <2>0. w \in Actors /\ slot[w] \in Slots
    BY <1>0, ActorsAre
  <2>1. CASE Take(w)
    <3>1. hold[w] = << >>
      BY <1>0, <2>0, <2>1 DEF IdleOK, Take
    <3> QED
      BY <2>0, <2>1, <3>1 DEF Take, Detach, counters, history
  <2>2. CASE PutBack(w)
    <3>1. hold[w] # << >> /\ org[w] = << >>
      BY <1>0, <2>0, <2>2 DEF IdleOK, PutBack, ChainsOK
    <3> QED
      BY <2>0, <2>2, <3>1 DEF PutBack, Split, counters, history
  <2>3. CASE Repush(w)
    <3>1. org[w] # << >>
      BY <1>0, <2>0, <2>3 DEF Repush, ChainsOK
    <3> QED
      BY <2>0, <2>3, <3>1 DEF Repush, Return, counters, history
  <2>4. CASE Look(w) \/ Fetch(w, "fetch", "take", "miss") \/ Fetch(w, "lookfetch", "gate", "exec")
    BY <2>4 DEF Look, Fetch, Still, counters, history, chains
  <2> QED
    BY <1>4, <2>1, <2>2, <2>3, <2>4 DEF PollStep
<1>5. ASSUME NEW w \in Workers, DelayStep(w) \/ GuardStep(w) PROVE Still
  BY <1>5 DEF DelayStep, DelayLoop, DelaySpin, ReadEpoch, Recheck, EpochWait, Fetch, GuardStep,
     ThreadLoop, DelayEnter, Unregister, LeavePoll, Still, counters, history, chains
<1>6. ASSUME NEW a \in Actors, WakeStep(a) \/ NotifyOne(a) PROVE Still
  BY <1>6 DEF WakeStep, WakeGate, BumpEpoch, NotifyOne, Still, counters, history, chains
<1>7. CASE NotifyAll(Main) \/ BumpEpoch(Main, "bumpall", "notifyall") \/ Join \/ Terminate
  BY <1>7 DEF NotifyAll, BumpEpoch, Join, Terminate, Still, counters, history, chains
<1>8. CASE Drain
  <2>1. hold[Main] = << >>
    BY <1>0, <1>8, ActorsAre DEF IdleOK, Drain
  <2>2. CASE at[Main] < ThreadCount * Dup
    <3>1. DrainSlot \in Slots
      BY <1>0, <2>2, DrainInside
    <3>2. at[Main] # ThreadCount * Dup
      BY <1>0, <2>2, ActorsAre, Product DEF ScanOK
    <3>3. Detach(Main, DrainSlot)
      BY <1>8, <2>1, <3>2 DEF Drain, Detach, counters, history
    <3> QED
      BY <3>1, <3>3, ActorsAre
  <2>3. CASE ~(at[Main] < ThreadCount * Dup)
    BY <1>8, <2>3 DEF Drain, Still, counters, history
  <2> QED
    BY <2>2, <2>3
<1>9. CASE Queue
  <2>1. item[Main] = None
    BY <1>0, <1>9, ActorsAre DEF IdleOK, Queue
  <2> QED
    BY <1>9, <2>1, ActorsAre, TaskAssumption DEF Queue, NewTask, Enter
<1>10. CASE Start
  <2>1. heads' = heads
    <3>1. \A s \in Slots : heads[s] = << >>
      BY <1>10 DEF Start, Books, DrainOK
    <3> QED
      BY <1>0, <1>10, <3>1 DEF Start, EmptyHeads, ChainsOK
  <2> QED
    BY <1>10, <2>1 DEF Start, Still, history
<1> QED
  BY <1>1, <1>2, <1>3, <1>4, <1>5, <1>6, <1>7, <1>8, <1>9, <1>10, StepClasses, ActorsAre

\* The only steps that change what is known of a task: queue(), the invocation of a
\* callback and its return.
LEMMA SeenSteps ==
    Next => \/ UNCHANGED <<created, done, runs>>
            \/ Queue \/ \E a \in Actors : Exec(a) \/ Finish(a)
<1>1. ASSUME NEW a \in Actors, PushStep(a) \/ WakeStep(a) \/ NotifyOne(a)
      PROVE  UNCHANGED <<created, done, runs>>
  BY <1>1 DEF PushStep, WakeStep, QueueTask, QueueCas, QueueChain, QueueLate, WakeGate, BumpEpoch,
     NotifyOne, history
<1>2. ASSUME NEW w \in Workers, PollStep(w) \/ DelayStep(w) \/ GuardStep(w)
      PROVE  UNCHANGED <<created, done, runs>>
  BY <1>2 DEF PollStep, DelayStep, GuardStep, Fetch, Take, PutBack, Repush, Look, DelayLoop,
     DelaySpin, ReadEpoch, Recheck, EpochWait, ThreadLoop, DelayEnter, Unregister, LeavePoll, history
<1>3. NotifyAll(Main) \/ BumpEpoch(Main, "bumpall", "notifyall") \/ Join \/ Drain \/ Terminate \/ Start
        => UNCHANGED <<created, done, runs>>
  BY DEF NotifyAll, BumpEpoch, Join, Drain, Terminate, Start, history
<1> QED
  BY <1>1, <1>2, <1>3, StepClasses

\* The boxes' types, by actor and slot.
LEMMA BoxTypes ==
    ASSUME ChainsOK
    PROVE  /\ heads \in [Slots -> Seq(Tasks)] /\ hold \in [Actors -> Seq(Tasks)]
           /\ org \in [Actors -> Seq(Tasks)] /\ item \in [Actors -> Tasks \cup {None}]
           /\ \A s \in Slots : heads[s] \in Seq(Tasks)
           /\ \A a \in Actors : /\ hold[a] \in Seq(Tasks) /\ org[a] \in Seq(Tasks)
                                /\ item[a] \in Tasks \cup {None}
  BY DEF ChainsOK

\* A step that changes only the boxes of actor a and head s.
LEMMA Elsewhere ==
    ASSUME NEW a \in Actors, NEW s \in Slots,
           \A r \in Slots : r # s => heads'[r] = heads[r],
           \A b \in Actors : b # a => hold'[b] = hold[b] /\ org'[b] = org[b] /\ item'[b] = item[b]
    PROVE  \A p \in Boxes \ {<<"head", s>>, <<"hold", a>>, <<"org", a>>, <<"item", a>>} :
              Box(p)' = Box(p)
<1>1. ASSUME NEW r \in Slots, r # s PROVE Box(<<"head", r>>)' = Box(<<"head", r>>)
  BY <1>1, BoxIs, BoxWillBe
<1>2. ASSUME NEW b \in Actors, b # a
      PROVE  /\ Box(<<"hold", b>>)' = Box(<<"hold", b>>)
             /\ Box(<<"org", b>>)' = Box(<<"org", b>>)
             /\ Box(<<"item", b>>)' = Box(<<"item", b>>)
  <2>1. hold'[b] = hold[b] /\ org'[b] = org[b] /\ item'[b] = item[b]
    BY <1>2
  <2>2. Box(<<"hold", b>>)' = Elems(hold'[b]) /\ Box(<<"hold", b>>) = Elems(hold[b])
    BY BoxIs, BoxWillBe
  <2>3. Box(<<"org", b>>)' = Elems(org'[b]) /\ Box(<<"org", b>>) = Elems(org[b])
    BY BoxIs, BoxWillBe
  <2>4. Box(<<"item", b>>)' = {item'[b]} \ {None} /\ Box(<<"item", b>>) = {item[b]} \ {None}
    BY BoxIs, BoxWillBe
  <2> QED
    BY <2>1, <2>2, <2>3, <2>4
<1>3. ASSUME NEW p \in Boxes,
             p \notin {<<"head", s>>, <<"hold", a>>, <<"org", a>>, <<"item", a>>}
      PROVE  Box(p)' = Box(p)
  <2>1. CASE \E r \in Slots : p = <<"head", r>>
    BY <1>1, <1>3, <2>1
  <2>2. CASE \E b \in Actors : p \in {<<"hold", b>>, <<"org", b>>, <<"item", b>>}
    BY <1>2, <1>3, <2>2
  <2> QED
    BY <2>1, <2>2, BoxIs
<1> QED
  BY <1>3

\* Every step keeps each task in one box: what poll_one_internal() detaches, puts back
\* and repushes is never dropped and never linked twice.
LEMMA BoxStep ==
    ASSUME Shape, Books, Next
    PROVE  Apart' /\ Whole' /\ NoRepeat'
<1>0. ChainsOK /\ Apart /\ Whole /\ NoRepeat /\ done \subseteq created /\ None \notin Tasks
  BY TaskAssumption DEF Shape, Books, CountOK
<1>1. /\ heads \in [Slots -> Seq(Tasks)] /\ hold \in [Actors -> Seq(Tasks)]
      /\ org \in [Actors -> Seq(Tasks)] /\ item \in [Actors -> Tasks \cup {None}]
      /\ \A s \in Slots : heads[s] \in Seq(Tasks)
      /\ \A a \in Actors : /\ hold[a] \in Seq(Tasks) /\ org[a] \in Seq(Tasks)
                           /\ item[a] \in Tasks \cup {None}
  BY <1>0, BoxTypes
<1>2. /\ \A s \in Slots : Distinct(heads[s])
      /\ \A a \in Actors : Distinct(hold[a]) /\ Distinct(org[a])
  BY <1>0 DEF NoRepeat
\* the boxes of one actor and one head
<1> DEFINE H(s) == <<"head", s>>
           D(a) == <<"hold", a>>
           O(a) == <<"org", a>>
           I(a) == <<"item", a>>
<1>3. ASSUME NEW a \in Actors, NEW s \in Slots
      PROVE  /\ H(s) \in Boxes /\ D(a) \in Boxes /\ O(a) \in Boxes /\ I(a) \in Boxes
             /\ Box(H(s)) = Elems(heads[s]) /\ Box(D(a)) = Elems(hold[a])
             /\ Box(O(a)) = Elems(org[a]) /\ Box(I(a)) = {item[a]} \ {None}
             /\ Box(H(s))' = Elems(heads'[s]) /\ Box(D(a))' = Elems(hold'[a])
             /\ Box(O(a))' = Elems(org'[a]) /\ Box(I(a))' = {item'[a]} \ {None}
             /\ Box(H(s)) \cap Box(D(a)) = {} /\ Box(H(s)) \cap Box(O(a)) = {}
             /\ Box(H(s)) \cap Box(I(a)) = {} /\ Box(D(a)) \cap Box(I(a)) = {}
             /\ Box(D(a)) \cap Box(O(a)) = {}
             /\ H(s) # D(a) /\ H(s) # O(a) /\ H(s) # I(a) /\ D(a) # O(a) /\ D(a) # I(a)
             /\ O(a) # I(a)
  <2>1. /\ H(s) \in Boxes /\ D(a) \in Boxes /\ O(a) \in Boxes /\ I(a) \in Boxes
        /\ H(s) # D(a) /\ H(s) # O(a) /\ H(s) # I(a) /\ D(a) # O(a) /\ D(a) # I(a)
        /\ O(a) # I(a)
    BY BoxIs
  <2> QED
    BY <1>0, <2>1, BoxIs, BoxWillBe DEF Apart
<1>4. CASE Still
  <2>1. \A p \in Boxes : Box(p)' = Box(p)
    BY <1>4 DEF Still, Box
  <2>2. Apart' /\ Whole'
    BY <1>0, <1>4, <2>1 DEF Apart, Whole, Still
  <2> QED
    BY <1>0, <1>4, <2>2 DEF NoRepeat, Still
<1>5. ASSUME NEW a \in Actors, NEW s \in Slots, Link(a, s) PROVE Apart' /\ Whole' /\ NoRepeat'
  <2>1. /\ item[a] \in Tasks /\ heads'[s] = <<item[a]>> \o heads[s] /\ item'[a] = None
        /\ hold' = hold /\ org' = org /\ UNCHANGED <<created, done>>
        /\ \A r \in Slots : r # s => heads'[r] = heads[r]
        /\ \A b \in Actors : b # a => item'[b] = item[b]
    BY <1>1, <1>5 DEF Link, Set, history
  <2>2. Elems(heads'[s]) = {item[a]} \cup Elems(heads[s])
    BY <1>1, <2>1, ElemFacts
  <2>3. /\ Box(I(a))' = {} /\ Box(H(s))' = Box(I(a)) \cup Box(H(s))
        /\ Box(D(a))' = Box(D(a)) /\ Box(O(a))' = Box(O(a))
    <3>1. /\ Box(I(a)) = {item[a]} /\ Box(I(a))' = {}
      BY <1>0, <1>3, <2>1
    <3>2. Box(H(s))' = Box(I(a)) \cup Box(H(s))
      BY <1>3, <2>2, <3>1
    <3>3. Box(D(a))' = Box(D(a)) /\ Box(O(a))' = Box(O(a))
      BY <1>3, <2>1
    <3> QED
      BY <3>1, <3>2, <3>3
  <2>4. \A p \in Boxes \ {H(s), I(a)} : Box(p)' = Box(p)
    BY <2>1, <2>3, Elsewhere
  <2>5. Apart' /\ Whole'
    <3>1. {H(s), I(a)} \in SUBSET Boxes
      BY <1>3
    <3>2. \A p, q \in {H(s), I(a)} : p # q => Box(p)' \cap Box(q)' = {}
      BY <2>3
    <3>3. \A t : (\E p \in {H(s), I(a)} : t \in Box(p)') <=> (\E p \in {H(s), I(a)} : t \in Box(p))
      BY <2>3
    <3> QED
      BY <1>0, <2>1, <2>4, <3>1, <3>2, <3>3, Moved
  <2>6. Distinct(heads'[s])
    <3>0. /\ Box(I(a)) = {item[a]} \ {None} /\ Box(H(s)) = Elems(heads[s])
          /\ Box(H(s)) \cap Box(I(a)) = {}
      BY <1>3
    <3>1. item[a] \notin Elems(heads[s])
      BY <1>0, <2>1, <3>0
    <3> QED
      BY <1>1, <1>2, <2>1, <3>1, ElemFacts
  <2>7. NoRepeat'
    BY <1>2, <2>1, <2>6 DEF NoRepeat
  <2> QED
    BY <2>5, <2>7
<1>6. ASSUME NEW a \in Actors, Nest(a) PROVE Apart' /\ Whole' /\ NoRepeat'
  <2>0. PICK s \in Slots : TRUE
    BY SlotZero
  <2>1. /\ item[a] \in Tasks /\ hold'[a] = <<item[a]>> \o hold[a] /\ item'[a] = None
        /\ heads' = heads /\ org' = org /\ UNCHANGED <<created, done>>
        /\ \A b \in Actors : b # a => item'[b] = item[b] /\ hold'[b] = hold[b]
    BY <1>1, <1>6 DEF Nest, Set, history
  <2>2. Elems(hold'[a]) = {item[a]} \cup Elems(hold[a])
    BY <1>1, <2>1, ElemFacts
  <2>3. /\ Box(I(a))' = {} /\ Box(D(a))' = Box(I(a)) \cup Box(D(a))
        /\ Box(H(s))' = Box(H(s)) /\ Box(O(a))' = Box(O(a))
    <3>1. /\ Box(I(a)) = {item[a]} /\ Box(I(a))' = {}
      BY <1>0, <1>3, <2>0, <2>1
    <3>2. Box(D(a))' = Box(I(a)) \cup Box(D(a))
      BY <1>3, <2>0, <2>2, <3>1
    <3>3. Box(H(s))' = Box(H(s)) /\ Box(O(a))' = Box(O(a))
      BY <1>3, <2>1
    <3> QED
      BY <3>1, <3>2, <3>3
  <2>4. \A p \in Boxes \ {D(a), I(a)} : Box(p)' = Box(p)
    BY <2>1, <2>3, Elsewhere
  <2>5. Apart' /\ Whole'
    <3>1. {D(a), I(a)} \in SUBSET Boxes
      BY <1>3, <2>0
    <3>2. \A p, q \in {D(a), I(a)} : p # q => Box(p)' \cap Box(q)' = {}
      BY <2>3
    <3>3. \A t : (\E p \in {D(a), I(a)} : t \in Box(p)') <=> (\E p \in {D(a), I(a)} : t \in Box(p))
      BY <2>3
    <3> QED
      BY <1>0, <2>1, <2>4, <3>1, <3>2, <3>3, Moved
  <2>6. Distinct(hold'[a])
    <3>0. /\ Box(I(a)) = {item[a]} \ {None} /\ Box(D(a)) = Elems(hold[a])
          /\ Box(D(a)) \cap Box(I(a)) = {}
      BY <1>3, <2>0
    <3>1. item[a] \notin Elems(hold[a])
      BY <1>0, <2>1, <3>0
    <3> QED
      BY <1>1, <1>2, <2>1, <3>1, ElemFacts
  <2>7. NoRepeat'
    BY <1>2, <2>1, <2>6 DEF NoRepeat
  <2> QED
    BY <2>5, <2>7
<1>7. ASSUME NEW a \in Actors, NEW s \in Slots, Detach(a, s) PROVE Apart' /\ Whole' /\ NoRepeat'
  <2>1. /\ hold[a] = << >> /\ hold'[a] = heads[s] /\ heads'[s] = << >>
        /\ item' = item /\ org' = org /\ UNCHANGED <<created, done>>
        /\ \A r \in Slots : r # s => heads'[r] = heads[r]
        /\ \A b \in Actors : b # a => hold'[b] = hold[b]
    BY <1>1, <1>7 DEF Detach, Set, history
  <2>2. Elems(hold[a]) = {} /\ Elems(heads'[s]) = {}
    BY <2>1, ElemFacts
  <2>3. /\ Box(D(a)) = {} /\ Box(H(s))' = {} /\ Box(D(a))' = Box(H(s))
        /\ Box(I(a))' = Box(I(a)) /\ Box(O(a))' = Box(O(a))
    BY <1>3, <2>1, <2>2
  <2>4. \A p \in Boxes \ {H(s), D(a)} : Box(p)' = Box(p)
    BY <2>1, <2>3, Elsewhere
  <2>5. Apart' /\ Whole'
    <3>1. {H(s), D(a)} \in SUBSET Boxes
      BY <1>3
    <3>2. \A p, q \in {H(s), D(a)} : p # q => Box(p)' \cap Box(q)' = {}
      BY <2>3
    <3>3. \A t : (\E p \in {H(s), D(a)} : t \in Box(p)') <=> (\E p \in {H(s), D(a)} : t \in Box(p))
      BY <2>3
    <3> QED
      BY <1>0, <2>1, <2>4, <3>1, <3>2, <3>3, Moved
  <2>7. NoRepeat'
    BY <1>2, <2>1, ElemFacts DEF NoRepeat
  <2> QED
    BY <2>5, <2>7
<1>8. ASSUME NEW a \in Actors, NEW s \in Slots, Split(a, s) PROVE Apart' /\ Whole' /\ NoRepeat'
  <2>1. /\ hold[a] # << >> /\ org[a] = << >> /\ org'[a] = heads[s]
        /\ heads'[s] = Tail(hold[a]) /\ hold'[a] = <<Head(hold[a])>>
        /\ item' = item /\ UNCHANGED <<created, done>>
        /\ \A r \in Slots : r # s => heads'[r] = heads[r]
        /\ \A b \in Actors : b # a => hold'[b] = hold[b] /\ org'[b] = org[b]
    BY <1>1, <1>8 DEF Split, Set, history
  <2>2. /\ Elems(hold[a]) = {Head(hold[a])} \cup Elems(heads'[s])
        /\ Elems(hold'[a]) = {Head(hold[a])}
        /\ Head(hold[a]) \notin Elems(heads'[s])
        /\ Distinct(heads'[s]) /\ Distinct(hold'[a])
    <3>1. Head(hold[a]) \in Tasks
      BY <1>1, <2>1, ListFacts
    <3> QED
      BY <1>1, <1>2, <2>1, <3>1, ElemFacts
  <2>3. /\ Box(O(a)) = {} /\ Box(O(a))' = Box(H(s)) /\ Box(I(a))' = Box(I(a))
        /\ Box(D(a)) = Box(D(a))' \cup Box(H(s))' /\ Box(D(a))' \cap Box(H(s))' = {}
    <3>1. Elems(org[a]) = {}
      BY <2>1, ElemFacts
    <3>2. Box(O(a)) = {} /\ Box(O(a))' = Box(H(s)) /\ Box(I(a))' = Box(I(a))
      BY <1>3, <2>1, <3>1
    <3>3. /\ Box(D(a)) = Elems(hold[a]) /\ Box(D(a))' = Elems(hold'[a])
          /\ Box(H(s))' = Elems(heads'[s])
      BY <1>3
    <3> QED
      BY <2>2, <3>2, <3>3
  <2>4. \A p \in Boxes \ {H(s), D(a), O(a)} : Box(p)' = Box(p)
    BY <2>1, <2>3, Elsewhere
  <2>5. Apart' /\ Whole'
    <3>1. {H(s), D(a), O(a)} \in SUBSET Boxes
      BY <1>3
    <3>2. Box(H(s)) \cap Box(D(a)) = {}
      BY <1>3
    <3>3. \A p, q \in {H(s), D(a), O(a)} : p # q => Box(p)' \cap Box(q)' = {}
      BY <2>3, <3>2
    <3>4. \A t : (\E p \in {H(s), D(a), O(a)} : t \in Box(p)')
                   <=> (\E p \in {H(s), D(a), O(a)} : t \in Box(p))
      BY <2>3
    <3> QED
      BY <1>0, <2>1, <2>4, <3>1, <3>3, <3>4, Moved
  <2>7. NoRepeat'
    BY <1>2, <2>1, <2>2 DEF NoRepeat
  <2> QED
    BY <2>5, <2>7
<1>9. ASSUME NEW a \in Actors, NEW s \in Slots, Return(a, s) PROVE Apart' /\ Whole' /\ NoRepeat'
  <2>1. /\ org[a] # << >> /\ org'[a] = Tail(org[a])
        /\ heads'[s] = <<Head(org[a])>> \o heads[s]
        /\ item' = item /\ hold' = hold /\ UNCHANGED <<created, done>>
        /\ \A r \in Slots : r # s => heads'[r] = heads[r]
        /\ \A b \in Actors : b # a => org'[b] = org[b]
    BY <1>1, <1>9 DEF Return, Set, history
  <2>2. /\ Head(org[a]) \in Tasks
        /\ Elems(org[a]) = {Head(org[a])} \cup Elems(org'[a])
        /\ Head(org[a]) \notin Elems(org'[a])
        /\ Distinct(org'[a])
        /\ Elems(heads'[s]) = {Head(org[a])} \cup Elems(heads[s])
    <3>1. Head(org[a]) \in Tasks
      BY <1>1, <2>1, ListFacts
    <3> QED
      BY <1>1, <1>2, <2>1, <3>1, ElemFacts
  <2>3. /\ Box(O(a)) = {Head(org[a])} \cup Box(O(a))' /\ Head(org[a]) \notin Box(O(a))'
        /\ Box(H(s))' = {Head(org[a])} \cup Box(H(s)) /\ Box(D(a))' = Box(D(a))
        /\ Box(I(a))' = Box(I(a))
    BY <1>3, <2>1, <2>2
  <2>4. \A p \in Boxes \ {H(s), O(a)} : Box(p)' = Box(p)
    BY <2>1, <2>3, Elsewhere
  <2>5. Apart' /\ Whole'
    <3>1. {H(s), O(a)} \in SUBSET Boxes
      BY <1>3
    <3>2. Box(H(s)) \cap Box(O(a)) = {}
      BY <1>3
    <3>3. \A p, q \in {H(s), O(a)} : p # q => Box(p)' \cap Box(q)' = {}
      BY <2>3, <3>2
    <3>4. \A t : (\E p \in {H(s), O(a)} : t \in Box(p)') <=> (\E p \in {H(s), O(a)} : t \in Box(p))
      BY <2>3
    <3> QED
      BY <1>0, <2>1, <2>4, <3>1, <3>3, <3>4, Moved
  <2>6. Distinct(heads'[s])
    <3>0. /\ Box(O(a)) = Elems(org[a]) /\ Box(H(s)) = Elems(heads[s])
          /\ Box(H(s)) \cap Box(O(a)) = {}
      BY <1>3
    <3>1. Head(org[a]) \notin Elems(heads[s])
      BY <2>2, <3>0
    <3> QED
      BY <1>1, <1>2, <2>1, <2>2, <3>1, ElemFacts
  <2>7. NoRepeat'
    BY <1>2, <2>1, <2>2, <2>6 DEF NoRepeat
  <2> QED
    BY <2>5, <2>7
<1>10. ASSUME NEW a \in Actors, NEW t \in Tasks, Enter(a, t) PROVE Apart' /\ Whole' /\ NoRepeat'
  <2>0. PICK s \in Slots : TRUE
    BY SlotZero
  <2>1. /\ item[a] = None /\ item'[a] = t /\ t \notin created
        /\ heads' = heads /\ hold' = hold /\ org' = org
        /\ created' = created \cup {t} /\ UNCHANGED done
        /\ \A b \in Actors : b # a => item'[b] = item[b]
    BY <1>1, <1>10 DEF Enter, Set
  <2>2. /\ Box(I(a))' = Box(I(a)) \cup {t} /\ Box(D(a))' = Box(D(a))
        /\ Box(H(s))' = Box(H(s)) /\ Box(O(a))' = Box(O(a))
    BY <1>0, <1>3, <2>1
  <2>3. \A p \in Boxes \ {I(a)} : Box(p)' = Box(p)
    BY <2>1, <2>2, Elsewhere
  <2>4. I(a) \in Boxes
    BY <1>3, <2>0
  <2>5. Apart' /\ Whole'
    BY <1>0, <2>1, <2>2, <2>3, <2>4, Entered
  <2> QED
    BY <1>0, <2>1, <2>5 DEF NoRepeat
<1>11. ASSUME NEW a \in Actors, Drop(a) PROVE Apart' /\ Whole' /\ NoRepeat'
  <2>0. PICK s \in Slots : TRUE
    BY SlotZero
  <2>1. /\ hold[a] # << >> /\ hold'[a] = Tail(hold[a])
        /\ heads' = heads /\ item' = item /\ org' = org
        /\ done' = done \cup {Head(hold[a])} /\ UNCHANGED created
        /\ \A b \in Actors : b # a => hold'[b] = hold[b]
    BY <1>1, <1>11 DEF Drop, Set
  <2>2. /\ Elems(hold[a]) = {Head(hold[a])} \cup Elems(hold'[a])
        /\ Head(hold[a]) \notin Elems(hold'[a]) /\ Distinct(hold'[a])
        /\ Elems(hold[a]) \subseteq Tasks
    BY <1>1, <1>2, <2>1, ElemFacts
  <2>3. /\ Box(D(a))' = Box(D(a)) \ {Head(hold[a])} /\ Box(I(a))' = Box(I(a))
        /\ Box(H(s))' = Box(H(s)) /\ Box(O(a))' = Box(O(a))
    <3>1. Box(D(a)) = Elems(hold[a]) /\ Box(D(a))' = Elems(hold'[a])
      BY <1>3, <2>0
    <3>2. Box(D(a))' = Box(D(a)) \ {Head(hold[a])}
      BY <2>2, <3>1
    <3>3. Box(H(s))' = Box(H(s)) /\ Box(O(a))' = Box(O(a)) /\ Box(I(a))' = Box(I(a))
      BY <1>3, <2>1
    <3> QED
      BY <3>2, <3>3
  <2>4. \A p \in Boxes \ {D(a)} : Box(p)' = Box(p)
    BY <2>1, <2>3, Elsewhere
  <2>5. D(a) \in Boxes /\ Head(hold[a]) \in Box(D(a)) /\ Box(D(a)) \subseteq Tasks
    BY <1>3, <2>0, <2>2
  <2>6. Apart' /\ Whole'
    BY <1>0, <2>1, <2>3, <2>4, <2>5, Left
  <2> QED
    BY <1>2, <2>1, <2>2, <2>6 DEF NoRepeat
<1> QED
  BY <1>4, <1>5, <1>6, <1>7, <1>8, <1>9, <1>10, <1>11, Effects

\* task_count is the number of tasks in the boxes: only new_task() and the end of a task
\* change either.
LEMMA TaskCountStep ==
    ASSUME Shape, Books, Next
    PROVE  CountOK'
<1>0. /\ ChainsOK /\ Apart /\ Whole /\ NoRepeat /\ RestOK
      /\ IsFiniteSet(created) /\ taskCount = Cardinality(created \ done) /\ done \subseteq created
  BY DEF Shape, Books, CountOK
<1>1. IsFiniteSet(created \ done) /\ Cardinality(created \ done) \in Nat
  BY <1>0, FS_Subset, FS_CardinalityType
<1>2. CASE UNCHANGED <<created, done, taskCount>>
  BY <1>0, <1>2 DEF CountOK
<1>3. ASSUME NEW a \in Actors, NEW t \in Tasks, Enter(a, t) PROVE CountOK'
  <2>1. /\ created' = created \cup {t} /\ done' = done /\ t \notin created
        /\ taskCount' = taskCount + 1
    BY <1>3 DEF Enter
  <2>2. created' \ done' = (created \ done) \cup {t} /\ t \notin created \ done
    BY <1>0, <2>1
  <2>3. Cardinality(created' \ done') = Cardinality(created \ done) + 1
    BY <1>1, <2>2, FS_AddElement
  <2>4. IsFiniteSet(created')
    BY <1>0, <2>1, FS_AddElement
  <2> QED
    BY <1>0, <2>1, <2>3, <2>4 DEF CountOK
<1>4. ASSUME NEW a \in Actors, Drop(a) PROVE CountOK'
  <2>1. /\ created' = created /\ done' = done \cup {Head(hold[a])}
        /\ taskCount' = taskCount - 1 /\ hold[a] # << >> /\ hold[a] \in Seq(Tasks)
    BY <1>0, <1>4, BoxTypes DEF Drop
  <2>2. Head(hold[a]) \in created \ done
    <3>1. Head(hold[a]) \in Box(<<"hold", a>>) /\ Head(hold[a]) \in Tasks /\ <<"hold", a>> \in Boxes
      <4>1. Elems(hold[a]) = {Head(hold[a])} \cup Elems(Tail(hold[a])) /\ Head(hold[a]) \in Tasks
        BY <2>1, ElemFacts, ListFacts
      <4> QED
        BY <4>1, BoxIs
    <3> QED
      BY <1>0, <3>1 DEF Whole
  <2>3. created' \ done' = (created \ done) \ {Head(hold[a])}
    BY <2>1
  <2>4. Cardinality(created' \ done') = Cardinality(created \ done) - 1
    BY <1>1, <2>2, <2>3, FS_RemoveElement
  <2> QED
    BY <1>0, <2>1, <2>2, <2>4 DEF CountOK
<1> QED
  BY <1>2, <1>3, <1>4, Effects DEF Still, Link, Nest, Detach, Split, Return, history

-----------------------------------------------------------------------------
(* Where the lists are empty                                                  *)

\* Every step keeps each list empty where the code relies on it.
LEMMA EmptyStep ==
    ASSUME Shape, Books, Next
    PROVE  EmptyOK'
<1> USE DEF PollPCs, DelayPCs, QueuePCs, WakePCs, ExecPCs, JoinPCs, ReturnPCs
<1>0. /\ ControlOK /\ ChainsOK /\ ScanOK /\ OwnerOK
      /\ pc \in [Actors -> PCs] /\ ret \in [Actors -> {"idle", "exec", "finish"}]
      /\ \A a \in Actors : IdleOK(a) /\ slot[a] \in Slots
      /\ heads \in [Slots -> Seq(Tasks)] /\ hold \in [Actors -> Seq(Tasks)]
      /\ org \in [Actors -> Seq(Tasks)] /\ item \in [Actors -> Tasks \cup {None}]
  BY DEF Shape, Books, EmptyOK, ControlOK, ChainsOK, ScanOK
<1>1. \A a \in Actors : /\ hold[a] \in Seq(Tasks) /\ org[a] \in Seq(Tasks)
                        /\ Set(hold, a, hold[a]) = hold /\ Set(org, a, org[a]) = org
                        /\ Set(item, a, item[a]) = item /\ Set(ret, a, ret[a]) = ret
  BY <1>0 DEF Set
\* a step of one actor
<1>2. ASSUME NEW a \in Actors, NEW l, NEW h, NEW o, NEW i, NEW r,
             Goto(a, l), hold' = Set(hold, a, h), org' = Set(org, a, o),
             item' = Set(item, a, i), ret' = Set(ret, a, r), UNCHANGED live,
             i # None => l \in QueuePCs,
             o # << >> => l = "repush",
             h # << >> => l \in {"putback"} \cup ExecPCs \cup ReturnPCs,
             l \in ReturnPCs /\ r = "idle" => h = << >>,
             l \in {"repush", "look", "lookfetch"} => r = "exec",
             l \in {"cas", "chain", "late"} => live,
             a \in Workers /\ l \in ExecPCs \cup ReturnPCs => Tail(h) = << >>
      PROVE  EmptyOK'
  <2>1. pc'[a] = l /\ \A b \in Actors : b # a => pc'[b] = pc[b]
    BY <1>0, <1>2, Jump
  <2>2. /\ hold'[a] = h /\ org'[a] = o /\ item'[a] = i /\ ret'[a] = r
        /\ \A b \in Actors : b # a => /\ hold'[b] = hold[b] /\ org'[b] = org[b]
                                      /\ item'[b] = item[b] /\ ret'[b] = ret[b]
    BY <1>0, <1>2 DEF Set
  <2>3. IdleOK(a)'
    BY <1>2, <2>1, <2>2 DEF IdleOK
  <2>4. ASSUME NEW b \in Actors, b # a PROVE IdleOK(b)'
    <3>1. IdleOK(b) /\ UNCHANGED live
      BY <1>0, <1>2
    <3> QED
      BY <2>1, <2>2, <2>4, <3>1 DEF IdleOK
  <2> QED
    BY <2>3, <2>4 DEF EmptyOK
\* a step of one actor that changes none of its lists
<1>3. ASSUME NEW a \in Actors, NEW l, NEW r, Goto(a, l), UNCHANGED <<hold, org, item, live>>,
             ret' = Set(ret, a, r),
             item[a] # None => l \in QueuePCs,
             org[a] # << >> => l = "repush",
             hold[a] # << >> => l \in {"putback"} \cup ExecPCs \cup ReturnPCs,
             l \in ReturnPCs /\ r = "idle" => hold[a] = << >>,
             l \in {"repush", "look", "lookfetch"} => r = "exec",
             l \in {"cas", "chain", "late"} => live,
             a \in Workers /\ l \in ExecPCs \cup ReturnPCs => Tail(hold[a]) = << >>
      PROVE  EmptyOK'
  <2>1. hold' = Set(hold, a, hold[a]) /\ org' = Set(org, a, org[a]) /\ item' = Set(item, a, item[a])
    BY <1>1, <1>3
  <2> QED
    BY <1>2, <1>3, <2>1
\* a step of a pool thread that has nothing in its hands
<1>4. ASSUME NEW w \in Workers, NEW l, NEW r, Goto(w, l), UNCHANGED <<hold, org, item, live>>,
             ret' = Set(ret, w, r),
             pc[w] \notin {"putback"} \cup ExecPCs \cup ReturnPCs,
             l \notin ExecPCs \cup ReturnPCs
      PROVE  EmptyOK'
  <2>1. item[w] = None /\ org[w] = << >> /\ hold[w] = << >> /\ w \in Actors
    BY <1>0, <1>4, ActorsAre DEF IdleOK
  <2> QED
    BY <1>3, <1>4, <2>1
<1>5. CASE UNCHANGED <<hold, org, item, live, pc, ret>>
  BY <1>0, <1>5 DEF EmptyOK, IdleOK
<1>6. ASSUME NEW a \in Actors, PushStep(a) PROVE EmptyOK'
  <2>0. /\ IdleOK(a) /\ pc[a] \in QueuePCs /\ item[a] # None /\ item[a] \in Tasks
        /\ org[a] = << >> /\ ret' = Set(ret, a, ret[a]) /\ UNCHANGED live
        /\ a \in Workers => ret[a] # "idle"
        /\ a \in Workers => live
    BY <1>0, <1>1, <1>6 DEF PushStep, QueueTask, QueueCas, QueueChain, QueueLate, ChainsOK, IdleOK, pool,
       ControlOK, OwnerOK
  <2>1. CASE QueueTask(a)
    <3>1. CASE terminated /\ ~live
      <4>1. a = Main
        BY <2>0, <3>1, ActorsAre
      <4>2. /\ hold' = Set(hold, a, <<item[a]>> \o hold[a]) /\ item' = Set(item, a, None)
            /\ Goto(a, "exec") /\ org' = Set(org, a, << >>)
        BY <1>1, <2>0, <2>1, <3>1 DEF QueueTask
      <4> QED
        BY <1>2, <2>0, <4>1, <4>2, ActorsAre
    <3>2. CASE ~(terminated /\ ~live)
      <4>1. \E l \in {"cas", "late"} : Goto(a, l)
        BY <2>1, <3>2 DEF QueueTask
      <4>2. live
        BY <1>0, <3>2 DEF OwnerOK
      <4>3. UNCHANGED <<hold, org, item>>
        BY <2>1, <3>2 DEF QueueTask
      <4>4. a \in Workers => Tail(hold[a]) = << >>
        BY <2>0 DEF IdleOK
      <4>5. ret[a] = "idle" => hold[a] = << >>
        BY <2>0 DEF IdleOK
      <4> QED
        BY <1>3, <2>0, <4>1, <4>2, <4>3, <4>4, <4>5
    <3> QED
      BY <3>1, <3>2
  <2>2. CASE UNCHANGED <<hold, org, item>> /\ \E l \in {"cas", "chain"} : Goto(a, l) /\ live
    <3>1. /\ a \in Workers => Tail(hold[a]) = << >>
          /\ ret[a] = "idle" => hold[a] = << >>
      BY <2>0 DEF IdleOK
    <3> QED
      BY <1>3, <2>0, <2>2, <3>1
  <2>3. CASE UNCHANGED <<hold, org>> /\ item' = Set(item, a, None)
             /\ \E l \in {"gate", ret[a]} : Goto(a, l)
    <3>1. /\ a \in Workers => Tail(hold[a]) = << >>
          /\ ret[a] = "idle" => hold[a] = << >>
          /\ hold' = Set(hold, a, hold[a]) /\ org' = Set(org, a, << >>)
          /\ ret[a] \in {"idle", "exec", "finish"}
      BY <1>0, <1>1, <2>0, <2>3 DEF IdleOK
    <3> QED
      BY <1>2, <2>0, <2>3, <3>1
  <2>4. QueueCas(a) \/ QueueChain(a) \/ QueueLate(a) =>
            \/ UNCHANGED <<hold, org, item>> /\ \E l \in {"cas", "chain"} : Goto(a, l) /\ live
            \/ UNCHANGED <<hold, org>> /\ item' = Set(item, a, None)
               /\ \E l \in {"gate", ret[a]} : Goto(a, l)
    BY <2>0 DEF QueueCas, QueueChain, QueueLate, Push, chains, IdleOK
  <2> QED
    BY <1>6, <2>1, <2>2, <2>3, <2>4 DEF PushStep
<1>7. ASSUME NEW a \in Actors, WakeStep(a) PROVE EmptyOK'
  <2>0. /\ IdleOK(a) /\ pc[a] \in WakePCs /\ UNCHANGED <<hold, org, item, live>>
        /\ ret' = Set(ret, a, ret[a]) /\ ret[a] \in {"idle", "exec", "finish"}
        /\ \E l \in {"bump", "notify", ret[a]} : Goto(a, l)
    BY <1>0, <1>1, <1>7 DEF WakeStep, WakeGate, BumpEpoch, chains, pool
  <2>1. /\ item[a] = None /\ org[a] = << >>
        /\ ret[a] = "idle" => hold[a] = << >>
        /\ a \in Workers => Tail(hold[a]) = << >>
    BY <2>0 DEF IdleOK
  <2> QED
    BY <1>3, <2>0, <2>1
<1>8. ASSUME NEW a \in Actors, Exec(a) PROVE EmptyOK'
  <2>0. /\ IdleOK(a) /\ UNCHANGED <<hold, org, live>> /\ hold[a] # << >>
        /\ item[a] = None /\ org[a] = << >> /\ (a \in Workers => Tail(hold[a]) = << >>)
        /\ hold' = Set(hold, a, hold[a]) /\ org' = Set(org, a, << >>)
    <3>1. IdleOK(a) /\ UNCHANGED <<hold, org, live>> /\ pc[a] = "exec"
      BY <1>0, <1>8 DEF Exec, chains, pool
    <3>2. hold[a] # << >>
      BY <1>0, <3>1 DEF ChainsOK
    <3>3. item[a] = None /\ org[a] = << >> /\ (a \in Workers => Tail(hold[a]) = << >>)
      BY <3>1 DEF IdleOK
    <3> QED
      BY <1>1, <3>1, <3>2, <3>3
  <2>1. CASE Goto(a, "finish") /\ UNCHANGED <<item, ret>>
    BY <1>1, <1>3, <2>0, <2>1
  <2>2. CASE \E t : Goto(a, "queue") /\ item' = Set(item, a, t) /\ ret' = Set(ret, a, "finish")
    BY <1>2, <2>0, <2>2
  <2> QED
    BY <1>8, <2>1, <2>2 DEF Exec, NewTask, chains
<1>9. ASSUME NEW a \in Actors, Finish(a) PROVE EmptyOK'
  <2>0. /\ IdleOK(a) /\ UNCHANGED <<org, item, live>> /\ ret' = Set(ret, a, ret[a])
        /\ hold' = Set(hold, a, Tail(hold[a])) /\ pc[a] = "finish"
        /\ org' = Set(org, a, org[a]) /\ item' = Set(item, a, item[a])
        /\ Goto(a, IF a = Main THEN AfterOwnTask ELSE "leave")
    BY <1>0, <1>1, <1>9 DEF Finish, pool
  <2>1. item[a] = None /\ org[a] = << >> /\ (a \in Workers => Tail(hold[a]) = << >>)
    BY <2>0 DEF IdleOK
  <2>2. CASE a \in Workers
    BY <1>2, <2>0, <2>1, <2>2, ActorsAre
  <2>3. CASE a = Main
    <3>1. CASE Tail(hold[Main]) = << >>
      <4>1. \E l \in {"drain", "idle"} : Goto(a, l)
        BY <2>0, <2>3, <3>1 DEF AfterOwnTask
      <4> QED
        BY <1>2, <2>0, <2>1, <2>3, <3>1, <4>1
    <3>2. CASE Tail(hold[Main]) # << >>
      <4>1. \E l \in {"exec", "finish"} : Goto(a, l)
        BY <2>0, <2>3, <3>2 DEF AfterOwnTask
      <4> QED
        BY <1>2, <2>0, <2>1, <2>3, <4>1, ActorsAre
    <3> QED
      BY <3>1, <3>2
  <2> QED
    BY <2>2, <2>3, ActorsAre
<1>10. ASSUME NEW w \in Workers, PollStep(w) PROVE EmptyOK'
  <2>0. /\ w \in Actors /\ IdleOK(w) /\ slot[w] \in Slots /\ UNCHANGED live
        /\ hold[w] \in Seq(Tasks) /\ org[w] \in Seq(Tasks)
    BY <1>0, <1>1, <1>10, ActorsAre DEF PollStep, Fetch, Take, PutBack, Repush, Look, pool
  <2>1. CASE Fetch(w, "fetch", "take", "miss")
    <3>1. UNCHANGED <<hold, org, item, live, ret>> /\ pc[w] = "fetch"
      BY <2>1 DEF Fetch, chains, pool
    <3>2. UNCHANGED pc \/ \E l \in {"take", "miss"} : Goto(w, l)
      BY <2>1 DEF Fetch
    <3>3. ret' = Set(ret, w, ret[w])
      BY <1>1, <2>0, <3>1
    <3> QED
      BY <1>4, <1>5, <3>1, <3>2, <3>3
  <2>2. CASE Take(w)
    <3>1. item[w] = None /\ org[w] = << >> /\ pc[w] = "take"
      BY <2>0, <2>2 DEF IdleOK, Take
    <3>2. /\ hold' = Set(hold, w, heads[slot[w]]) /\ org' = Set(org, w, << >>)
          /\ item' = Set(item, w, None) /\ ret' = Set(ret, w, ret[w])
          /\ Goto(w, IF heads[slot[w]] = << >> THEN "leave" ELSE "putback")
      BY <1>1, <2>0, <2>2, <3>1 DEF Take
    <3> QED
      BY <1>2, <2>0, <3>2
  <2>3. CASE PutBack(w)
    <3>1. item[w] = None /\ pc[w] = "putback" /\ hold[w] # << >>
      BY <1>0, <2>0, <2>3 DEF IdleOK, PutBack, ChainsOK
    <3>2. /\ hold' = Set(hold, w, <<Head(hold[w])>>) /\ org' = Set(org, w, heads[slot[w]])
          /\ item' = Set(item, w, None) /\ ret' = Set(ret, w, "exec")
          /\ Goto(w, IF heads[slot[w]] = << >> THEN "look" ELSE "repush")
      BY <1>1, <2>0, <2>3, <3>1 DEF PutBack
    <3>3. Tail(<<Head(hold[w])>>) = << >>
      BY <2>0, <3>1, ListFacts, ElemFacts
    <3> QED
      BY <1>2, <2>0, <3>2, <3>3
  <2>4. CASE Repush(w)
    <3>1. item[w] = None /\ pc[w] = "repush" /\ Tail(hold[w]) = << >> /\ ret[w] = "exec"
      BY <2>0, <2>4, <1>10 DEF IdleOK, Repush
    <3>2. /\ hold' = Set(hold, w, hold[w]) /\ org' = Set(org, w, Tail(org[w]))
          /\ item' = Set(item, w, None) /\ ret' = Set(ret, w, "exec")
          /\ Goto(w, IF Tail(org[w]) = << >> THEN "gate" ELSE "repush")
      BY <1>1, <2>0, <2>4, <3>1 DEF Repush
    <3> QED
      BY <1>2, <2>0, <3>1, <3>2
  <2>5. CASE Look(w) \/ Fetch(w, "lookfetch", "gate", "exec")
    <3>1. UNCHANGED <<hold, org, item, live, ret>> /\ pc[w] \in {"look", "lookfetch"}
      BY <2>5 DEF Fetch, Look, chains, pool
    <3>2. UNCHANGED pc \/ \E l \in {"gate", "exec", "lookfetch"} : Goto(w, l)
      BY <2>5 DEF Fetch, Look, StartFetch
    <3>3. ret' = Set(ret, w, ret[w])
      BY <1>1, <2>0, <3>1
    <3>4. item[w] = None /\ org[w] = << >> /\ Tail(hold[w]) = << >> /\ ret[w] = "exec"
      BY <1>10, <2>0, <3>1 DEF IdleOK
    <3> QED
      BY <1>3, <1>5, <2>0, <3>1, <3>2, <3>3, <3>4
  <2> QED
    BY <1>10, <2>1, <2>2, <2>3, <2>4, <2>5 DEF PollStep
<1>11. ASSUME NEW w \in Workers, DelayStep(w) PROVE EmptyOK'
  <2>1. UNCHANGED <<hold, org, item, live, ret>> /\ pc[w] \in DelayPCs
    BY <1>11 DEF DelayStep, DelayLoop, DelaySpin, ReadEpoch, Recheck, EpochWait, Fetch, chains, pool
  <2>2. UNCHANGED pc \/ \E l \in DelayPCs : Goto(w, l)
    BY <1>11 DEF DelayStep, DelayLoop, DelaySpin, ReadEpoch, Recheck, EpochWait, Fetch, StartFetch
  <2>3. ret' = Set(ret, w, ret[w])
    BY <1>1, <2>1, ActorsAre
  <2> QED
    BY <1>4, <1>5, <2>1, <2>2, <2>3
<1>12. ASSUME NEW w \in Workers, GuardStep(w) PROVE EmptyOK'
  <2>1. UNCHANGED <<hold, org, item, live>> /\ pc[w] \in {"loop", "delay", "unreg", "leave", "miss"}
    BY <1>12 DEF GuardStep, ThreadLoop, DelayEnter, Unregister, LeavePoll, chains, pool
  <2>2. \E l \in {"exited", "fetch", "loop", "d0", "delay"} : Goto(w, l)
    BY <1>12 DEF GuardStep, ThreadLoop, StartFetch, DelayEnter, Unregister, LeavePoll
  <2>3. \E r : ret' = Set(ret, w, r)
    <3>1. UNCHANGED ret \/ ret' = Set(ret, w, "idle")
      BY <1>12 DEF GuardStep, ThreadLoop, DelayEnter, Unregister, LeavePoll
    <3> QED
      BY <1>1, <3>1, ActorsAre
  <2> QED
    BY <1>4, <2>1, <2>2, <2>3
<1>13. ASSUME NEW a \in Actors, NotifyOne(a) PROVE EmptyOK'
  <2>0. /\ IdleOK(a) /\ pc[a] = "notify" /\ UNCHANGED <<hold, org, item, live, ret>>
        /\ ret' = Set(ret, a, ret[a]) /\ ret[a] \in {"idle", "exec", "finish"}
    BY <1>0, <1>1, <1>13 DEF NotifyOne, chains, pool
  <2>1. /\ item[a] = None /\ org[a] = << >>
        /\ ret[a] = "idle" => hold[a] = << >>
        /\ a \in Workers => Tail(hold[a]) = << >>
    BY <2>0 DEF IdleOK
  <2>2. CASE Goto(a, ret[a])
    BY <1>3, <2>0, <2>1, <2>2
  <2>3. ASSUME NEW w \in Asleep, pc' = [pc EXCEPT ![a] = ret[a], ![w] = "wait"]
        PROVE  EmptyOK'
    <3>1. w \in Workers /\ w \in Actors /\ w # a /\ pc[w] = "asleep"
      BY <2>0, ActorsAre DEF Asleep
    <3>2. pc'[a] = ret[a] /\ pc'[w] = "wait" /\ \A b \in Actors \ {a, w} : pc'[b] = pc[b]
      BY <1>0, <2>3, <3>1
    <3>3. IdleOK(a)'
      BY <2>0, <2>1, <3>2 DEF IdleOK
    <3>4. IdleOK(w)'
      BY <1>0, <2>0, <3>1, <3>2 DEF IdleOK
    <3>5. ASSUME NEW b \in Actors \ {a, w} PROVE IdleOK(b)'
      BY <1>0, <2>0, <3>2, <3>5 DEF IdleOK
    <3> QED
      BY <3>3, <3>4, <3>5 DEF EmptyOK
  <2> QED
    BY <1>13, <2>2, <2>3 DEF NotifyOne
<1>14. CASE NotifyAll(Main)
  <2>1. /\ UNCHANGED <<hold, org, item, live, ret>> /\ pc[Main] = "notifyall"
        /\ \A b \in Actors : pc'[b] = IF b = Main THEN "join"
                                      ELSE IF b \in Asleep THEN "wait" ELSE pc[b]
    BY <1>14 DEF NotifyAll, chains, pool
  <2>2. ASSUME NEW b \in Actors PROVE IdleOK(b)'
    <3>1. CASE b = Main
      BY <1>0, <2>1, <3>1, ActorsAre DEF IdleOK
    <3>2. CASE b # Main /\ b \in Asleep
      BY <1>0, <2>1, <3>2 DEF IdleOK, Asleep
    <3>3. CASE b # Main /\ b \notin Asleep
      BY <1>0, <2>1, <3>3 DEF IdleOK
    <3> QED
      BY <3>1, <3>2, <3>3
  <2> QED
    BY <2>2 DEF EmptyOK
<1>15. CASE BumpEpoch(Main, "bumpall", "notifyall") \/ Join \/ Terminate
  <2>1. UNCHANGED <<hold, org, item, live, ret>> /\ pc[Main] \in {"bumpall", "join", "idle"}
    BY <1>15 DEF BumpEpoch, Join, Terminate, chains, pool
  <2>2. \E l \in {"notifyall", "drain", "bumpall"} : Goto(Main, l)
    BY <1>15 DEF BumpEpoch, Join, Terminate
  <2>3. ret' = Set(ret, Main, ret[Main]) /\ item[Main] = None /\ org[Main] = << >> /\ hold[Main] = << >>
    BY <1>0, <1>1, <2>1, ActorsAre DEF IdleOK
  <2> QED
    BY <1>3, <2>1, <2>2, <2>3, ActorsAre
<1>16. CASE Drain
  <2>1. /\ ret' = Set(ret, Main, ret[Main]) /\ item[Main] = None /\ org[Main] = << >>
        /\ item' = Set(item, Main, None) /\ org' = Set(org, Main, << >>) /\ hold[Main] = << >>
        /\ UNCHANGED <<org, item, ret>>
    BY <1>0, <1>1, <1>16, ActorsAre DEF IdleOK, Drain
  <2>2. CASE /\ hold' = Set(hold, Main, heads[DrainSlot]) /\ UNCHANGED live
             /\ Goto(Main, IF heads[DrainSlot] = << >> THEN "drain" ELSE "exec")
    BY <1>2, <2>1, <2>2, ActorsAre
  <2>3. CASE UNCHANGED hold /\ \E l \in {"drain", "idle"} : Goto(Main, l)
    <3>1. PICK l \in {"drain", "idle"} : Goto(Main, l)
      BY <2>3
    <3>2. pc'[Main] = l /\ \A b \in Actors : b # Main => pc'[b] = pc[b]
      BY <1>0, <3>1, Jump, ActorsAre
    <3>3. \A w \in Workers : pc[w] = "exited"
      BY <1>0, <1>16 DEF OwnerOK, Closing, Drain
    <3>4. ASSUME NEW b \in Actors PROVE IdleOK(b)'
      <4>1. CASE b = Main
        BY <2>1, <2>3, <3>2, <4>1, ActorsAre DEF IdleOK
      <4>2. CASE b \in Workers
        <5>1. pc'[b] = "exited" /\ pc[b] = "exited"
          BY <3>2, <3>3, <4>2, ActorsAre
        <5> QED
          BY <1>0, <2>1, <2>3, <5>1 DEF IdleOK
      <4> QED
        BY <4>1, <4>2, ActorsAre
    <3> QED
      BY <3>4 DEF EmptyOK
  <2> QED
    BY <1>16, <2>2, <2>3 DEF Drain
<1>17. CASE Queue
  <2>1. /\ UNCHANGED <<hold, org, live>> /\ pc[Main] = "idle" /\ Goto(Main, "queue")
        /\ ret' = Set(ret, Main, "idle") /\ \E t : item' = Set(item, Main, t)
    BY <1>17 DEF Queue, NewTask, pool
  <2>2. /\ org[Main] = << >> /\ hold[Main] = << >>
        /\ hold' = Set(hold, Main, << >>) /\ org' = Set(org, Main, << >>)
    BY <1>0, <1>1, <2>1, ActorsAre DEF IdleOK
  <2> QED
    BY <1>2, <2>1, <2>2, ActorsAre
<1>18. CASE Start
  <2>1. /\ UNCHANGED <<hold, org, item, ret>> /\ pc[Main] = "idle" /\ ~live
        /\ \A b \in Actors : pc'[b] = IF b = Main THEN "idle" ELSE "loop"
    BY <1>18 DEF Start
  <2>2. \A w \in Workers : pc[w] = "exited"
    BY <1>0, <2>1 DEF OwnerOK
  <2>3. ASSUME NEW b \in Actors PROVE IdleOK(b)'
    <3>1. pc[b] \in {"idle", "exited"} /\ pc'[b] \in {"idle", "loop"} /\ IdleOK(b)
      BY <1>0, <2>1, <2>2, ActorsAre
    <3> QED
      BY <2>1, <3>1 DEF IdleOK
  <2> QED
    BY <2>3 DEF EmptyOK
<1> QED
  BY <1>6, <1>7, <1>8, <1>9, <1>10, <1>11, <1>12, <1>13, <1>14, <1>15, <1>16, <1>17, <1>18,
     StepClasses

-----------------------------------------------------------------------------
(* The last pass of join()                                                    *)

\* A number has one quotient and one remainder.
LEMMA Division ==
    ASSUME NEW m \in Nat, NEW n \in Nat, NEW q \in Nat, NEW k \in Nat, n < m, k = n + m * q
    PROVE  k % m = n /\ k \div m = q
<1>1. k % m \in 0 .. m - 1 /\ k \div m \in Nat /\ k = m * (k \div m) + (k % m)
  OBVIOUS
<1>2. PICK d \in Nat, r \in Nat : d = k \div m /\ r = k % m /\ r < m /\ k = m * d + r
  BY <1>1
<1>3. ASSUME NEW x \in Nat, NEW y \in Nat, x + 1 <= y PROVE m * x + m <= m * y
  <2>1. (x + 1) * m <= y * m
    BY <1>3, Product
  <2>2. (x + 1) * m = m * x + m /\ y * m = m * y
    OBVIOUS
  <2> QED
    BY <2>1, <2>2
<1>4. m * d \in Nat /\ m * q \in Nat
  OBVIOUS
<1>5. ~(d + 1 <= q)
  <2>1. SUFFICES ASSUME d + 1 <= q PROVE FALSE
    OBVIOUS
  <2>2. m * d + m <= m * q
    BY <1>3, <2>1
  <2> QED
    BY <1>2, <1>4, <2>2
<1>6. ~(q + 1 <= d)
  <2>1. SUFFICES ASSUME q + 1 <= d PROVE FALSE
    OBVIOUS
  <2>2. m * q + m <= m * d
    BY <1>3, <2>1
  <2> QED
    BY <1>2, <1>4, <2>2
<1>7. d = q
  BY <1>5, <1>6
<1> QED
  BY <1>2, <1>4, <1>7

\* A pass visits every head.
LEMMA PassComplete ==
    ASSUME NEW s \in Slots
    PROVE  \E k \in 0 .. ThreadCount * Dup - 1 : s = <<k % ThreadCount, k \div ThreadCount>>
<1> DEFINE k == s[1] + ThreadCount * s[2]
<1>1. /\ s[1] \in Nat /\ s[2] \in Nat /\ s[1] < ThreadCount /\ s[2] + 1 <= Dup
      /\ s = <<s[1], s[2]>> /\ ThreadCount \in Nat /\ Dup \in Nat /\ ThreadCount > 0
  BY ActorsAre DEF Slots
<1>2. k \in Nat /\ k % ThreadCount = s[1] /\ k \div ThreadCount = s[2]
  <2>1. k \in Nat
    BY <1>1
  <2> QED
    BY <1>1, <2>1, Division
<1>3. (s[2] + 1) * ThreadCount <= Dup * ThreadCount
  BY <1>1, Product
<1>4. (s[2] + 1) * ThreadCount = ThreadCount * s[2] + ThreadCount /\ Dup * ThreadCount = ThreadCount * Dup
  BY <1>1
<1>5. ThreadCount * s[2] \in Nat /\ ThreadCount * Dup \in Nat
  BY <1>1
<1>6. k \in 0 .. ThreadCount * Dup - 1
  BY <1>1, <1>2, <1>3, <1>4, <1>5
<1> QED
  BY <1>1, <1>2, <1>6

\* Every step keeps what join() knows about its pass; in particular task_heads is
\* cleared only when every head is empty.
LEMMA DrainStep ==
    ASSUME Shape, Books, Next
    PROVE  DrainOK'
<1> USE DEF PollPCs, DelayPCs, QueuePCs, WakePCs, ExecPCs, JoinPCs, ReturnPCs
<1>0. /\ ControlOK /\ ChainsOK /\ ScanOK /\ OwnerOK /\ DrainOK
      /\ pc \in [Actors -> PCs] /\ ret \in [Actors -> {"idle", "exec", "finish"}]
      /\ \A a \in Actors : IdleOK(a) /\ slot[a] \in Slots
      /\ heads \in [Slots -> Seq(Tasks)] /\ dirty \in BOOLEAN /\ live \in BOOLEAN
  BY DEF Shape, Books, EmptyOK, ControlOK, ChainsOK, ScanOK, RestOK
\* a step of a pool thread, which exists only while the pool is live and not draining
<1>1. ASSUME NEW w \in Workers, pc[w] # "exited", UNCHANGED <<live, dirty>>,
             pc'[Main] = pc[Main], ret'[Main] = ret[Main]
      PROVE  DrainOK'
  <2>1. live /\ ~Closing /\ pc[Main] # "drain"
    BY <1>0, <1>1 DEF OwnerOK, Closing
  <2>2. ~Closing' /\ pc'[Main] # "drain" /\ live'
    BY <1>1, <2>1 DEF Closing
  <2>3. pc'[Main] \in JoinPCs => live'
    BY <2>2
  <2> QED
    BY <2>2, <2>3 DEF DrainOK
\* a step of the owner outside of its pass
<1>2. ASSUME UNCHANGED <<live, dirty>>, pc'[Main] \notin JoinPCs,
             Closing' => Closing /\ pc[Main] # "drain",
             ~live => UNCHANGED heads
      PROVE  DrainOK'
  <2>1. ~live' => \A s \in Slots : heads'[s] = << >>
    BY <1>0, <1>2 DEF DrainOK
  <2>2. live' /\ Closing' /\ pc'[Main] # "drain" => dirty'
    BY <1>0, <1>2 DEF DrainOK
  <2> QED
    BY <1>2, <2>1, <2>2 DEF DrainOK
<1>3. ASSUME NEW a \in Actors, PushStep(a) \/ WakeStep(a) PROVE DrainOK'
  <2>1. /\ UNCHANGED <<live, dirty, ret>> /\ pc[a] \in QueuePCs \cup WakePCs
    BY <1>3 DEF PushStep, WakeStep, QueueTask, QueueCas, QueueChain, QueueLate, WakeGate, BumpEpoch, pool
  <2>2. \E l \in {"cas", "late", "exec", "gate", "chain", "bump", "notify", ret[a]} :
             Goto(a, l) /\ (l = "exec" => l = ret[a] \/ ~live)
    BY <1>3 DEF PushStep, WakeStep, QueueTask, QueueCas, QueueChain, QueueLate, Push, WakeGate, BumpEpoch
  <2>3. CASE a \in Workers
    <3>1. pc'[Main] = pc[Main]
      BY <1>0, <2>2, <2>3, Jump, ActorsAre
    <3> QED
      BY <1>1, <2>1, <2>3, <3>1
  <2>4. CASE a = Main
    <3>1. PICK l \in {"cas", "late", "exec", "gate", "chain", "bump", "notify", ret[Main]} :
             Goto(Main, l) /\ (l = "exec" => l = ret[Main] \/ ~live)
      BY <2>2, <2>4
    <3>2. pc'[Main] = l /\ ret'[Main] = ret[Main] /\ ret[Main] \in {"idle", "finish"}
      BY <1>0, <2>1, <3>1, Jump, ActorsAre DEF ControlOK
    <3>3. ~live => UNCHANGED heads
      <4>1. pc[Main] \in {"cas", "chain", "late"} => live
        BY <1>0, ActorsAre DEF IdleOK
      <4> QED
        BY <1>3, <2>4, <4>1 DEF PushStep, WakeStep, QueueTask, QueueCas, QueueChain, QueueLate,
           WakeGate, BumpEpoch, chains
    <3>4. CASE l = "exec"
      <4>1. ~live /\ ~live' /\ heads' = heads
        BY <2>1, <3>1, <3>2, <3>3, <3>4
      <4> QED
        BY <1>0, <3>2, <3>4, <4>1 DEF DrainOK
    <3>5. CASE l # "exec"
      <4>1. Closing' => Closing /\ pc[Main] # "drain"
        BY <2>1, <2>4, <3>2, <3>5 DEF Closing
      <4> QED
        BY <1>2, <2>1, <3>2, <3>3, <4>1
    <3> QED
      BY <3>4, <3>5
  <2> QED
    BY <2>3, <2>4, ActorsAre
<1>4. ASSUME NEW a \in Actors, NotifyOne(a) PROVE DrainOK'
  <2>1. UNCHANGED <<live, dirty, ret, heads>> /\ pc[a] = "notify"
    BY <1>4 DEF NotifyOne, pool, chains
  <2>2. /\ a # Main => pc'[Main] = pc[Main]
        /\ a = Main => pc'[Main] = ret[Main]
    BY <1>0, <1>4, ActorsAre DEF NotifyOne, Asleep, Goto
  <2>3. CASE a \in Workers
    BY <1>1, <2>1, <2>2, <2>3, ActorsAre
  <2>4. CASE a = Main
    <3>1. ret[Main] \in {"idle", "finish"}
      BY <1>0, ActorsAre DEF ControlOK
    <3>2. Closing' => Closing /\ pc[Main] # "drain"
      BY <2>1, <2>2, <2>4, <3>1 DEF Closing
    <3> QED
      BY <1>2, <2>1, <2>2, <2>4, <3>1, <3>2
  <2> QED
    BY <2>3, <2>4, ActorsAre
<1>5. ASSUME NEW a \in Actors, Exec(a) PROVE DrainOK'
  <2>1. UNCHANGED <<live, dirty, heads>> /\ pc[a] = "exec" /\ \E l \in {"queue", "finish"} : Goto(a, l)
    BY <1>5 DEF Exec, NewTask, pool, chains
  <2>2. CASE a \in Workers
    <3>1. pc'[Main] = pc[Main]
      BY <1>0, <2>1, <2>2, Jump, ActorsAre
    <3>2. ret'[Main] = ret[Main]
      BY <1>0, <1>5, <2>2, ActorsAre DEF Exec, NewTask, Set
    <3> QED
      BY <1>1, <2>1, <2>2, <3>1, <3>2
  <2>3. CASE a = Main
    <3>1. pc'[Main] \in {"queue", "finish"}
      BY <1>0, <2>1, <2>3, Jump, ActorsAre
    <3>2. Closing /\ pc[Main] # "drain"
      BY <2>1, <2>3 DEF Closing
    <3> QED
      BY <1>2, <2>1, <3>1, <3>2
  <2> QED
    BY <2>2, <2>3, ActorsAre
<1>6. ASSUME NEW a \in Actors, Finish(a) PROVE DrainOK'
  <2>1. /\ UNCHANGED <<live, dirty, heads, ret, at>> /\ pc[a] = "finish"
        /\ Goto(a, IF a = Main THEN AfterOwnTask ELSE "leave")
    BY <1>6 DEF Finish, pool, scan
  <2>2. CASE a \in Workers
    <3>1. pc'[Main] = pc[Main]
      BY <1>0, <2>1, <2>2, Jump, ActorsAre
    <3> QED
      BY <1>1, <2>1, <2>2, <3>1
  <2>3. CASE a = Main
    <3>1. pc'[Main] = AfterOwnTask
      BY <1>0, <2>1, <2>3, Jump, ActorsAre
    <3>2. Closing /\ pc[Main] # "drain"
      BY <2>1, <2>3 DEF Closing
    <3>3. live => dirty
      BY <1>0, <3>2 DEF DrainOK
    <3>4. CASE ~live
      BY <1>0, <2>1, <3>1, <3>4 DEF DrainOK, AfterOwnTask
    <3>5. CASE live
      BY <2>1, <3>3, <3>5 DEF DrainOK
    <3> QED
      BY <3>4, <3>5
  <2> QED
    BY <2>2, <2>3, ActorsAre
<1>7. ASSUME NEW w \in Workers, PollStep(w) \/ DelayStep(w) \/ GuardStep(w) PROVE DrainOK'
  <2>1. UNCHANGED <<live, dirty>> /\ pc[w] # "exited"
    BY <1>7 DEF PollStep, DelayStep, GuardStep, Fetch, Take, PutBack, Repush, Look, DelayLoop, DelaySpin,
       ReadEpoch, Recheck, EpochWait, ThreadLoop, DelayEnter, Unregister, LeavePoll, pool
  <2>2. UNCHANGED ret \/ \E r : ret' = Set(ret, w, r)
    BY <1>7 DEF PollStep, DelayStep, GuardStep, Fetch, Take, PutBack, Repush, Look, DelayLoop, DelaySpin,
       ReadEpoch, Recheck, EpochWait, ThreadLoop, DelayEnter, Unregister, LeavePoll
  <2>3. UNCHANGED pc \/ \E l : Goto(w, l)
    BY <1>7 DEF PollStep, DelayStep, GuardStep, Fetch, Take, PutBack, Repush, Look, DelayLoop, DelaySpin,
       ReadEpoch, Recheck, EpochWait, ThreadLoop, DelayEnter, Unregister, LeavePoll, StartFetch
  <2>4. ret'[Main] = ret[Main]
    BY <1>0, <2>2, ActorsAre DEF Set
  <2>5. pc'[Main] = pc[Main]
    BY <1>0, <2>3, Jump, ActorsAre
  <2> QED
    BY <1>1, <2>1, <2>4, <2>5
<1>8. CASE NotifyAll(Main) \/ BumpEpoch(Main, "bumpall", "notifyall")
  <2>1. /\ UNCHANGED <<live, dirty, heads>> /\ pc[Main] \in {"bumpall", "notifyall"}
    BY <1>8 DEF NotifyAll, BumpEpoch, pool, chains
  <2>2. pc'[Main] \in {"notifyall", "join"}
    BY <1>0, <1>8, ActorsAre DEF NotifyAll, BumpEpoch, Goto
  <2>3. live
    BY <1>0, <2>1 DEF DrainOK
  <2> QED
    BY <2>1, <2>2, <2>3 DEF DrainOK, Closing
<1>9. CASE Join
  <2>1. UNCHANGED <<live, heads>> /\ pc[Main] = "join" /\ pc'[Main] = "drain" /\ at'[Main] = 0
    BY <1>0, <1>9, ActorsAre DEF Join, Goto, Set, chains, ScanOK
  <2>2. live
    BY <1>0, <2>1 DEF DrainOK
  <2>3. 0 .. at'[Main] - 1 = {}
    BY <2>1
  <2> QED
    BY <2>1, <2>2, <2>3 DEF DrainOK
<1>10. CASE Terminate
  <2>1. UNCHANGED <<live, heads, dirty>> /\ live /\ pc'[Main] = "bumpall"
    BY <1>0, <1>10, ActorsAre DEF Terminate, Goto, chains, pool
  <2> QED
    BY <2>1 DEF DrainOK, Closing
<1>11. CASE Queue
  <2>1. UNCHANGED <<live, heads, dirty>> /\ pc'[Main] = "queue" /\ ret'[Main] = "idle"
    BY <1>0, <1>11, ActorsAre DEF Queue, NewTask, Goto, Set, chains, pool
  <2>2. ~Closing'
    BY <2>1 DEF Closing
  <2> QED
    BY <1>2, <2>1, <2>2
<1>12. CASE Start
  <2>1. live' /\ pc'[Main] = "idle"
    BY <1>12, ActorsAre DEF Start
  <2> QED
    BY <2>1 DEF DrainOK, Closing
<1>13. CASE Drain
  <2>0. /\ at[Main] \in Nat /\ ThreadCount * Dup \in Nat /\ pc[Main] = "drain" /\ live
        /\ ~dirty => \A k \in 0 .. at[Main] - 1 :
                        heads[<<k % ThreadCount, k \div ThreadCount>>] = << >>
    BY <1>0, <1>13, ActorsAre, Product DEF Drain, DrainOK, ScanOK
  <2>1. CASE at[Main] < ThreadCount * Dup
    <3>0. at[Main] # ThreadCount * Dup
      BY <2>0, <2>1
    <3>1. /\ heads' = [heads EXCEPT ![DrainSlot] = << >>] /\ at' = Set(at, Main, at[Main] + 1)
          /\ dirty' = (dirty \/ heads[DrainSlot] # << >>) /\ UNCHANGED live
          /\ Goto(Main, IF heads[DrainSlot] = << >> THEN "drain" ELSE "exec")
      BY <1>13, <3>0, Zenon DEF Drain
    <3>2. at'[Main] = at[Main] + 1 /\ DrainSlot \in Slots
      BY <1>0, <2>1, <3>1, DrainInside, ActorsAre DEF Set, ScanOK
    <3>3. pc'[Main] = IF heads[DrainSlot] = << >> THEN "drain" ELSE "exec"
      BY <1>0, <3>1, Jump, ActorsAre
    <3>4. ASSUME ~dirty', NEW k \in 0 .. at'[Main] - 1
          PROVE  heads'[<<k % ThreadCount, k \div ThreadCount>>] = << >>
      <4>1. ~dirty /\ heads[DrainSlot] = << >>
        BY <3>1, <3>4
      <4>2. heads' = heads
        BY <1>0, <3>1, <3>2, <4>1
      <4>3. CASE k = at[Main]
        BY <4>1, <4>2, <4>3 DEF DrainSlot
      <4>4. CASE k # at[Main]
        <5>1. k \in 0 .. at[Main] - 1
          BY <2>0, <3>2, <3>4, <4>4
        <5> QED
          BY <2>0, <4>1, <4>2, <5>1
      <4> QED
        BY <4>3, <4>4
    <3>5. pc'[Main] # "drain" => dirty'
      BY <3>1, <3>3
    <3> QED
      BY <2>0, <3>1, <3>3, <3>4, <3>5 DEF DrainOK
  <2>2. CASE ~(at[Main] < ThreadCount * Dup)
    <3>1. /\ at' = Set(at, Main, 0) /\ live' = dirty /\ UNCHANGED heads /\ at[Main] = ThreadCount * Dup
          /\ Goto(Main, IF dirty THEN "drain" ELSE "idle")
      BY <1>13, <2>2 DEF Drain
    <3>2. at'[Main] = 0 /\ 0 .. at'[Main] - 1 = {}
      BY <1>0, <3>1, ActorsAre DEF Set, ScanOK
    <3>3. pc'[Main] = IF dirty THEN "drain" ELSE "idle"
      BY <1>0, <3>1, Jump, ActorsAre
    <3>4. ASSUME ~dirty, NEW s \in Slots PROVE heads'[s] = << >>
      <4>1. PICK k \in 0 .. ThreadCount * Dup - 1 : s = <<k % ThreadCount, k \div ThreadCount>>
        BY PassComplete
      <4> QED
        BY <2>0, <3>1, <3>4, <4>1
    <3>5. CASE dirty
      BY <3>1, <3>2, <3>3, <3>5 DEF DrainOK
    <3>6. CASE ~dirty
      BY <1>0, <3>1, <3>3, <3>4, <3>6 DEF DrainOK
    <3> QED
      BY <3>5, <3>6
  <2> QED
    BY <2>1, <2>2
<1> QED
  BY <1>3, <1>4, <1>5, <1>6, <1>7, <1>8, <1>9, <1>10, <1>11, <1>12, <1>13, StepClasses

-----------------------------------------------------------------------------
(* How often a task is executed                                               *)

\* What a step does to the list of actor b, other than executing or ending a task.
Keeps(b) ==
    /\ hold[b] # << >> => /\ Busy(b)' <=> Busy(b)
                          /\ hold'[b] = hold[b] \/ b \in Workers
                          /\ b = Main => live' = live
    /\ hold[b] = << >> /\ hold'[b] # << >> => ~Busy(b)' /\ (b = Main => live')

\* The steps that neither execute nor end a task keep it.
LEMMA OtherSteps ==
    ASSUME Shape, Books, Next, \A a \in Actors : ~Exec(a) /\ ~Finish(a) /\ ~Nest(a)
    PROVE  UNCHANGED runs /\ \A b \in Actors : Keeps(b)
<1> USE DEF PollPCs, DelayPCs, QueuePCs, WakePCs, ExecPCs, JoinPCs, ReturnPCs
<1>0. /\ ControlOK /\ ChainsOK /\ ScanOK /\ OwnerOK /\ DrainOK
      /\ pc \in [Actors -> PCs] /\ ret \in [Actors -> {"idle", "exec", "finish"}]
      /\ \A a \in Actors : IdleOK(a)
      /\ hold \in [Actors -> Seq(Tasks)]
  BY DEF Shape, Books, EmptyOK, ControlOK, ChainsOK
\* a step of one actor that changes nobody's list
<1>1. ASSUME NEW a \in Actors, NEW l, Goto(a, l), UNCHANGED hold, UNCHANGED live,
             \A b \in Actors : b # a => ret'[b] = ret[b],
             hold[a] # << >> => (Busy(a)' <=> Busy(a))
      PROVE  \A b \in Actors : Keeps(b)
  <2>1. \A b \in Actors : b # a => pc'[b] = pc[b]
    BY <1>0, <1>1, Jump
  <2>2. \A b \in Actors : b # a => (Busy(b)' <=> Busy(b))
    BY <1>1, <2>1 DEF Busy
  <2> QED
    BY <1>1, <2>2 DEF Keeps
<1>3. ASSUME NEW a \in Actors, PushStep(a) \/ WakeStep(a)
      PROVE  UNCHANGED runs /\ \A b \in Actors : Keeps(b)
  <2>1. /\ UNCHANGED <<live, ret, runs>> /\ pc[a] \in QueuePCs \cup WakePCs
    BY <1>3 DEF PushStep, WakeStep, QueueTask, QueueCas, QueueChain, QueueLate, WakeGate, BumpEpoch,
       pool, history
  <2>2. /\ \E l \in {"cas", "late", "gate", "chain", "bump", "notify", ret[a]} : Goto(a, l)
        /\ UNCHANGED hold
    <3>1. CASE QueueTask(a)
      <4>1. item[a] # None
        BY <1>0, <3>1 DEF ChainsOK, QueueTask
      <4>2. ~(terminated /\ ~live)
        BY <3>1, <4>1 DEF QueueTask, Nest, history, counters
      <4> QED
        BY <3>1, <4>2 DEF QueueTask
    <3>2. CASE ~QueueTask(a)
      BY <1>3, <3>2 DEF PushStep, WakeStep, QueueCas, QueueChain, QueueLate, Push, WakeGate, BumpEpoch, chains
    <3> QED
      BY <3>1, <3>2
  <2>3. PICK l \in {"cas", "late", "gate", "chain", "bump", "notify", ret[a]} : Goto(a, l)
    BY <2>2
  <2>4. pc'[a] = l
    BY <1>0, <2>3, Jump
  <2>5. ASSUME hold[a] # << >> PROVE Busy(a)' <=> Busy(a)
    <3>1. ret[a] \in {"exec", "finish"}
      BY <1>0, <2>1, <2>5 DEF IdleOK
    <3> QED
      BY <2>1, <2>4, <3>1 DEF Busy
  <2> QED
    BY <1>1, <2>1, <2>2, <2>3, <2>5
<1>4. ASSUME NEW a \in Actors, NotifyOne(a)
      PROVE  UNCHANGED runs /\ \A b \in Actors : Keeps(b)
  <2>1. UNCHANGED <<live, ret, runs, hold>> /\ pc[a] = "notify"
    BY <1>4 DEF NotifyOne, pool, history, chains
  <2>2. /\ pc'[a] = ret[a]
        /\ \A b \in Actors : b # a => pc'[b] = pc[b] \/ (pc[b] = "asleep" /\ pc'[b] = "wait")
    <3>1. CASE Goto(a, ret[a])
      BY <1>0, <3>1, Jump
    <3>2. ASSUME NEW w \in Asleep, pc' = [pc EXCEPT ![a] = ret[a], ![w] = "wait"]
          PROVE  /\ pc'[a] = ret[a]
                 /\ \A b \in Actors : b # a => pc'[b] = pc[b] \/ (pc[b] = "asleep" /\ pc'[b] = "wait")
      <4>1. w \in Actors /\ w # a /\ pc[w] = "asleep"
        BY <2>1, ActorsAre DEF Asleep
      <4> QED
        BY <1>0, <3>2, <4>1
    <3> QED
      BY <1>4, <3>1, <3>2 DEF NotifyOne
  <2>3. ASSUME hold[a] # << >> PROVE Busy(a)' <=> Busy(a)
    <3>1. ret[a] \in {"exec", "finish"}
      BY <1>0, <2>1, <2>3 DEF IdleOK
    <3> QED
      BY <2>1, <2>2, <3>1 DEF Busy
  <2>4. \A b \in Actors : b # a => (Busy(b)' <=> Busy(b))
    BY <2>1, <2>2 DEF Busy
  <2> QED
    BY <2>1, <2>3, <2>4 DEF Keeps
<1>5. ASSUME NEW w \in Workers, PollStep(w)
      PROVE  UNCHANGED runs /\ \A b \in Actors : Keeps(b)
  <2>0. /\ w \in Actors /\ w # Main /\ IdleOK(w) /\ UNCHANGED live /\ UNCHANGED runs
        /\ \A b \in Actors : b # w => ret'[b] = ret[b] /\ hold'[b] = hold[b]
    <3>1. /\ UNCHANGED ret \/ ret' = Set(ret, w, "exec")
          /\ UNCHANGED hold \/ \E h : hold' = Set(hold, w, h)
          /\ UNCHANGED live /\ UNCHANGED runs
      BY <1>5 DEF PollStep, Fetch, Take, PutBack, Repush, Look, pool, history, chains
    <3> QED
      BY <1>0, <3>1, ActorsAre DEF Set
  <2>1. \A b \in Actors : b # w => pc'[b] = pc[b]
    <3>1. UNCHANGED pc \/ \E l : Goto(w, l)
      BY <1>5 DEF PollStep, Fetch, Take, PutBack, Repush, Look, StartFetch
    <3> QED
      BY <1>0, <2>0, <3>1, Jump
  <2>2. \A b \in Actors : b # w => Keeps(b)
    BY <2>0, <2>1 DEF Keeps, Busy
  <2>3. Keeps(w)
    <3>1. CASE Take(w)
      <4>1. hold[w] = << >> /\ pc'[w] \in {"leave", "putback"}
        BY <1>0, <2>0, <3>1 DEF IdleOK, Take, Goto
      <4> QED
        BY <2>0, <4>1 DEF Keeps, Busy
    <3>2. CASE PutBack(w)
      <4>1. pc[w] = "putback" /\ pc'[w] \in {"look", "repush"}
        BY <1>0, <2>0, <3>2 DEF PutBack, Goto
      <4>2. hold[w] # << >>
        BY <1>0, <2>0, <4>1 DEF ChainsOK
      <4> QED
        BY <1>5, <2>0, <4>1, <4>2 DEF Keeps, Busy
    <3>3. CASE Repush(w) \/ Look(w) \/ Fetch(w, "lookfetch", "gate", "exec")
      <4>1. /\ UNCHANGED <<hold, ret>> /\ pc[w] \in {"repush", "look", "lookfetch"}
            /\ pc'[w] \in {"repush", "lookfetch", "gate", "exec"}
        <5>1. UNCHANGED <<hold, ret>> /\ pc[w] \in {"repush", "look", "lookfetch"}
          BY <3>3 DEF Repush, Look, Fetch, chains
        <5>2. (UNCHANGED pc /\ pc[w] # "look") \/ \E l \in {"repush", "lookfetch", "gate", "exec"} : Goto(w, l)
          BY <3>3 DEF Repush, Look, Fetch, StartFetch
        <5> QED
          BY <1>0, <2>0, <5>1, <5>2, Jump
      <4>2. ret[w] = "exec"
        BY <2>0, <4>1 DEF IdleOK
      <4> QED
        BY <2>0, <4>1, <4>2 DEF Keeps, Busy
    <3>4. CASE Fetch(w, "fetch", "take", "miss")
      <4>1. pc[w] = "fetch" /\ UNCHANGED hold
        BY <3>4 DEF Fetch, chains
      <4>2. hold[w] = << >>
        BY <2>0, <4>1 DEF IdleOK
      <4> QED
        BY <4>1, <4>2 DEF Keeps
    <3> QED
      BY <1>5, <3>1, <3>2, <3>3, <3>4 DEF PollStep
  <2> QED
    BY <2>0, <2>2, <2>3
<1>6. ASSUME NEW w \in Workers, DelayStep(w) \/ GuardStep(w)
      PROVE  UNCHANGED runs /\ \A b \in Actors : Keeps(b)
  <2>1. /\ UNCHANGED hold /\ UNCHANGED live /\ UNCHANGED runs
        /\ pc[w] \in DelayPCs \cup {"loop", "delay", "leave", "miss"}
    BY <1>6 DEF DelayStep, DelayLoop, DelaySpin, ReadEpoch, Recheck, EpochWait, Fetch, GuardStep,
       ThreadLoop, DelayEnter, Unregister, LeavePoll, pool, history, chains
  <2>2. /\ UNCHANGED ret \/ ret' = Set(ret, w, "idle")
        /\ UNCHANGED pc \/ \E l : Goto(w, l)
    BY <1>6 DEF DelayStep, DelayLoop, DelaySpin, ReadEpoch, Recheck, EpochWait, Fetch, GuardStep,
       ThreadLoop, DelayEnter, Unregister, LeavePoll, StartFetch
  <2>3. w \in Actors /\ hold[w] = << >>
    BY <1>0, <2>1, ActorsAre DEF IdleOK
  <2>4. \A b \in Actors : b # w => pc'[b] = pc[b] /\ ret'[b] = ret[b]
    BY <1>0, <2>2, <2>3, Jump DEF Set
  <2>5. \A b \in Actors : b # w => (Busy(b)' <=> Busy(b))
    BY <2>4 DEF Busy
  <2> QED
    BY <2>1, <2>3, <2>5 DEF Keeps
<1>7. CASE NotifyAll(Main)
  <2>1. /\ UNCHANGED <<hold, live, ret, runs>> /\ pc[Main] = "notifyall"
        /\ \A b \in Actors : pc'[b] = IF b = Main THEN "join"
                                      ELSE IF b \in Asleep THEN "wait" ELSE pc[b]
    BY <1>7 DEF NotifyAll, chains, pool, history
  <2>2. \A b \in Actors : Busy(b)' <=> Busy(b)
    BY <2>1 DEF Busy, Asleep
  <2> QED
    BY <2>1, <2>2 DEF Keeps
<1>8. CASE BumpEpoch(Main, "bumpall", "notifyall") \/ Join \/ Terminate
  <2>1. UNCHANGED <<hold, live, ret, runs>> /\ pc[Main] \in {"bumpall", "join", "idle"}
    BY <1>8 DEF BumpEpoch, Join, Terminate, chains, pool, history
  <2>2. \E l : Goto(Main, l)
    BY <1>8 DEF BumpEpoch, Join, Terminate
  <2>3. hold[Main] = << >>
    BY <1>0, <2>1, ActorsAre DEF IdleOK
  <2> QED
    BY <1>1, <2>1, <2>2, <2>3, ActorsAre
<1>9. CASE Queue
  <2>1. /\ UNCHANGED <<hold, live, runs>> /\ pc[Main] = "idle" /\ Goto(Main, "queue")
        /\ ret' = Set(ret, Main, "idle")
    BY <1>9 DEF Queue, NewTask, pool
  <2>2. hold[Main] = << >>
    BY <1>0, <2>1, ActorsAre DEF IdleOK
  <2>3. \A b \in Actors : b # Main => ret'[b] = ret[b]
    BY <1>0, <2>1 DEF Set
  <2> QED
    BY <1>1, <2>1, <2>2, <2>3, ActorsAre
<1>10. CASE Start
  <2>1. UNCHANGED <<hold, runs>> /\ pc[Main] = "idle" /\ ~live
    BY <1>10 DEF Start, history
  <2>2. \A b \in Actors : pc[b] \in {"idle", "exited"}
    BY <1>0, <2>1, ActorsAre DEF OwnerOK
  <2>3. \A b \in Actors : hold[b] = << >>
    BY <1>0, <2>2 DEF IdleOK
  <2> QED
    BY <2>1, <2>3 DEF Keeps
<1>11. CASE Drain
  <2>1. /\ UNCHANGED <<runs, ret>> /\ pc[Main] = "drain" /\ \E l : Goto(Main, l)
        /\ live /\ hold[Main] = << >>
    <3>1. UNCHANGED <<runs, ret>> /\ pc[Main] = "drain" /\ \E l : Goto(Main, l)
      BY <1>11 DEF Drain, history
    <3> QED
      BY <1>0, <3>1, ActorsAre DEF DrainOK, IdleOK
  <2>2. \A b \in Actors : b # Main => hold'[b] = hold[b] /\ pc'[b] = pc[b]
    <3>1. UNCHANGED hold \/ hold' = Set(hold, Main, heads[DrainSlot])
      BY <1>11 DEF Drain
    <3> QED
      BY <1>0, <2>1, <3>1, Jump, ActorsAre DEF Set
  <2>3. \A b \in Actors : b # Main => Keeps(b)
    BY <2>1, <2>2 DEF Keeps, Busy
  <2>4. ASSUME hold'[Main] # << >> PROVE ~Busy(Main)' /\ live'
    <3>1. CASE UNCHANGED hold
      BY <2>1, <2>4, <3>1
    <3>2. CASE /\ hold' = Set(hold, Main, heads[DrainSlot]) /\ UNCHANGED live
               /\ Goto(Main, IF heads[DrainSlot] = << >> THEN "drain" ELSE "exec")
      <4>1. pc'[Main] \in {"drain", "exec"}
        BY <1>0, <3>2, Jump, ActorsAre
      <4> QED
        BY <2>1, <3>2, <4>1 DEF Busy
    <3> QED
      BY <1>11, <3>1, <3>2 DEF Drain
  <2>5. Keeps(Main)
    BY <2>1, <2>4 DEF Keeps
  <2> QED
    BY <2>1, <2>3, <2>5
<1> QED
  BY <1>3, <1>4, <1>5, <1>6, <1>7, <1>8, <1>9, <1>10, <1>11, StepClasses

\* Every step keeps the count of executions right: a task is executed once, when it is
\* first in the list of an actor, and never again.
LEMMA RunsStep ==
    ASSUME Shape, Books, Next
    PROVE  RunsOK'
<1> USE DEF QueuePCs, WakePCs, ExecPCs, ReturnPCs
<1>0. /\ ControlOK /\ ChainsOK /\ OwnerOK /\ Apart /\ Whole /\ NoRepeat /\ Fresh
      /\ \A a \in Actors : HeldRuns(a) /\ IdleOK(a)
      /\ \A t \in Tasks : (t \notin created => runs[t] = 0) /\ (t \in done => runs[t] = 1)
      /\ runs \in [Tasks -> Nat] /\ created \in SUBSET Tasks /\ done \in SUBSET Tasks
      /\ done \subseteq created /\ None \notin Tasks
  BY TaskAssumption DEF Shape, Books, RunsOK, RestOK, EmptyOK, CountOK
<1>1. /\ heads \in [Slots -> Seq(Tasks)] /\ hold \in [Actors -> Seq(Tasks)]
      /\ org \in [Actors -> Seq(Tasks)] /\ item \in [Actors -> Tasks \cup {None}]
      /\ \A s \in Slots : heads[s] \in Seq(Tasks)
      /\ \A a \in Actors : /\ hold[a] \in Seq(Tasks) /\ org[a] \in Seq(Tasks)
                           /\ item[a] \in Tasks \cup {None}
      /\ pc \in [Actors -> PCs] /\ ret \in [Actors -> {"idle", "exec", "finish"}]
  BY <1>0, BoxTypes DEF ControlOK
<1>2. /\ \A s \in Slots : \A t \in Elems(heads[s]) : runs[t] = 0
      /\ \A a \in Actors : \A t \in Elems(org[a]) : runs[t] = 0
      /\ \A a \in Actors : item[a] # None => runs[item[a]] = 0
  BY <1>0 DEF Fresh
\* the list of an actor that keeps it
<1>3. ASSUME NEW b \in Actors, hold'[b] = hold[b], UNCHANGED runs, Keeps(b) PROVE HeldRuns(b)'
  <2>1. CASE hold[b] = << >>
    BY <1>3, <2>1 DEF HeldRuns
  <2>2. CASE hold[b] # << >>
    <3>1. (Busy(b)' <=> Busy(b)) /\ (b = Main => live' = live)
      BY <1>3, <2>2 DEF Keeps
    <3>2. HeldRuns(b)
      BY <1>0
    <3> QED
      BY <1>3, <2>2, <3>1, <3>2 DEF HeldRuns
  <2> QED
    BY <2>1, <2>2
<1>4. ASSUME NEW a \in Actors, Exec(a) PROVE RunsOK'
  <2> DEFINE t == Head(hold[a])
  <2>1. /\ pc[a] = "exec" /\ hold[a] # << >> /\ t \in Tasks /\ hold[a] \in Seq(Tasks)
        /\ Elems(hold[a]) = {t} \cup Elems(Tail(hold[a])) /\ t \notin Elems(Tail(hold[a]))
        /\ Elems(Tail(hold[a])) \subseteq Tasks
    <3>1. pc[a] = "exec" /\ hold[a] # << >> /\ hold[a] \in Seq(Tasks) /\ Distinct(hold[a])
      BY <1>0, <1>1, <1>4 DEF Exec, ChainsOK, NoRepeat
    <3> QED
      BY <3>1, ListFacts, ElemFacts
  <2>2. t \in created \ done
    <3>1. t \in Box(<<"hold", a>>) /\ <<"hold", a>> \in Boxes
      BY <2>1, BoxIs
    <3> QED
      BY <1>0, <2>1, <3>1 DEF Whole
  <2>3. /\ UNCHANGED <<heads, hold, org, live, done>> /\ runs' = [runs EXCEPT ![t] = @ + 1]
        /\ created \subseteq created'
    BY <1>4 DEF Exec, NewTask, chains, pool
  <2>4. runs[t] = 0 /\ runs'[t] = 1 /\ \A u \in Tasks : u # t => runs'[u] = runs[u]
    <3>1. ~Busy(a)
      BY <2>1 DEF Busy
    <3>2. runs[t] = 0
      BY <1>0, <2>1, <3>1 DEF HeldRuns
    <3> QED
      BY <1>0, <2>1, <2>3, <3>2
  <2>5. /\ \A s \in Slots : t \notin Elems(heads[s]) /\ Elems(heads[s]) \subseteq Tasks
        /\ \A b \in Actors : /\ t \notin Elems(org[b]) /\ t # item[b]
                             /\ b # a => t \notin Elems(hold[b])
                             /\ Elems(org[b]) \subseteq Tasks /\ Elems(hold[b]) \subseteq Tasks
    <3>1. t \in Box(<<"hold", a>>) /\ <<"hold", a>> \in Boxes
      BY <2>1, BoxIs
    <3>2. \A p \in Boxes : p # <<"hold", a>> => t \notin Box(p)
      BY <1>0, <3>1 DEF Apart
    <3>3. ASSUME NEW s \in Slots PROVE t \notin Elems(heads[s]) /\ Elems(heads[s]) \subseteq Tasks
      <4>1. <<"head", s>> # <<"hold", a>> /\ <<"head", s>> \in Boxes /\ Box(<<"head", s>>) = Elems(heads[s])
        BY BoxIs
      <4> QED
        BY <1>1, <3>2, <4>1, ElemFacts
    <3>4. ASSUME NEW b \in Actors
          PROVE  /\ t \notin Elems(org[b]) /\ t # item[b]
                 /\ b # a => t \notin Elems(hold[b])
                 /\ Elems(org[b]) \subseteq Tasks /\ Elems(hold[b]) \subseteq Tasks
      <4>1. /\ <<"org", b>> # <<"hold", a>> /\ <<"org", b>> \in Boxes /\ Box(<<"org", b>>) = Elems(org[b])
            /\ <<"item", b>> # <<"hold", a>> /\ <<"item", b>> \in Boxes
            /\ Box(<<"item", b>>) = {item[b]} \ {None}
            /\ <<"hold", b>> \in Boxes /\ Box(<<"hold", b>>) = Elems(hold[b])
            /\ b # a => <<"hold", b>> # <<"hold", a>>
        BY BoxIs
      <4>2. t \notin Elems(org[b]) /\ (b # a => t \notin Elems(hold[b]))
        BY <3>2, <4>1
      <4>3. t # item[b]
        BY <1>0, <2>1, <3>2, <4>1
      <4>4. Elems(org[b]) \subseteq Tasks /\ Elems(hold[b]) \subseteq Tasks
        BY <1>1, ElemFacts
      <4> QED
        BY <4>2, <4>3, <4>4
    <3> QED
      BY <3>3, <3>4
  <2>6. Fresh'
    <3>1. \A s \in Slots : \A u \in Elems(heads'[s]) : runs'[u] = 0
      BY <1>2, <2>3, <2>4, <2>5
    <3>2. \A b \in Actors : \A u \in Elems(org'[b]) : runs'[u] = 0
      BY <1>2, <2>3, <2>4, <2>5
    <3>3. ASSUME NEW b \in Actors, item'[b] # None PROVE runs'[item'[b]] = 0
      <4>1. CASE item'[b] = item[b]
        BY <1>1, <1>2, <2>4, <2>5, <3>3, <4>1
      <4>2. CASE item'[b] # item[b]
        <5>1. \E u \in Tasks : u \notin created /\ item' = Set(item, a, u)
          BY <1>4, <2>1, <4>2, TaskAssumption DEF Exec, NewTask, chains
        <5>2. item'[b] \in Tasks /\ item'[b] \notin created
          BY <1>1, <4>2, <5>1 DEF Set
        <5> QED
          BY <1>0, <2>2, <2>4, <5>2
      <4> QED
        BY <4>1, <4>2
    <3> QED
      BY <3>1, <3>2, <3>3 DEF Fresh
  <2>7. ASSUME NEW b \in Actors PROVE HeldRuns(b)'
    <3>1. CASE b = a
      <4>1. Busy(a)'
        <5>1. CASE Goto(a, "finish")
          BY <1>0, <5>1, Jump DEF Busy
        <5>2. CASE Goto(a, "queue") /\ ret' = Set(ret, a, "finish")
          <6>1. pc'[a] = "queue" /\ ret'[a] = "finish"
            BY <1>0, <1>1, <5>2, Jump DEF Set
          <6> QED
            BY <6>1 DEF Busy
        <5> QED
          BY <1>4, <5>1, <5>2 DEF Exec, NewTask
      <4>2. \A u \in Elems(Tail(hold[a])) : runs'[u] = runs[u]
        BY <2>1, <2>4
      <4>3. HeldRuns(a)
        BY <1>0
      <4> QED
        BY <2>1, <2>3, <2>4, <3>1, <4>1, <4>2, <4>3 DEF HeldRuns
    <3>2. CASE b # a
      <4>0. (Busy(b)' <=> Busy(b))
        <5>1. \E l : Goto(a, l) /\ (UNCHANGED ret \/ ret' = Set(ret, a, "finish"))
          BY <1>4 DEF Exec, NewTask
        <5>2. pc'[b] = pc[b] /\ ret'[b] = ret[b]
          BY <1>0, <1>1, <3>2, <5>1, Jump DEF Set
        <5> QED
          BY <5>2 DEF Busy
      <4>1. CASE hold[b] = << >>
        BY <2>3, <4>1 DEF HeldRuns
      <4>2. CASE hold[b] # << >>
        <5>1. Elems(hold[b]) = {Head(hold[b])} \cup Elems(Tail(hold[b]))
          BY <1>1, <4>2, ElemFacts
        <5>2. \A u \in Elems(hold[b]) : runs'[u] = runs[u]
          BY <2>4, <2>5, <3>2
        <5>3. HeldRuns(b)
          BY <1>0
        <5> QED
          BY <2>3, <4>0, <4>2, <5>1, <5>2, <5>3 DEF HeldRuns
      <4> QED
        BY <4>1, <4>2
    <3> QED
      BY <3>1, <3>2
  <2>8. \A u \in Tasks : (u \notin created' => runs'[u] = 0) /\ (u \in done' => runs'[u] = 1)
    BY <1>0, <2>2, <2>3, <2>4
  <2> QED
    BY <2>6, <2>7, <2>8 DEF RunsOK
<1>5. ASSUME NEW a \in Actors, Finish(a) PROVE RunsOK'
  <2>1. /\ pc[a] = "finish" /\ hold[a] # << >> /\ hold[a] \in Seq(Tasks) /\ Head(hold[a]) \in Tasks
        /\ UNCHANGED <<heads, org, item, created, runs, live, ret>>
        /\ done' = done \cup {Head(hold[a])} /\ hold' = Set(hold, a, Tail(hold[a]))
        /\ Goto(a, IF a = Main THEN AfterOwnTask ELSE "leave")
    <3>1. pc[a] = "finish" /\ hold[a] # << >> /\ hold[a] \in Seq(Tasks)
      BY <1>0, <1>1, <1>5 DEF Finish, ChainsOK
    <3> QED
      BY <1>5, <3>1, ListFacts DEF Finish, pool
  <2>2. runs[Head(hold[a])] = 1
    BY <1>0, <2>1 DEF HeldRuns, Busy
  <2>3. Fresh'
    BY <1>2, <2>1 DEF Fresh
  <2>4. HeldRuns(a)'
    <3>1. hold'[a] = Tail(hold[a])
      BY <1>1, <2>1 DEF Set
    <3>2. CASE Tail(hold[a]) = << >>
      BY <3>1, <3>2 DEF HeldRuns
    <3>3. CASE Tail(hold[a]) # << >>
      <4>1. a = Main
        BY <1>0, <2>1, <3>3, ActorsAre DEF IdleOK
      <4>2. pc'[a] = IF live THEN "exec" ELSE "finish"
        BY <1>0, <2>1, <3>3, <4>1, Jump DEF AfterOwnTask
      <4>3. Tail(hold[a]) \in Seq(Tasks)
        BY <2>1, ListFacts
      <4>4. /\ Head(Tail(hold[a])) \in Elems(Tail(hold[a]))
            /\ Elems(Tail(Tail(hold[a]))) \subseteq Elems(Tail(hold[a]))
        <5>1. \A q \in Seq(Tasks) : q # << >> => Elems(q) = {Head(q)} \cup Elems(Tail(q))
          BY ElemFacts
        <5>2. Elems(Tail(hold[a])) = {Head(Tail(hold[a]))} \cup Elems(Tail(Tail(hold[a])))
          BY <3>3, <4>3, <5>1
        <5> QED
          BY <5>2
      <4>5. \A t \in Elems(Tail(hold[a])) : runs[t] = IF ~live THEN 1 ELSE 0
        BY <1>0, <2>1, <4>1 DEF HeldRuns
      <4>6. Busy(a)' <=> ~live
        BY <4>2 DEF Busy
      <4> QED
        BY <2>1, <3>1, <4>1, <4>4, <4>5, <4>6 DEF HeldRuns
    <3> QED
      BY <3>2, <3>3
  <2>5. ASSUME NEW b \in Actors, b # a PROVE HeldRuns(b)'
    <3>1. pc'[b] = pc[b] /\ hold'[b] = hold[b] /\ ret'[b] = ret[b]
      BY <1>0, <1>1, <2>1, <2>5, Jump DEF Set
    <3>2. Busy(b)' <=> Busy(b)
      BY <3>1 DEF Busy
    <3>3. HeldRuns(b)
      BY <1>0
    <3> QED
      BY <2>1, <3>1, <3>2, <3>3 DEF HeldRuns
  <2>6. \A u \in Tasks : (u \notin created' => runs'[u] = 0) /\ (u \in done' => runs'[u] = 1)
    BY <1>0, <2>1, <2>2
  <2> QED
    BY <2>3, <2>4, <2>5, <2>6 DEF RunsOK
<1>6. ASSUME NEW a \in Actors, Nest(a) PROVE RunsOK'
  <2>1. /\ item[a] \in Tasks /\ item'[a] = None /\ hold'[a] = <<item[a]>> \o hold[a]
        /\ UNCHANGED <<heads, org, created, done, runs>>
        /\ \A b \in Actors : b # a => item'[b] = item[b] /\ hold'[b] = hold[b]
    BY <1>1, <1>6 DEF Nest, Set, history
  <2>2. QueueTask(a) /\ terminated /\ ~live
    <3>0. pc[a] \in QueuePCs /\ hold' # hold
      <4>1. <<item[a]>> \o hold[a] # hold[a]
        <5>1. Head(<<item[a]>> \o hold[a]) = item[a] /\ Elems(<<item[a]>> \o hold[a]) = {item[a]} \cup Elems(hold[a])
          BY <1>1, <2>1, ElemFacts
        <5>2. item[a] \notin Elems(hold[a])
          <6>1. /\ Box(<<"item", a>>) = {item[a]} \ {None} /\ Box(<<"hold", a>>) = Elems(hold[a])
                /\ <<"item", a>> \in Boxes /\ <<"hold", a>> \in Boxes /\ <<"item", a>> # <<"hold", a>>
            BY BoxIs
          <6>2. Box(<<"item", a>>) \cap Box(<<"hold", a>>) = {}
            BY <1>0, <6>1 DEF Apart
          <6>3. item[a] \in Box(<<"item", a>>)
            BY <1>0, <2>1, <6>1
          <6> QED
            BY <6>1, <6>2, <6>3
        <5> QED
          BY <5>1, <5>2
      <4> QED
        BY <1>0, <1>6, <2>1, <4>1 DEF IdleOK, Nest
    <3>1. pc[a] \in {"queue", "cas", "chain", "late"} /\ item'[a] # item[a]
      BY <1>0, <2>1, <3>0
    <3>2. ASSUME NEW b \in Actors, b # a PROVE hold'[b] = hold[b]
      BY <2>1, <3>2
    <3>3. ASSUME NEW b \in Actors, PushStep(b) PROVE b = a /\ (QueueTask(a) /\ terminated /\ ~live)
      <4>1. b = a
        <5>1. CASE UNCHANGED item
          BY <3>1, <5>1
        <5>2. CASE item' = Set(item, b, None)
          BY <1>1, <3>1, <5>2 DEF Set
        <5> QED
          BY <3>3, <5>1, <5>2 DEF PushStep, QueueTask, QueueCas, QueueChain, QueueLate, Push, chains
      <4> QED
        BY <3>0, <3>3, <4>1 DEF PushStep, QueueTask, QueueCas, QueueChain, QueueLate, Push, chains
    <3>4. ASSUME NEW b \in Actors, Exec(b) \/ Finish(b) PROVE UNCHANGED hold \/ UNCHANGED item
      BY <3>4 DEF Exec, Finish, chains
    <3>5. ASSUME NEW w \in Workers, PollStep(w) \/ DelayStep(w) \/ GuardStep(w) PROVE UNCHANGED item
      BY <3>5 DEF PollStep, DelayStep, GuardStep, Fetch, Take, PutBack, Repush, Look, DelayLoop,
         DelaySpin, ReadEpoch, Recheck, EpochWait, ThreadLoop, DelayEnter, Unregister, LeavePoll, chains
    <3>6. ASSUME NEW b \in Actors, NotifyOne(b) \/ WakeStep(b) PROVE UNCHANGED item
      BY <3>6 DEF NotifyOne, WakeStep, WakeGate, BumpEpoch, chains
    <3>7. NotifyAll(Main) \/ BumpEpoch(Main, "bumpall", "notifyall") \/ Join \/ Drain \/ Terminate
          \/ Start => UNCHANGED item
      BY DEF NotifyAll, BumpEpoch, Join, Drain, Terminate, Start, chains
    <3>8. Queue => UNCHANGED hold
      BY DEF Queue
    <3> QED
      BY <3>0, <3>1, <3>3, <3>4, <3>5, <3>6, <3>7, <3>8, StepClasses
  <2>3. a = Main /\ UNCHANGED <<live, ret>> /\ pc[a] = "queue" /\ Goto(a, "exec")
    <3>1. UNCHANGED <<live, ret>> /\ pc[a] = "queue" /\ Goto(a, "exec")
      BY <2>2 DEF QueueTask, pool
    <3> QED
      BY <1>0, <2>2, <3>1, ActorsAre DEF OwnerOK
  <2>4. pc'[a] = "exec" /\ \A b \in Actors : b # a => pc'[b] = pc[b]
    BY <1>0, <2>3, Jump
  <2>5. Fresh'
    BY <1>2, <2>1 DEF Fresh
  <2>6. HeldRuns(a)'
    <3>1. Head(hold'[a]) = item[a] /\ Tail(hold'[a]) = hold[a]
      BY <1>1, <2>1, ElemFacts
    <3>2. \A t \in Elems(hold[a]) : runs[t] = 1
      <4>1. CASE hold[a] = << >>
        BY <4>1, ElemFacts
      <4>2. CASE hold[a] # << >>
        <5>1. ret[a] = "finish"
          BY <1>0, <1>1, <2>3, <4>2, ActorsAre DEF IdleOK, ControlOK
        <5>2. Busy(a)
          BY <2>3, <5>1 DEF Busy
        <5>3. HeldRuns(a) /\ Elems(hold[a]) = {Head(hold[a])} \cup Elems(Tail(hold[a]))
          BY <1>0, <1>1, <4>2, ElemFacts
        <5> QED
          BY <2>2, <2>3, <4>2, <5>2, <5>3 DEF HeldRuns
      <4> QED
        BY <4>1, <4>2
    <3>3. ~Busy(a)' /\ ~live' /\ runs[item[a]] = 0
      BY <1>0, <1>2, <2>1, <2>2, <2>3, <2>4 DEF Busy
    <3> QED
      BY <2>1, <2>3, <3>1, <3>2, <3>3 DEF HeldRuns
  <2>7. ASSUME NEW b \in Actors, b # a PROVE HeldRuns(b)'
    <3>1. HeldRuns(b) /\ pc'[b] = pc[b] /\ ret'[b] = ret[b] /\ hold'[b] = hold[b]
      BY <1>0, <2>1, <2>3, <2>4, <2>7
    <3>2. Busy(b)' <=> Busy(b)
      BY <3>1 DEF Busy
    <3> QED
      BY <2>1, <2>3, <3>1, <3>2 DEF HeldRuns
  <2>8. \A u \in Tasks : (u \notin created' => runs'[u] = 0) /\ (u \in done' => runs'[u] = 1)
    BY <1>0, <2>1
  <2> QED
    BY <2>5, <2>6, <2>7, <2>8 DEF RunsOK
<1>7. ASSUME \A a \in Actors : ~Exec(a) /\ ~Finish(a) /\ ~Nest(a) PROVE RunsOK'
  <2>0. UNCHANGED runs /\ \A b \in Actors : Keeps(b)
    BY <1>7, OtherSteps
  <2>1. ASSUME Still PROVE RunsOK'
    BY <1>0, <1>2, <1>3, <2>0, <2>1 DEF Still, RunsOK, Fresh
  <2>2. ASSUME NEW a \in Actors, NEW s \in Slots, Link(a, s) PROVE RunsOK'
    <3>1. /\ item[a] \in Tasks /\ item[a] # None /\ heads'[s] = <<item[a]>> \o heads[s] /\ item'[a] = None
          /\ hold' = hold /\ org' = org /\ UNCHANGED <<created, done>>
          /\ \A r \in Slots : r # s => heads'[r] = heads[r]
          /\ \A b \in Actors : b # a => item'[b] = item[b]
      BY <1>1, <2>2 DEF Link, Set, history
    <3>2. Elems(heads'[s]) = {item[a]} \cup Elems(heads[s])
      BY <1>1, <3>1, ElemFacts
    <3>3. \A r \in Slots : \A t \in Elems(heads'[r]) : runs'[t] = 0
      <4>1. runs' = runs /\ runs[item[a]] = 0
        BY <1>2, <2>0, <3>1
      <4>2. \A t \in Elems(heads'[s]) : runs'[t] = 0
        BY <1>2, <3>2, <4>1
      <4> QED
        BY <1>2, <3>1, <4>1, <4>2
    <3>4. Fresh'
      BY <1>2, <2>0, <3>1, <3>3 DEF Fresh
    <3> QED
      BY <1>0, <1>3, <2>0, <3>1, <3>4 DEF RunsOK
  <2>3. ASSUME NEW a \in Actors, NEW s \in Slots, Detach(a, s) PROVE RunsOK'
    <3>1. /\ hold[a] = << >> /\ hold'[a] = heads[s] /\ heads'[s] = << >>
          /\ item' = item /\ org' = org /\ UNCHANGED <<created, done>>
          /\ \A r \in Slots : r # s => heads'[r] = heads[r]
          /\ \A b \in Actors : b # a => hold'[b] = hold[b]
      BY <1>1, <2>3 DEF Detach, Set, history
    <3>2. Fresh'
      BY <1>2, <2>0, <3>1, ElemFacts DEF Fresh
    <3>3. HeldRuns(a)'
      <4>1. CASE heads[s] = << >>
        BY <3>1, <4>1 DEF HeldRuns
      <4>2. CASE heads[s] # << >>
        <5>1. ~Busy(a)' /\ (a = Main => live')
          BY <2>0, <3>1, <4>2 DEF Keeps
        <5>2. Elems(heads[s]) = {Head(heads[s])} \cup Elems(Tail(heads[s]))
          BY <1>1, <4>2, ElemFacts
        <5> QED
          BY <1>2, <2>0, <3>1, <5>1, <5>2 DEF HeldRuns
      <4> QED
        BY <4>1, <4>2
    <3> QED
      BY <1>0, <1>3, <2>0, <3>1, <3>2, <3>3 DEF RunsOK
  <2>4. ASSUME NEW a \in Actors, NEW s \in Slots, Split(a, s) PROVE RunsOK'
    <3>1. /\ hold[a] # << >> /\ org'[a] = heads[s]
          /\ heads'[s] = Tail(hold[a]) /\ hold'[a] = <<Head(hold[a])>>
          /\ item' = item /\ UNCHANGED <<created, done>>
          /\ \A r \in Slots : r # s => heads'[r] = heads[r]
          /\ \A b \in Actors : b # a => hold'[b] = hold[b] /\ org'[b] = org[b]
      BY <1>1, <2>4 DEF Split, Set, history
    <3>2. HeldRuns(a) /\ Head(hold[a]) \in Tasks
      BY <1>0, <1>1, <3>1, ListFacts
    <3>3. CASE a \in Workers
      <4>1. \A t \in Elems(heads'[s]) : runs[t] = 0
        BY <3>1, <3>2, <3>3, ActorsAre DEF HeldRuns
      <4>2. Fresh'
        BY <1>2, <2>0, <3>1, <4>1 DEF Fresh
      <4>3. HeldRuns(a)'
        <5>1. Head(hold'[a]) = Head(hold[a]) /\ Elems(Tail(hold'[a])) = {}
          BY <3>1, <3>2, ElemFacts
        <5>2. Busy(a)' <=> Busy(a)
          BY <2>0, <3>1 DEF Keeps
        <5> QED
          BY <2>0, <3>1, <3>2, <5>1, <5>2 DEF HeldRuns
      <4> QED
        BY <1>0, <1>3, <2>0, <3>1, <4>2, <4>3 DEF RunsOK
    <3>4. CASE a \notin Workers
      <4>1. hold'[a] = hold[a]
        BY <2>0, <3>1, <3>4 DEF Keeps
      <4>2. Elems(Tail(hold[a])) = {}
        <5>1. Tail(hold'[a]) = << >>
          BY <3>1, <3>2, ElemFacts
        <5> QED
          BY <4>1, <5>1, ElemFacts
      <4>3. Fresh'
        BY <1>2, <2>0, <3>1, <4>2 DEF Fresh
      <4> QED
        BY <1>0, <1>3, <2>0, <3>1, <4>1, <4>3 DEF RunsOK
    <3> QED
      BY <3>3, <3>4
  <2>5. ASSUME NEW a \in Actors, NEW s \in Slots, Return(a, s) PROVE RunsOK'
    <3>1. /\ org[a] # << >> /\ org'[a] = Tail(org[a])
          /\ heads'[s] = <<Head(org[a])>> \o heads[s]
          /\ item' = item /\ hold' = hold /\ UNCHANGED <<created, done>>
          /\ \A r \in Slots : r # s => heads'[r] = heads[r]
          /\ \A b \in Actors : b # a => org'[b] = org[b]
      BY <1>1, <2>5 DEF Return, Set, history
    <3>2. /\ Head(org[a]) \in Tasks
          /\ Elems(org[a]) = {Head(org[a])} \cup Elems(org'[a])
          /\ Elems(heads'[s]) = {Head(org[a])} \cup Elems(heads[s])
      <4>1. Head(org[a]) \in Tasks
        BY <1>1, <3>1, ListFacts
      <4> QED
        BY <1>1, <3>1, <4>1, ElemFacts
    <3>3. Fresh'
      BY <1>2, <2>0, <3>1, <3>2 DEF Fresh
    <3> QED
      BY <1>0, <1>3, <2>0, <3>1, <3>3 DEF RunsOK
  <2>6. ASSUME NEW a \in Actors, NEW t \in Tasks, Enter(a, t) PROVE RunsOK'
    <3>1. /\ item'[a] = t /\ t \notin created /\ heads' = heads /\ hold' = hold /\ org' = org
          /\ created' = created \cup {t} /\ UNCHANGED done
          /\ \A b \in Actors : b # a => item'[b] = item[b]
      BY <1>1, <2>6 DEF Enter, Set
    <3>2. Fresh'
      BY <1>0, <1>2, <2>0, <3>1 DEF Fresh
    <3> QED
      BY <1>0, <1>3, <2>0, <3>1, <3>2 DEF RunsOK
  <2>7. ASSUME NEW a \in Actors, Drop(a) PROVE RunsOK'
    <3>1. UNCHANGED done
      BY <1>7, SeenSteps DEF Queue
    <3>2. Head(hold[a]) \in done
      BY <1>7, <2>7, <3>1 DEF Drop
    <3>3. Head(hold[a]) \in Box(<<"hold", a>>) /\ <<"hold", a>> \in Boxes /\ Head(hold[a]) \in Tasks
      <4>1. Elems(hold[a]) = {Head(hold[a])} \cup Elems(Tail(hold[a])) /\ Head(hold[a]) \in Tasks
        BY <1>1, <2>7, ElemFacts, ListFacts DEF Drop
      <4> QED
        BY <4>1, BoxIs
    <3> QED
      BY <1>0, <3>2, <3>3 DEF Whole
  <2> QED
    BY <1>7, <2>1, <2>2, <2>3, <2>4, <2>5, <2>6, <2>7, Effects
<1> QED
  BY <1>4, <1>5, <1>6, <1>7

-----------------------------------------------------------------------------
(* The theorems                                                               *)

\* The invariant holds initially: no task, no list.
LEMMA BooksInit == Init => Books
<1> SUFFICES ASSUME Init PROVE Books
  OBVIOUS
<1>1. /\ \A s \in Slots : heads[s] = << >>
      /\ \A a \in Actors : hold[a] = << >> /\ org[a] = << >> /\ item[a] = None
      /\ \A a \in Actors : pc[a] \in {"idle", "exited"}
      /\ pc[Main] = "idle"
  BY ActorsAre DEF Init, EmptyHeads
<1>2. \A p \in Boxes : Box(p) = {}
  <2>1. /\ \A s \in Slots : Box(<<"head", s>>) = {}
        /\ \A a \in Actors : /\ Box(<<"hold", a>>) = {} /\ Box(<<"org", a>>) = {}
                             /\ Box(<<"item", a>>) = {}
    BY <1>1, BoxIs, ElemFacts
  <2> QED
    BY <2>1, BoxIs
<1>3. Apart /\ Whole
  BY <1>2 DEF Apart, Whole, Init
<1>4. NoRepeat
  BY <1>1, ElemFacts DEF NoRepeat
<1>5. EmptyOK
  BY <1>1 DEF EmptyOK, IdleOK, ReturnPCs, ExecPCs, QueuePCs, WakePCs
<1>6. DrainOK
  BY <1>1 DEF DrainOK, Init, JoinPCs
<1>7. RunsOK
  <2>1. Fresh
    BY <1>1, ElemFacts DEF Fresh
  <2>2. \A a \in Actors : HeldRuns(a)
    BY <1>1 DEF HeldRuns
  <2>3. \A t \in Tasks : (t \notin created => runs[t] = 0) /\ (t \in done => runs[t] = 1)
    BY DEF Init
  <2> QED
    BY <2>1, <2>2, <2>3 DEF RunsOK
<1>8. CountOK
  <2>1. created = {} /\ done = {} /\ taskCount = 0 /\ created \ done = {}
    BY DEF Init
  <2> QED
    BY <2>1, FS_EmptySet DEF CountOK
<1> QED
  BY <1>3, <1>4, <1>5, <1>6, <1>7, <1>8 DEF Books

\* A step that changes nothing keeps it.
LEMMA BooksStutter ==
    ASSUME Books, UNCHANGED vars
    PROVE  Books'
<1>1. UNCHANGED <<heads, hold, org, item, created, done, runs, taskCount, pc, ret, at, live, dirty>>
  BY DEF vars, counters, scan, chains, history, pool
<1>2. \A p \in Boxes : Box(p)' = Box(p)
  BY <1>1 DEF Box
<1>3. Apart' /\ Whole'
  BY <1>1, <1>2 DEF Books, Apart, Whole
<1>4. NoRepeat' /\ EmptyOK' /\ DrainOK' /\ CountOK'
  BY <1>1 DEF Books, NoRepeat, EmptyOK, IdleOK, DrainOK, Closing, CountOK
<1>5. \A a \in Actors : HeldRuns(a)'
  BY <1>1 DEF Books, RunsOK, HeldRuns, Busy
<1>6. RunsOK'
  BY <1>1, <1>5 DEF Books, RunsOK, Fresh
<1> QED
  BY <1>3, <1>4, <1>6 DEF Books

\* The invariant holds in every behaviour.
LEMMA BooksHold == Spec => [](Shape /\ Books)
<1>1. Shape /\ Books /\ [Next]_vars => Books'
  BY BoxStep, TaskCountStep, EmptyStep, DrainStep, RunsStep, BooksStutter DEF Books
<1> QED
  BY <1>1, BooksInit, ShapeHolds, PTL DEF Spec

\* The places of a task are the boxes it is in.
LEMMA PlacesAreBoxes ==
    ASSUME NEW t \in Tasks
    PROVE  /\ Places(t) \subseteq Boxes
           /\ \A p \in Boxes : p \in Places(t) <=> t \in Box(p)
<1>0. t # None
  BY TaskAssumption
<1>1. ASSUME NEW s \in Slots PROVE <<"head", s>> \in Places(t) <=> t \in Elems(heads[s])
  BY DEF Places
<1>2. ASSUME NEW a \in Actors
      PROVE  /\ <<"hold", a>> \in Places(t) <=> t \in Elems(hold[a])
             /\ <<"org", a>> \in Places(t) <=> t \in Elems(org[a])
             /\ <<"item", a>> \in Places(t) <=> t = item[a]
  BY DEF Places
<1>3. Places(t) \subseteq Boxes
  BY DEF Places, Boxes
<1>4. ASSUME NEW s \in Slots PROVE <<"head", s>> \in Places(t) <=> t \in Box(<<"head", s>>)
  BY <1>1, BoxIs
<1>5. ASSUME NEW a \in Actors
      PROVE  /\ <<"hold", a>> \in Places(t) <=> t \in Box(<<"hold", a>>)
             /\ <<"org", a>> \in Places(t) <=> t \in Box(<<"org", a>>)
             /\ <<"item", a>> \in Places(t) <=> t \in Box(<<"item", a>>)
  <2>1. /\ Box(<<"hold", a>>) = Elems(hold[a]) /\ Box(<<"org", a>>) = Elems(org[a])
        /\ Box(<<"item", a>>) = {item[a]} \ {None}
    BY BoxIs
  <2> QED
    BY <1>0, <1>2, <2>1
<1> QED
  BY <1>3, <1>4, <1>5, BoxIs

\* A task has a place while it is counted and not freed.
LEMMA Placed ==
    ASSUME Books, NEW t \in Tasks
    PROVE  Places(t) # {} <=> t \in created \ done
<1>1. Places(t) # {} <=> \E p \in Boxes : t \in Box(p)
  BY PlacesAreBoxes
<1> QED
  BY <1>1 DEF Books, Whole

\* However the detaching, putting back and repushing of poll_one_internal() interleave
\* with the pushes of any number of threads, every task whose callback has not returned
\* is in exactly one list, once; a freed one is in none.
THEOREM TasksKept == Spec => []EachTaskOnce
<1>1. Shape /\ Books => EachTaskOnce
  <2> SUFFICES ASSUME Shape, Books PROVE EachTaskOnce
    OBVIOUS
  <2>0. created \in SUBSET Tasks
    BY DEF Shape, RestOK
  <2>1. NoTaskLost
    BY <2>0, Placed DEF NoTaskLost
  <2>2. \A t \in Tasks : \A p, q \in Places(t) : p = q
    <3> SUFFICES ASSUME NEW t \in Tasks, NEW p \in Places(t), NEW q \in Places(t) PROVE p = q
      OBVIOUS
    <3>1. p \in Boxes /\ q \in Boxes /\ t \in Box(p) /\ t \in Box(q)
      BY PlacesAreBoxes
    <3> QED
      BY <3>1 DEF Books, Apart
  <2>3. \A t \in Tasks : Places(t) # {} => t \in created \ done
    BY Placed
  <2>4. NoTaskTwice
    BY <2>2, <2>3 DEF NoTaskTwice, Books, NoRepeat
  <2> QED
    BY <2>1, <2>4 DEF EachTaskOnce
<1> QED
  BY <1>1, BooksHold, PTL

\* The three counters of the pool are exact on every path: running_count, the waiting
\* threads, and task_count, from which delay() decides to look for tasks.
THEOREM CountersRight == Spec => []CountersExact
<1>1. Shape /\ Books => CountersExact
  BY DEF Shape, CountsOK, Books, CountOK, CountersExact
<1> QED
  BY <1>1, BooksHold, PTL

\* join() returns only when every task was executed, and executed once, whatever was
\* queued by whom before, during and after the shutdown, over any number of restarts.
THEOREM JoinComplete == Spec => []JoinDrains
<1>1. Shape /\ Books => JoinDrains
  <2> SUFFICES ASSUME Shape, Books PROVE JoinDrains
    OBVIOUS
  <2>0. /\ ChainsOK /\ OwnerOK /\ RunsOK /\ Whole /\ CountOK /\ DrainOK /\ RestOK
        /\ \A a \in Actors : IdleOK(a) /\ HeldRuns(a)
    BY DEF Shape, Books, EmptyOK, RunsOK
  <2>1. ExecutedAtMostOnce
    <3> SUFFICES ASSUME NEW t \in Tasks PROVE runs[t] <= 1
      BY DEF ExecutedAtMostOnce
    <3>1. CASE t \notin created \/ t \in done
      BY <2>0, <3>1 DEF RunsOK
    <3>2. CASE t \in created \ done
      <4>1. PICK p \in Boxes : t \in Box(p)
        BY <2>0, <3>2 DEF Whole
      <4>2. CASE \E s \in Slots : p = <<"head", s>>
        <5>1. PICK s \in Slots : t \in Elems(heads[s])
          BY <4>1, <4>2, BoxIs
        <5> QED
          BY <2>0, <5>1 DEF RunsOK, Fresh
      <4>3. ASSUME NEW a \in Actors, p = <<"org", a>> \/ p = <<"item", a>> PROVE runs[t] <= 1
        <5>1. t \in Elems(org[a]) \/ (t = item[a] /\ item[a] # None)
          BY <4>1, <4>3, BoxIs
        <5>2. runs[t] = 0
          BY <2>0, <5>1 DEF RunsOK, Fresh
        <5> QED
          BY <5>2
      <4>4. ASSUME NEW a \in Actors, p = <<"hold", a>> PROVE runs[t] <= 1
        <5>1. t \in Elems(hold[a]) /\ hold[a] \in Seq(Tasks)
          BY <2>0, <4>1, <4>4, BoxIs, BoxTypes
        <5>2. hold[a] # << >>
          BY <5>1, ElemFacts
        <5>3. t = Head(hold[a]) \/ t \in Elems(Tail(hold[a]))
          BY <5>1, <5>2, ElemFacts
        <5>4. runs[t] = 0 \/ runs[t] = 1
          BY <2>0, <5>2, <5>3 DEF HeldRuns
        <5> QED
          BY <5>4
      <4> QED
        BY <4>1, <4>2, <4>3, <4>4, BoxIs
    <3> QED
      BY <3>1, <3>2
  <2>2. pc[Main] = "drain" => running = 0 /\ waiting = 0
    <3> SUFFICES ASSUME pc[Main] = "drain" PROVE running = 0 /\ waiting = 0
      OBVIOUS
    <3>1. \A w \in Workers : pc[w] = "exited"
      BY <2>0 DEF OwnerOK, Closing
    <3>2. Polling = {} /\ Registered = {}
      BY <3>1 DEF Polling, Registered, PollPCs, QueuePCs, WakePCs, ExecPCs, DelayPCs
    <3> QED
      BY <3>2, FS_EmptySet DEF Shape, CountsOK
  <2>3. pc[Main] = "idle" /\ ~live => created = done /\ taskCount = 0
    <3> SUFFICES ASSUME pc[Main] = "idle", ~live PROVE created = done /\ taskCount = 0
      OBVIOUS
    <3>1. \A a \in Actors : pc[a] \in {"idle", "exited"}
      BY <2>0, ActorsAre DEF OwnerOK
    <3>2. \A a \in Actors : hold[a] = << >> /\ org[a] = << >> /\ item[a] = None
      BY <2>0, <3>1 DEF IdleOK, ExecPCs, ReturnPCs, QueuePCs, WakePCs
    <3>3. \A s \in Slots : heads[s] = << >>
      BY <2>0 DEF DrainOK
    <3>4. \A p \in Boxes : Box(p) = {}
      <4>1. /\ \A s \in Slots : Box(<<"head", s>>) = {}
            /\ \A a \in Actors : /\ Box(<<"hold", a>>) = {} /\ Box(<<"org", a>>) = {}
                                 /\ Box(<<"item", a>>) = {}
        BY <3>2, <3>3, BoxIs, ElemFacts
      <4> QED
        BY <4>1, BoxIs
    <3>5. created \ done = {} /\ created = done
      BY <2>0, <3>4 DEF Whole, CountOK, RestOK
    <3> QED
      BY <2>0, <3>5, FS_EmptySet DEF CountOK
  <2> QED
    BY <2>1, <2>2, <2>3 DEF JoinDrains
<1> QED
  BY <1>1, BooksHold, PTL

-----------------------------------------------------------------------------
(* The pool implements TaskPool                                               *)

\* The refinement mapping without the lists.
Submitted == {t \in created \ done : runs[t] = 0}
Started == {t \in created \ done : runs[t] > 0}

\* The mapping of Implements is this one.
LEMMA MappingIs ==
    ASSUME Shape, Books
    PROVE  /\ {t \in Tasks : Waiting(t)} = Submitted
           /\ {t \in Tasks : Places(t) # {} /\ runs[t] > 0} = Started
<1>1. created \in SUBSET Tasks
  BY DEF Shape, RestOK
<1> QED
  BY <1>1, Placed DEF Submitted, Started, Waiting

\* A task that is first in the list of an actor about to call it, or that returns from it.
LEMMA FirstTask ==
    ASSUME Shape, Books, NEW a \in Actors, pc[a] \in ExecPCs
    PROVE  /\ Head(hold[a]) \in created \ done /\ Head(hold[a]) \in Tasks
           /\ pc[a] = "exec" => runs[Head(hold[a])] = 0
           /\ pc[a] = "finish" => runs[Head(hold[a])] = 1
<1>1. hold[a] # << >> /\ hold[a] \in Seq(Tasks)
  BY DEF Shape, ChainsOK
<1>2. Elems(hold[a]) = {Head(hold[a])} \cup Elems(Tail(hold[a])) /\ Head(hold[a]) \in Tasks
  BY <1>1, ElemFacts, ListFacts
<1>3. Head(hold[a]) \in Box(<<"hold", a>>) /\ <<"hold", a>> \in Boxes
  BY <1>2, BoxIs
<1>4. Head(hold[a]) \in created \ done
  BY <1>2, <1>3 DEF Books, Whole
<1>5. HeldRuns(a)
  BY DEF Books, RunsOK
<1> QED
  BY <1>1, <1>2, <1>4, <1>5 DEF HeldRuns, Busy, QueuePCs, WakePCs

\* Every step of the pool is a step of TaskPool or invisible to it.
LEMMA PoolStep ==
    ASSUME Shape, Books, Shape', Books', [Next]_vars
    PROVE  [Implements!PoolNext]_(Implements!poolVars)
<1>0. /\ {t \in Tasks : Waiting(t)} = Submitted
      /\ {t \in Tasks : Places(t) # {} /\ runs[t] > 0} = Started
      /\ {t \in Tasks : Waiting(t)}' = Submitted'
      /\ {t \in Tasks : Places(t) # {} /\ runs[t] > 0}' = Started'
      /\ created \in SUBSET Tasks /\ done \subseteq created /\ runs \in [Tasks -> Nat]
  <2>1. /\ {t \in Tasks : Waiting(t)} = Submitted
        /\ {t \in Tasks : Places(t) # {} /\ runs[t] > 0} = Started
    BY MappingIs
  <2>2. (Shape /\ Books => /\ {t \in Tasks : Waiting(t)} = Submitted
                           /\ {t \in Tasks : Places(t) # {} /\ runs[t] > 0} = Started)'
    BY MappingIs, PTL
  <2>3. /\ {t \in Tasks : Waiting(t)}' = Submitted'
        /\ {t \in Tasks : Places(t) # {} /\ runs[t] > 0}' = Started'
    BY <2>2
  <2> QED
    BY <2>1, <2>3 DEF Shape, RestOK, Books, CountOK
<1>1. CASE UNCHANGED <<created, done, runs>>
  <2>1. Submitted' = Submitted /\ Started' = Started
    BY <1>1 DEF Submitted, Started
  <2> QED
    BY <1>0, <1>1, <2>1 DEF Implements!poolVars
<1>2. CASE Queue
  <2>1. PICK t \in Tasks : t \notin created /\ created' = created \cup {t} /\ UNCHANGED <<done, runs>>
    BY <1>2, TaskAssumption DEF Queue, NewTask
  <2>2. runs[t] = 0
    BY <2>1 DEF Books, RunsOK
  <2>3. Submitted' = Submitted \cup {t} /\ Started' = Started
    BY <1>0, <2>1, <2>2 DEF Submitted, Started
  <2>4. t \notin Submitted \cup Started \cup done
    BY <1>0, <2>1 DEF Submitted, Started
  <2>5. Implements!Submit(t)
    BY <1>0, <2>1, <2>3, <2>4 DEF Implements!Submit
  <2> QED
    BY <2>5 DEF Implements!PoolNext
<1>3. ASSUME NEW a \in Actors, Exec(a) PROVE Implements!PoolNext
  <2>0. PICK t \in Tasks : t = Head(hold[a])
    BY <1>3, FirstTask DEF Exec, ExecPCs
  <2>1. t \in created \ done /\ t \in Tasks /\ runs[t] = 0
    BY <1>3, <2>0, FirstTask DEF Exec, ExecPCs
  <2>2. runs' = [runs EXCEPT ![t] = @ + 1] /\ UNCHANGED done
    BY <1>3, <2>0 DEF Exec
  <2>3. runs'[t] = 1 /\ \A u \in Tasks : u # t => runs'[u] = runs[u]
    BY <1>0, <2>1, <2>2
  <2>4. t \in Submitted
    BY <2>1 DEF Submitted
  <2>5. CASE UNCHANGED created
    <3>1. Submitted' = Submitted \ {t} /\ Started' = Started \cup {t}
      BY <1>0, <2>1, <2>2, <2>3, <2>5 DEF Submitted, Started
    <3>2. Implements!Begin(t)
      BY <1>0, <2>2, <2>4, <3>1 DEF Implements!Begin
    <3> QED
      BY <2>1, <3>2 DEF Implements!PoolNext
  <2>6. CASE \E u \in Tasks : u \notin created /\ created' = created \cup {u}
    <3>1. PICK u \in Tasks : u \notin created /\ created' = created \cup {u}
      BY <2>6
    <3>2. runs'[u] = 0 /\ u # t
      BY <2>1, <2>3, <3>1 DEF Books, RunsOK
    <3>3. Submitted' = (Submitted \ {t}) \cup {u} /\ Started' = Started \cup {t}
      BY <1>0, <2>1, <2>2, <2>3, <3>1, <3>2 DEF Submitted, Started
    <3>4. u \in Tasks \ (Submitted \cup Started \cup done)
      BY <1>0, <3>1 DEF Submitted, Started
    <3>5. Implements!Begin(t)
      BY <1>0, <2>2, <2>4, <3>3, <3>4 DEF Implements!Begin
    <3> QED
      BY <2>1, <3>5 DEF Implements!PoolNext
  <2> QED
    BY <1>3, <2>0, <2>1, <2>5, <2>6, TaskAssumption DEF Exec, NewTask
<1>4. ASSUME NEW a \in Actors, Finish(a) PROVE Implements!PoolNext
  <2>0. PICK t \in Tasks : t = Head(hold[a])
    BY <1>4, FirstTask DEF Finish, ExecPCs
  <2>1. t \in created \ done /\ t \in Tasks /\ runs[t] = 1
    BY <1>4, <2>0, FirstTask DEF Finish, ExecPCs
  <2>2. done' = done \cup {t} /\ UNCHANGED <<created, runs>>
    BY <1>4, <2>0 DEF Finish
  <2>3. Submitted' = Submitted /\ Started' = Started \ {t} /\ t \in Started
    BY <1>0, <2>1, <2>2 DEF Submitted, Started
  <2>4. Implements!End(t)
    BY <1>0, <2>2, <2>3 DEF Implements!End
  <2> QED
    BY <2>1, <2>4 DEF Implements!PoolNext
<1>5. CASE UNCHANGED vars
  <2>1. UNCHANGED <<created, done, runs>>
    BY <1>5 DEF vars, history
  <2> QED
    BY <1>1, <2>1
<1> QED
  BY <1>1, <1>2, <1>3, <1>4, <1>5, SeenSteps

\* The lock-free pool implements the abstract one: seen as the sets of waiting, executing
\* and finished tasks, each of its steps is a submission, a beginning, an end, or nothing.
THEOREM PoolRefined == Spec => RefinesTaskPool
<1>1. Init => Implements!PoolInit
  <2> SUFFICES ASSUME Init PROVE Implements!PoolInit
    OBVIOUS
  <2>1. Shape /\ Books
    BY ShapeInit, BooksInit
  <2>2. /\ {t \in Tasks : Waiting(t)} = Submitted
        /\ {t \in Tasks : Places(t) # {} /\ runs[t] > 0} = Started
    BY <2>1, MappingIs
  <2>3. Submitted = {} /\ Started = {} /\ done = {}
    BY DEF Init, Submitted, Started
  <2> QED
    BY <2>2, <2>3 DEF Implements!PoolInit
<1>2. Shape /\ Books /\ (Shape /\ Books)' /\ [Next]_vars => [Implements!PoolNext]_(Implements!poolVars)
  BY PoolStep
<1> QED
  BY <1>1, <1>2, BooksHold, PTL DEF Spec, RefinesTaskPool, Implements!PoolSpec
=============================================================================
