-------------------------- MODULE CoroutineProofs --------------------------
(***************************************************************************)
(* What coroutines synchronise with and are moved by, for any number of    *)
(* coroutines, threads, warps, frames and awaitables.  Each part has its   *)
(* own inductive invariant; the parts share no state, so a step of the     *)
(* composition is a step of one of them and a stutter of the others.       *)
(***************************************************************************)
EXTENDS MCCoroutines, SyncProofs

-----------------------------------------------------------------------------
(* iris_event_t                                                              *)

\* Whoever is between the double check and the push, or between the store of the
\* flag and the swap, holds the lock; the flag cannot be raised before the push.
EventPCs == {"start", "idle", "done", "suspend", "dispatch", "check", "push", "waiting",
             "ready", "swap", "wake"}

EventInv ==
    /\ \A a \in EventWaiters : eventPc[a] = "push" => eventLock = a /\ ~signaled
    /\ \A n \in EventNotifiers : eventPc[n] = "swap" => eventLock = n
    /\ eventPc \in [EventWaiters \cup EventNotifiers -> EventPCs] /\ signaled \in BOOLEAN
    /\ eventHandles \in Seq(EventWaiters)
    /\ setHandles \in [EventNotifiers -> Seq(EventWaiters)]
    /\ signaled /\ eventHandles # <<>> => eventLock \in EventNotifiers
    /\ eventLock \in EventNotifiers => eventPc[eventLock] = "swap"

LEMMA EventStarts == EventInit => EventInv
<1> SUFFICES ASSUME EventInit PROVE EventInv
  OBVIOUS
<1>1. eventHandles \in Seq(EventWaiters) /\ setHandles \in [EventNotifiers -> Seq(EventWaiters)]
  BY DEF EventInit
<1> QED
  BY <1>1, EventAssumption DEF EventInit, EventInv, EventPCs

LEMMA EventKeeps == EventInv /\ [EventNext]_eventVars => EventInv'
<1> SUFFICES ASSUME EventInv, [EventNext]_eventVars PROVE EventInv'
  OBVIOUS
<1> USE EventAssumption DEF EventInv, EventGoto, EventPCs
<1>1. ASSUME NEW w \in EventWaiters, EventWaiterStep(w) PROVE EventInv'
  <2>1. CASE EventAwaitReady(w)   BY <2>1 DEF EventAwaitReady
  <2>2. CASE EventFirstCheck(w)   BY <2>2 DEF EventFirstCheck
  <2>3. CASE EventDoubleCheck(w)  BY <2>3 DEF EventDoubleCheck
  <2>4. CASE EventPush(w)         BY <2>4 DEF EventPush
  <2>5. CASE EventDispatch(w)     BY <2>5 DEF EventDispatch
  <2>6. CASE EventResume(w)       BY <2>6 DEF EventResume
  <2> QED
    BY <1>1, <2>1, <2>2, <2>3, <2>4, <2>5, <2>6 DEF EventWaiterStep
<1>2. ASSUME NEW n \in EventNotifiers,
             EventReset(n) \/ EventNotify(n) \/ EventNotifierStep(n)
      PROVE  EventInv'
  <2>1. CASE EventReset(n)        BY <2>1 DEF EventReset
  <2>2. CASE EventNotify(n)       BY <2>2 DEF EventNotify
  <2>3. CASE EventSwap(n)         BY <2>3 DEF EventSwap
  <2>4. CASE EventWake(n)
    <3>1. CASE setHandles[n] = <<>>
      BY <2>4, <3>1 DEF EventWake
    <3>2. CASE setHandles[n] # <<>>
      <4>1. Head(setHandles[n]) \in EventWaiters /\ Tail(setHandles[n]) \in Seq(EventWaiters)
        BY <3>2
      <4>2. PICK a \in EventWaiters : a = Head(setHandles[n])
        BY <4>1
      <4>3. /\ eventPc' = [eventPc EXCEPT ![a] = "ready"]
            /\ setHandles' = [setHandles EXCEPT ![n] = Tail(@)]
            /\ UNCHANGED <<signaled, eventLock, eventHandles>>
        BY <2>4, <3>2, <4>2 DEF EventWake
      <4> QED
        BY <4>1, <4>3
    <3> QED
      BY <3>1, <3>2
  <2> QED
    BY <1>2, <2>1, <2>2, <2>3, <2>4 DEF EventNotifierStep
<1>3. CASE UNCHANGED eventVars
  BY <1>3 DEF eventVars
<1> QED
  BY <1>1, <1>2, <1>3 DEF EventNext

LEMMA EventRight == EventInv => NoWaiterOnSignaled
  BY EventAssumption DEF EventInv, NoWaiterOnSignaled

-----------------------------------------------------------------------------
(* iris_select_t                                                             *)

\* The handle is there until the first callback takes it, and callbacks are in
\* warps the loop has passed.
SelectInv ==
    /\ position \in 1 .. Candidates
    /\ resumed = IF sharedHandle THEN 0 ELSE 1
    /\ sharedHandle <=> selected = 0
    /\ selected \in 0 .. position
    /\ \A w \in selPosted : w \in 1 .. position
    /\ sharedHandle \in BOOLEAN

LEMMA SelectStarts == SelectInit => SelectInv
  BY SelectAssumption DEF SelectInit, SelectInv

LEMMA SelectKeeps == SelectInv /\ [SelectNext]_selectVars => SelectInv'
<1> SUFFICES ASSUME SelectInv, [SelectNext]_selectVars PROVE SelectInv'
  OBVIOUS
<1> USE SelectAssumption DEF SelectInv
<1>1. CASE SelectPost       BY <1>1 DEF SelectPost
<1>2. CASE SelectCheck      BY <1>2 DEF SelectCheck
<1>3. CASE SelectNextWarp   BY <1>3 DEF SelectNextWarp
<1>4. CASE SelectEnd        BY <1>4 DEF SelectEnd
<1>5. ASSUME NEW w \in 1 .. Candidates, SelectCallback(w) PROVE SelectInv'
  <2>1. CASE sharedHandle
    <3>1. w \in 1 .. position /\ resumed = 0 /\ sharedHandle = TRUE
      BY <1>5, <2>1 DEF SelectCallback
    <3>2. /\ sharedHandle' = FALSE /\ selected' = w /\ resumed' = resumed + 1
          /\ selPosted' = selPosted \ {w} /\ position' = position
      BY <1>5, <2>1 DEF SelectCallback
    <3>3. selected' \in 0 .. position' /\ selected' # 0 /\ resumed' = 1
      BY <3>1, <3>2
    <3> QED
      BY <3>2, <3>3
  <2>2. CASE ~sharedHandle
    BY <1>5, <2>2 DEF SelectCallback
  <2> QED
    BY <2>1, <2>2
<1>6. CASE UNCHANGED selectVars
  BY <1>6 DEF selectVars
<1> QED
  BY <1>1, <1>2, <1>3, <1>4, <1>5, <1>6 DEF SelectNext

LEMMA SelectRight == SelectInv => SelectedOnce
  BY SelectAssumption DEF SelectInv, SelectedOnce

-----------------------------------------------------------------------------
(* iris_pipe_t                                                               *)

\* Producers with an element that is not yet counted, in `prepared' or as claimed.
Pending == {p \in Producers : pipePc[p] \in {"flush", "take", "plock", "starve"}}

(***************************************************************************)
(* Every element is counted, is claimed by a coroutine that was dispatched *)
(* or belongs to a producer still at work; every handle is counted, is     *)
(* claimed by a producer or belongs to a coroutine about to count it.      *)
(***************************************************************************)
TopInv ==
    /\ Cardinality(In(Consumers, "ready")) + prepared + Cardinality(Pending) <= elements
    /\ Cardinality(In(Producers, "take")) + waiting + Cardinality(In(Consumers, "count"))
         <= Len(handles)

PipeInv == RendezvousInv /\ TopInv

\* The sets above are finite.
LEMMA PipeSets ==
    /\ \A l : /\ IsFiniteSet(In(Consumers, l)) /\ Cardinality(In(Consumers, l)) \in Nat
              /\ IsFiniteSet(In(Producers, l)) /\ Cardinality(In(Producers, l)) \in Nat
    /\ IsFiniteSet(Pending) /\ Cardinality(Pending) \in Nat
<1>1. \A l : IsFiniteSet(In(Consumers, l)) /\ IsFiniteSet(In(Producers, l))
  BY PipeAssumption, FS_Subset DEF In
<1>2. IsFiniteSet(Pending)
  BY PipeAssumption, FS_Subset DEF Pending
<1> QED
  BY <1>1, <1>2, FS_CardinalityType

\* Adding or removing one element moves a cardinality by one at most.
LEMMA AddOne ==
  ASSUME NEW S, NEW T, NEW x, IsFiniteSet(S), T \subseteq S \cup {x}
  PROVE  IsFiniteSet(T) /\ Cardinality(T) <= Cardinality(S) + 1
<1>1. IsFiniteSet(S \cup {x}) /\ Cardinality(S) \in Nat
  BY FS_AddElement, FS_CardinalityType
<1>2. Cardinality(S \cup {x}) \in {Cardinality(S), Cardinality(S) + 1}
  BY FS_AddElement
<1>3. IsFiniteSet(T) /\ Cardinality(T) <= Cardinality(S \cup {x}) /\ Cardinality(T) \in Nat
  BY <1>1, FS_Subset, FS_CardinalityType
<1> QED
  BY <1>1, <1>2, <1>3

LEMMA DropOne ==
  ASSUME NEW S, NEW T, NEW x \in S, IsFiniteSet(S), T \subseteq S \ {x}
  PROVE  IsFiniteSet(T) /\ Cardinality(T) <= Cardinality(S) - 1
<1>1. IsFiniteSet(S \ {x}) /\ Cardinality(S \ {x}) = Cardinality(S) - 1
  BY FS_RemoveElement
<1> QED
  BY <1>1, FS_Subset

LEMMA NoMore ==
  ASSUME NEW S, NEW T, IsFiniteSet(S), T \subseteq S
  PROVE  IsFiniteSet(T) /\ Cardinality(T) <= Cardinality(S)
BY FS_Subset

LEMMA PipeStarts == PipeInit => PipeInv
<1> SUFFICES ASSUME PipeInit PROVE TopInv
  BY RendezvousInit DEF PipeInv
<1>1. In(Consumers, "ready") = {} /\ In(Producers, "take") = {}
      /\ In(Consumers, "count") = {} /\ Pending = {}
  BY DEF PipeInit, In, Pending, PipeActors
<1>2. /\ Cardinality(In(Consumers, "ready")) = 0 /\ Cardinality(In(Producers, "take")) = 0
      /\ Cardinality(In(Consumers, "count")) = 0 /\ Cardinality(Pending) = 0
  BY <1>1, FS_EmptySet
<1>3. Len(handles) = 0
  BY DEF PipeInit
<1>4. prepared = 0 /\ elements = 0 /\ waiting = 0
  BY DEF PipeInit
<1> QED
  BY <1>2, <1>3, <1>4 DEF TopInv

LEMMA PipeKeeps == PipeInv /\ [PipeNext]_pipeVars => PipeInv'
<1> SUFFICES ASSUME RendezvousInv, TopInv, [PipeNext]_pipeVars PROVE TopInv'
  BY RendezvousStep DEF PipeInv
<1> DEFINE R == In(Consumers, "ready")
           K == In(Consumers, "count")
           T == In(Producers, "take")
<1>0. /\ IsFiniteSet(R) /\ IsFiniteSet(K) /\ IsFiniteSet(T) /\ IsFiniteSet(Pending)
      /\ Cardinality(R) \in Nat /\ Cardinality(K) \in Nat /\ Cardinality(T) \in Nat
      /\ Cardinality(Pending) \in Nat
  BY PipeSets
<1>a. /\ IsFiniteSet(R') /\ IsFiniteSet(K') /\ IsFiniteSet(T') /\ IsFiniteSet(Pending')
      /\ Cardinality(R') \in Nat /\ Cardinality(K') \in Nat /\ Cardinality(T') \in Nat
      /\ Cardinality(Pending') \in Nat
  <2>1. R' \subseteq Consumers /\ K' \subseteq Consumers /\ T' \subseteq Producers
        /\ Pending' \subseteq Producers
    BY DEF In, Pending
  <2>2. IsFiniteSet(R') /\ IsFiniteSet(K') /\ IsFiniteSet(T') /\ IsFiniteSet(Pending')
    BY <2>1, PipeAssumption, FS_Subset
  <2> QED
    BY <2>2, FS_CardinalityType
<1>b. /\ prepared \in Nat /\ waiting \in Nat /\ elements \in Nat
      /\ handles \in Seq(Consumers) /\ Len(handles) \in Nat
      /\ pipePc \in [PipeActors -> PipePCs]
      /\ Producers \cap Consumers = {}
  BY PipeAssumption DEF RendezvousInv, PipeTypeOK
<1>k. prepared \in Nat /\ waiting \in Nat /\ elements \in Nat /\ Len(handles) \in Nat
  BY <1>b
<1>m. /\ Cardinality(R) \in Nat /\ Cardinality(R') \in Nat
      /\ Cardinality(Pending) \in Nat /\ Cardinality(Pending') \in Nat
  BY <1>0, <1>a
<1>n. /\ Cardinality(T) \in Nat /\ Cardinality(T') \in Nat
      /\ Cardinality(K) \in Nat /\ Cardinality(K') \in Nat
  BY <1>0, <1>a
<1>x. Cardinality(R) + prepared + Cardinality(Pending) <= elements
  BY DEF TopInv
<1>y. Cardinality(T) + waiting + Cardinality(K) <= Len(handles)
  BY DEF TopInv
<1>d. ASSUME /\ Cardinality(R') + prepared' + Cardinality(Pending') <= elements'
             /\ Cardinality(T') + waiting' + Cardinality(K') <= Len(handles')
      PROVE  TopInv'
  BY <1>d DEF TopInv
<1>e. ASSUME R' \subseteq R PROVE Cardinality(R') <= Cardinality(R)
  BY <1>0, <1>e, NoMore
<1>f. ASSUME K' \subseteq K PROVE Cardinality(K') <= Cardinality(K)
  BY <1>0, <1>f, NoMore
<1>g. ASSUME T' \subseteq T PROVE Cardinality(T') <= Cardinality(T)
  BY <1>0, <1>g, NoMore
<1>h. ASSUME Pending' \subseteq Pending PROVE Cardinality(Pending') <= Cardinality(Pending)
  BY <1>0, <1>h, NoMore
<1>1. ASSUME NEW c \in Consumers, ConsumerStep(c) PROVE TopInv'
  <2>0. T' = T /\ Pending' = Pending /\ c \in PipeActors
    BY <1>1, <1>b DEF ConsumerStep, AwaitSuspend, AwaitFast, AwaitRetry, AwaitPush,
       AwaitCount, AwaitResume, PipeGoto, In, Pending, PipeActors
  <2>1. CASE AwaitSuspend(c)
    <3>1. R' \subseteq R /\ K' \subseteq K
      BY <2>1, <1>b DEF AwaitSuspend, PipeGoto, In, PipeActors
    <3>2. prepared' = prepared /\ waiting' = waiting /\ elements' = elements /\ Len(handles') = Len(handles)
      BY <2>1 DEF AwaitSuspend
    <3>3. Cardinality(R') <= Cardinality(R) /\ Cardinality(K') <= Cardinality(K)
      BY <3>1, <1>e, <1>f
    <3>4. Cardinality(T') = Cardinality(T) /\ Cardinality(Pending') = Cardinality(Pending)
      BY <2>0
    <3>5. Len(handles') = Len(handles)
      BY <3>2
    <3> HIDE DEF R, K, T
    <3>98. Cardinality(R') + prepared' + Cardinality(Pending') <= elements'
      BY <3>2, <3>3, <3>4, <3>5, <1>k, <1>m, <1>x
    <3>99. Cardinality(T') + waiting' + Cardinality(K') <= Len(handles')
      BY <3>2, <3>3, <3>4, <3>5, <1>k, <1>n, <1>y
    <3> QED
      BY <3>98, <3>99, <1>d
  <2>2. ASSUME prepared > 0, prepared' = prepared - 1, PipeGoto(c, "ready"),
               UNCHANGED <<waiting, elements, handles>>
        PROVE  TopInv'
    <3>1. R' \subseteq R \cup {c} /\ K' \subseteq K
      BY <2>2, <1>b DEF PipeGoto, In, PipeActors
    <3>2. Cardinality(R') <= Cardinality(R) + 1
      BY <3>1, <1>0, AddOne
    <3>3. Cardinality(K') <= Cardinality(K) /\ Len(handles') = Len(handles)
      BY <3>1, <2>2, <1>f
    <3>4. Cardinality(T') = Cardinality(T) /\ Cardinality(Pending') = Cardinality(Pending)
      BY <2>0
    <3> HIDE DEF R, K, T
    <3>98. Cardinality(R') + prepared' + Cardinality(Pending') <= elements'
      BY <2>2, <3>2, <3>3, <3>4, <1>k, <1>m, <1>x
    <3>99. Cardinality(T') + waiting' + Cardinality(K') <= Len(handles')
      BY <2>2, <3>2, <3>3, <3>4, <1>k, <1>n, <1>y
    <3> QED
      BY <3>98, <3>99, <1>d
  <2>3. ASSUME NEW l \in {"lock", "push"}, UNCHANGED <<prepared, waiting, elements, handles>>,
               PipeGoto(c, l)
        PROVE  TopInv'
    <3>1. R' \subseteq R /\ K' \subseteq K
      BY <2>3, <1>b DEF PipeGoto, In, PipeActors
    <3>2. Cardinality(R') <= Cardinality(R) /\ Cardinality(K') <= Cardinality(K)
      BY <3>1, <1>e, <1>f
    <3>3. Cardinality(T') = Cardinality(T) /\ Cardinality(Pending') = Cardinality(Pending)
      BY <2>0
    <3>4. Len(handles') = Len(handles)
      BY <2>3
    <3> HIDE DEF R, K, T
    <3>98. Cardinality(R') + prepared' + Cardinality(Pending') <= elements'
      BY <2>3, <3>2, <3>3, <3>4, <1>k, <1>m, <1>x
    <3>99. Cardinality(T') + waiting' + Cardinality(K') <= Len(handles')
      BY <2>3, <3>2, <3>3, <3>4, <1>k, <1>n, <1>y
    <3> QED
      BY <3>98, <3>99, <1>d
  <2>4. CASE AwaitFast(c)
    BY <2>4, <2>2, <2>3 DEF AwaitFast
  <2>5. CASE AwaitRetry(c)
    BY <2>5, <2>2, <2>3 DEF AwaitRetry
  <2>6. CASE AwaitPush(c)
    <3>1. R' \subseteq R /\ K' \subseteq K \cup {c}
      BY <2>6, <1>b DEF AwaitPush, PipeGoto, In, PipeActors
    <3>2. Cardinality(K') <= Cardinality(K) + 1
      BY <3>1, <1>0, AddOne
    <3>3. Len(handles') = Len(handles) + 1
      BY <2>6, <1>b DEF AwaitPush
    <3>4. Cardinality(R') <= Cardinality(R)
      BY <3>1, <1>e
    <3>5. Cardinality(T') = Cardinality(T) /\ Cardinality(Pending') = Cardinality(Pending)
      BY <2>0
    <3>6. UNCHANGED <<prepared, waiting, elements>>
      BY <2>6 DEF AwaitPush
    <3> HIDE DEF R, K, T
    <3>98. Cardinality(R') + prepared' + Cardinality(Pending') <= elements'
      BY <3>2, <3>3, <3>4, <3>5, <3>6, <1>k, <1>m, <1>x
    <3>99. Cardinality(T') + waiting' + Cardinality(K') <= Len(handles')
      BY <3>2, <3>3, <3>4, <3>5, <3>6, <1>k, <1>n, <1>y
    <3> QED
      BY <3>98, <3>99, <1>d
  <2>7. CASE AwaitCount(c)
    <3>1. R' \subseteq R /\ K' \subseteq K \ {c} /\ c \in K
      BY <2>7, <1>b DEF AwaitCount, PipeGoto, In, PipeActors
    <3>2. Cardinality(K') <= Cardinality(K) - 1
      BY <3>1, <1>0, DropOne
    <3>3. Cardinality(R') <= Cardinality(R)
      BY <3>1, <1>e
    <3>4. Cardinality(T') = Cardinality(T) /\ Cardinality(Pending') = Cardinality(Pending)
      BY <2>0
    <3>5. waiting' = waiting + 1 /\ prepared' = prepared /\ elements' = elements /\ Len(handles') = Len(handles)
      BY <2>7 DEF AwaitCount
    <3> HIDE DEF R, K, T
    <3>98. Cardinality(R') + prepared' + Cardinality(Pending') <= elements'
      BY <3>2, <3>3, <3>4, <3>5, <1>k, <1>m, <1>x
    <3>99. Cardinality(T') + waiting' + Cardinality(K') <= Len(handles')
      BY <3>2, <3>3, <3>4, <3>5, <1>k, <1>n, <1>y
    <3> QED
      BY <3>98, <3>99, <1>d
  <2>8. CASE AwaitResume(c)
    <3>1. R' \subseteq R \ {c} /\ K' \subseteq K /\ c \in R
      BY <2>8, <1>b DEF AwaitResume, PipeGoto, In, PipeActors
    <3>2. Cardinality(R') <= Cardinality(R) - 1
      BY <3>1, <1>0, DropOne
    <3>3. Cardinality(K') <= Cardinality(K)
      BY <3>1, <1>f
    <3>4. Cardinality(T') = Cardinality(T) /\ Cardinality(Pending') = Cardinality(Pending)
      BY <2>0
    <3>5. elements' = elements - 1 /\ prepared' = prepared /\ waiting' = waiting /\ Len(handles') = Len(handles)
      BY <2>8 DEF AwaitResume
    <3> HIDE DEF R, K, T
    <3>98. Cardinality(R') + prepared' + Cardinality(Pending') <= elements'
      BY <3>2, <3>3, <3>4, <3>5, <1>k, <1>m, <1>x
    <3>99. Cardinality(T') + waiting' + Cardinality(K') <= Len(handles')
      BY <3>2, <3>3, <3>4, <3>5, <1>k, <1>n, <1>y
    <3> QED
      BY <3>98, <3>99, <1>d
  <2> QED
    BY <1>1, <2>1, <2>4, <2>5, <2>6, <2>7, <2>8 DEF ConsumerStep
<1>2. ASSUME NEW p \in Producers, ProducerStep(p) PROVE TopInv'
  <2>0. p \in PipeActors /\ p \notin Consumers
    BY <1>b DEF PipeActors
  <2>1. CASE Emplace(p)
    <3>1. R' \subseteq R /\ K' \subseteq K /\ T' \subseteq T /\ Pending' \subseteq Pending \cup {p}
      BY <2>1, <2>0, <1>b DEF Emplace, PipeGoto, In, Pending, PipeActors
    <3>2. Cardinality(Pending') <= Cardinality(Pending) + 1
      BY <3>1, <1>0, AddOne
    <3>3. Cardinality(R') <= Cardinality(R) /\ Cardinality(K') <= Cardinality(K) /\ Cardinality(T') <= Cardinality(T)
      BY <3>1, <1>e, <1>f, <1>g
    <3>4. elements' = elements + 1 /\ prepared' = prepared /\ waiting' = waiting /\ Len(handles') = Len(handles)
      BY <2>1 DEF Emplace
    <3> HIDE DEF R, K, T
    <3>98. Cardinality(R') + prepared' + Cardinality(Pending') <= elements'
      BY <3>2, <3>3, <3>4, <1>k, <1>m, <1>x
    <3>99. Cardinality(T') + waiting' + Cardinality(K') <= Len(handles')
      BY <3>2, <3>3, <3>4, <1>k, <1>n, <1>y
    <3> QED
      BY <3>98, <3>99, <1>d
  <2>2. CASE EmplaceFast(p)
    <3>1. R' \subseteq R /\ K' \subseteq K /\ Pending' \subseteq Pending
      BY <2>2, <2>0, <1>b DEF EmplaceFast, PipeGoto, In, Pending, PipeActors
    <3>2. CASE waiting > 0
      <4>1. T' \subseteq T \cup {p}
        BY <2>2, <3>2, <2>0, <1>b DEF EmplaceFast, PipeGoto, In, PipeActors
      <4>2. Cardinality(T') <= Cardinality(T) + 1
        BY <4>1, <1>0, AddOne
      <4>3. Cardinality(R') <= Cardinality(R) /\ Cardinality(K') <= Cardinality(K) /\ Cardinality(Pending') <= Cardinality(Pending)
        BY <3>1, <1>e, <1>f, <1>h
      <4>4. waiting' = waiting - 1 /\ prepared' = prepared /\ elements' = elements /\ Len(handles') = Len(handles)
        BY <2>2, <3>2 DEF EmplaceFast
      <4> HIDE DEF R, K, T
      <4>98. Cardinality(R') + prepared' + Cardinality(Pending') <= elements'
        BY <4>2, <4>3, <4>4, <1>k, <1>m, <1>x
      <4>99. Cardinality(T') + waiting' + Cardinality(K') <= Len(handles')
        BY <4>2, <4>3, <4>4, <1>k, <1>n, <1>y
      <4> QED
        BY <4>98, <4>99, <1>d
    <3>3. CASE ~(waiting > 0)
      <4>1. T' \subseteq T
        BY <2>2, <3>3, <2>0, <1>b DEF EmplaceFast, PipeGoto, In, PipeActors
      <4>2. Cardinality(R') <= Cardinality(R) /\ Cardinality(K') <= Cardinality(K) /\ Cardinality(Pending') <= Cardinality(Pending)
            /\ Cardinality(T') <= Cardinality(T)
        BY <3>1, <4>1, <1>e, <1>f, <1>g, <1>h
      <4>3. prepared' = prepared /\ waiting' = waiting /\ elements' = elements /\ Len(handles') = Len(handles)
        BY <2>2, <3>3 DEF EmplaceFast
      <4> HIDE DEF R, K, T
      <4>98. Cardinality(R') + prepared' + Cardinality(Pending') <= elements'
        BY <4>2, <4>3, <1>k, <1>m, <1>x
      <4>99. Cardinality(T') + waiting' + Cardinality(K') <= Len(handles')
        BY <4>2, <4>3, <1>k, <1>n, <1>y
      <4> QED
        BY <4>98, <4>99, <1>d
    <3> QED
      BY <3>2, <3>3
  \* A producer dispatches the coroutine on top.
  <2>3. ASSUME handles # <<>>, handles' = Tail(handles),
               pipePc' = [pipePc EXCEPT ![p] = "idle", ![Head(handles)] = "ready"],
               pipePc[p] \in {"take", "plock"}
        PROVE  /\ Cardinality(R') <= Cardinality(R) + 1
               /\ Cardinality(K') <= Cardinality(K)
               /\ Cardinality(Pending') <= Cardinality(Pending) - 1
               /\ Cardinality(T') <= Cardinality(T)
               /\ pipePc[p] = "take" => Cardinality(T') <= Cardinality(T) - 1
               /\ Len(handles') = Len(handles) - 1
    <3>1. Head(handles) \in Consumers /\ Len(handles') = Len(handles) - 1
      BY <2>3, <1>b
    <3>2. PICK c \in Consumers : c = Head(handles)
      BY <3>1
    <3>3. pipePc' = [pipePc EXCEPT ![p] = "idle", ![c] = "ready"] /\ c \in PipeActors
      BY <2>3, <3>2 DEF PipeActors
    <3>4. R' \subseteq R \cup {c}
      BY <3>3, <2>0, <1>b DEF In, PipeActors
    <3>5. K' \subseteq K
      BY <3>3, <2>0, <1>b DEF In, PipeActors
    <3>6. Pending' \subseteq Pending \ {p} /\ p \in Pending
      BY <2>3, <3>3, <2>0, <1>b DEF Pending, PipeActors
    <3>7. T' \subseteq T \ {p} /\ (pipePc[p] = "take" => p \in T)
      BY <2>3, <3>3, <2>0, <1>b DEF In, PipeActors
    <3>8. Cardinality(R') <= Cardinality(R) + 1
      BY <3>4, <1>0, AddOne
    <3>9. Cardinality(Pending') <= Cardinality(Pending) - 1
      BY <3>6, <1>0, DropOne
    <3>10. pipePc[p] = "take" => Cardinality(T') <= Cardinality(T) - 1
      BY <3>7, <1>0, DropOne
    <3>11. T' \subseteq T
      BY <3>7
    <3> HIDE DEF R, K, T
    <3> QED
      BY <3>1, <3>5, <3>8, <3>9, <3>10, <3>11, <1>f, <1>g
  <2>4. CASE EmplaceTake(p)
    <3>1. /\ handles # <<>> /\ handles' = Tail(handles) /\ pipePc[p] = "take"
          /\ pipePc' = [pipePc EXCEPT ![p] = "idle", ![Head(handles)] = "ready"]
          /\ UNCHANGED <<prepared, waiting, elements>>
      BY <2>4 DEF EmplaceTake
    <3>2. /\ Cardinality(R') <= Cardinality(R) + 1 /\ Cardinality(K') <= Cardinality(K)
          /\ Cardinality(Pending') <= Cardinality(Pending) - 1
          /\ Cardinality(T') <= Cardinality(T) - 1 /\ Len(handles') = Len(handles) - 1
      BY <3>1, <2>3
    <3>3. prepared' = prepared /\ waiting' = waiting /\ elements' = elements
      BY <3>1
    <3> HIDE DEF R, K, T
    <3>98. Cardinality(R') + prepared' + Cardinality(Pending') <= elements'
      BY <3>2, <3>3, <1>k, <1>m, <1>x
    <3>99. Cardinality(T') + waiting' + Cardinality(K') <= Len(handles')
      BY <3>2, <3>3, <1>k, <1>n, <1>y
    <3> QED
      BY <3>98, <3>99, <1>d
  <2>5. CASE EmplaceRetry(p)
    <3>1. CASE waiting > 0
      <4>1. /\ handles # <<>> /\ handles' = Tail(handles) /\ pipePc[p] = "plock"
            /\ pipePc' = [pipePc EXCEPT ![p] = "idle", ![Head(handles)] = "ready"]
        BY <2>5, <3>1 DEF EmplaceRetry
      <4>2. /\ Cardinality(R') <= Cardinality(R) + 1 /\ Cardinality(K') <= Cardinality(K)
            /\ Cardinality(Pending') <= Cardinality(Pending) - 1
            /\ Cardinality(T') <= Cardinality(T) /\ Len(handles') = Len(handles) - 1
        BY <4>1, <2>3
      <4>3. prepared' = prepared /\ waiting' = waiting - 1 /\ elements' = elements
        BY <2>5, <3>1 DEF EmplaceRetry
      <4> HIDE DEF R, K, T
      <4>98. Cardinality(R') + prepared' + Cardinality(Pending') <= elements'
        BY <4>2, <4>3, <1>k, <1>m, <1>x
      <4>99. Cardinality(T') + waiting' + Cardinality(K') <= Len(handles')
        BY <4>2, <4>3, <1>k, <1>n, <1>y
      <4> QED
        BY <4>98, <4>99, <1>d
    <3>2. CASE ~(waiting > 0)
      <4>1. R' \subseteq R /\ K' \subseteq K /\ T' \subseteq T /\ Pending' \subseteq Pending
        BY <2>5, <3>2, <2>0, <1>b DEF EmplaceRetry, PipeGoto, In, Pending, PipeActors
      <4>2. Cardinality(R') <= Cardinality(R) /\ Cardinality(K') <= Cardinality(K) /\ Cardinality(Pending') <= Cardinality(Pending)
            /\ Cardinality(T') <= Cardinality(T)
        BY <4>1, <1>e, <1>f, <1>g, <1>h
      <4>3. prepared' = prepared /\ waiting' = waiting /\ elements' = elements /\ Len(handles') = Len(handles)
        BY <2>5, <3>2 DEF EmplaceRetry
      <4> HIDE DEF R, K, T
      <4>98. Cardinality(R') + prepared' + Cardinality(Pending') <= elements'
        BY <4>2, <4>3, <1>k, <1>m, <1>x
      <4>99. Cardinality(T') + waiting' + Cardinality(K') <= Len(handles')
        BY <4>2, <4>3, <1>k, <1>n, <1>y
      <4> QED
        BY <4>98, <4>99, <1>d
    <3> QED
      BY <3>1, <3>2
  <2>6. CASE EmplaceStarve(p)
    <3>1. /\ R' \subseteq R /\ K' \subseteq K /\ T' \subseteq T
          /\ Pending' \subseteq Pending \ {p} /\ p \in Pending
      BY <2>6, <2>0, <1>b DEF EmplaceStarve, PipeGoto, In, Pending, PipeActors
    <3>2. Cardinality(Pending') <= Cardinality(Pending) - 1
      BY <3>1, <1>0, DropOne
    <3>3. Cardinality(R') <= Cardinality(R) /\ Cardinality(K') <= Cardinality(K) /\ Cardinality(T') <= Cardinality(T)
      BY <3>1, <1>e, <1>f, <1>g
    <3>4. prepared' = prepared + 1 /\ waiting' = waiting /\ elements' = elements /\ Len(handles') = Len(handles)
      BY <2>6 DEF EmplaceStarve
    <3> HIDE DEF R, K, T
    <3>98. Cardinality(R') + prepared' + Cardinality(Pending') <= elements'
      BY <3>2, <3>3, <3>4, <1>k, <1>m, <1>x
    <3>99. Cardinality(T') + waiting' + Cardinality(K') <= Len(handles')
      BY <3>2, <3>3, <3>4, <1>k, <1>n, <1>y
    <3> QED
      BY <3>98, <3>99, <1>d
  <2> QED
    BY <1>2, <2>1, <2>2, <2>4, <2>5, <2>6 DEF ProducerStep
<1>3. CASE UNCHANGED pipeVars
  BY <1>3 DEF pipeVars, TopInv, In, Pending
<1> QED
  BY <1>1, <1>2, <1>3 DEF PipeNext

LEMMA PipeRight == PipeInv => TopNeverEmpty
<1> SUFFICES ASSUME RendezvousInv, TopInv PROVE TopNeverEmpty
  BY DEF PipeInv
<1>1. /\ Cardinality(In(Consumers, "ready")) \in Nat
      /\ Cardinality(In(Consumers, "count")) \in Nat
      /\ Cardinality(In(Producers, "take")) \in Nat /\ Cardinality(Pending) \in Nat
  BY PipeSets
<1>2. /\ prepared \in Nat /\ waiting \in Nat /\ elements \in Nat /\ Len(handles) \in Nat
  BY DEF RendezvousInv, PipeTypeOK
<1> QED
  BY <1>1, <1>2 DEF TopInv, TopNeverEmpty

-----------------------------------------------------------------------------
(* iris_awaitable_t                                                          *)

Dispatched(t) == "dispatched" \in status[t]
Waited(t) == "waited" \in status[t]
Completed(t) == "completed" \in status[t]

AwTypes ==
    /\ pattern = <<>> \/ pattern \in Patterns
    /\ spawned \in 0 .. TaskCount /\ current \in 1 .. TaskCount + 1
    /\ pattern = <<>> => spawned = 0
    /\ status \in [Tasks -> SUBSET {"dispatched", "waited", "completed"}]
    /\ awaitPc \in [Tasks -> {"none", "handle", "wait", "redo", "left"}]
    /\ callbackPc \in [Tasks -> {"none", "queued", "resume", "complete", "resumeone", "done"}]
    /\ calls \in [Tasks -> Nat] /\ resumes \in [Tasks -> Nat] /\ suspends \in Nat

(***************************************************************************)
(* The bits of one awaitable against the three threads that meet on it:    *)
(* the one in await_suspend(), the routine, and the coroutine itself.      *)
(***************************************************************************)
AwBits(t) ==
    /\ ~Dispatched(t) => callbackPc[t] = "none" /\ calls[t] = 0 /\ ~Completed(t)
    /\ callbackPc[t] \in {"queued", "resume", "complete"} => ~Completed(t)
    /\ callbackPc[t] \in {"resumeone", "done"} => Completed(t)
    /\ callbackPc[t] = "none" /\ Dispatched(t) => Completed(t)
    /\ Completed(t) \/ callbackPc[t] \in {"resume", "complete"} => calls[t] = 1
    /\ callbackPc[t] = "queued" => calls[t] = 0
    /\ Waited(t) <=> awaitPc[t] \in {"redo", "left"}
    /\ resumes[t] <= 1
    /\ resumes[t] = 1 => Waited(t) /\ Completed(t) /\ callbackPc[t] # "resumeone"
    /\ callbackPc[t] = "resumeone" => Waited(t)

AwOrder(t) ==
    /\ pattern = <<>> => ~Dispatched(t) /\ awaitPc[t] = "none" /\ resumes[t] = 0
    /\ t > spawned /\ (pattern = <<>> \/ Eager) => ~Dispatched(t)
    /\ pattern # <<>> /\ Eager /\ t <= spawned => Dispatched(t)
    /\ awaitPc[t] # "none" /\ Eager => spawned = TaskCount
    /\ awaitPc[t] \in {"handle", "wait"} => current = t
    /\ awaitPc[t] = "redo" /\ (Warped \/ ~Dispatched(t)) => current = t
    /\ awaitPc[t] # "left" /\ pattern # <<>> /\ ~Eager => ~Dispatched(t)
    /\ current > t => Completed(t) /\ callbackPc[t] \in {"none", "done"}

AwKinds(t) ==
    /\ callbackPc[t] = "resume" => Kind = "parallel"
    /\ Dispatched(t) /\ Kind = "same" => Completed(t) /\ callbackPc[t] = "none"
    /\ awaitPc[t] # "none" => ~(Kind = "same" /\ Eager)

Suspending == {t \in Tasks : Kind = "parallel" /\ callbackPc[t] \in {"queued", "resume"}}

AwaitInv ==
    /\ AwTypes
    /\ \A t \in Tasks : AwBits(t) /\ AwOrder(t) /\ AwKinds(t)
    /\ suspends = Cardinality(Suspending)

LEMMA AwaitStarts == AwaitableInit => AwaitInv
<1> SUFFICES ASSUME AwaitableInit PROVE AwaitInv
  OBVIOUS
<1> USE AwaitableAssumption
<1>1. AwTypes
  BY DEF AwaitableInit, AwTypes
<1>2. \A t \in Tasks : AwBits(t)
  BY DEF AwaitableInit, AwBits, Dispatched, Waited, Completed
<1>3. \A t \in Tasks : AwOrder(t)
  BY DEF AwaitableInit, AwOrder, Dispatched, Completed, Tasks
<1>4. \A t \in Tasks : AwKinds(t)
  BY DEF AwaitableInit, AwKinds, Dispatched
<1>5. Suspending = {}
  BY DEF AwaitableInit, Suspending
<1> QED
  BY <1>1, <1>2, <1>3, <1>4, <1>5, FS_EmptySet DEF AwaitInv, AwaitableInit

LEMMA TasksFinite == IsFiniteSet(Tasks) /\ IsFiniteSet(Suspending)
<1>1. IsFiniteSet(Tasks)
  BY AwaitableAssumption, FS_Interval DEF Tasks
<1> QED
  BY <1>1, FS_Subset DEF Suspending

\* The launch of an awaitable that was not dispatched yet.
LEMMA LaunchKeeps ==
  ASSUME AwTypes, NEW t \in Tasks, pattern # <<>>, ~Dispatched(t), AwBits(t), Launch(t),
         suspends = Cardinality(Suspending), pattern' = pattern
  PROVE  /\ status' = [status EXCEPT ![t] = @ \cup (IF Kind = "same"
                                                    THEN {"dispatched", "completed"}
                                                    ELSE {"dispatched"})]
         /\ callbackPc' = [callbackPc EXCEPT ![t] = IF Kind = "same" THEN "none" ELSE "queued"]
         /\ calls' = [calls EXCEPT ![t] = IF Kind = "same" THEN 1 ELSE 0]
         /\ suspends' \in Nat /\ suspends' = Cardinality(Suspending')
<1>0. callbackPc[t] = "none" /\ calls[t] = 0
  BY DEF AwBits
<1>1. CASE Kind = "same"
  <2>1. callbackPc' = callbackPc /\ suspends' = suspends /\ calls' = [calls EXCEPT ![t] = @ + 1]
        /\ status' = [status EXCEPT ![t] = @ \cup {"dispatched", "completed"}]
    BY <1>1 DEF Launch, SetBit
  <2>2. Suspending' = Suspending
    BY <2>1 DEF Suspending, Kind
  <2> QED
    BY <1>0, <1>1, <2>1, <2>2 DEF AwTypes
<1>2. CASE Kind # "same"
  <2>1. /\ callbackPc' = [callbackPc EXCEPT ![t] = "queued"] /\ calls' = calls
        /\ status' = [status EXCEPT ![t] = @ \cup {"dispatched"}]
        /\ suspends' = IF Kind = "parallel" THEN suspends + 1 ELSE suspends
    BY <1>2 DEF Launch, SetBit, CbGoto
  <2>2. suspends' \in Nat /\ suspends' = Cardinality(Suspending')
    <3>1. CASE Kind = "parallel"
      <4>1. Suspending' = Suspending \cup {t} /\ t \notin Suspending
        BY <1>0, <2>1, <3>1 DEF Suspending, Kind, AwTypes
      <4>2. Cardinality(Suspending') = Cardinality(Suspending) + 1
        BY <4>1, TasksFinite, FS_AddElement
      <4> QED
        BY <2>1, <3>1, <4>2 DEF AwTypes
    <3>2. CASE Kind # "parallel"
      <4>1. Suspending' = Suspending
        BY <2>1, <3>2 DEF Suspending, Kind
      <4> QED
        BY <2>1, <3>2, <4>1 DEF AwTypes
    <3> QED
      BY <3>1, <3>2
  <2> QED
    BY <1>0, <1>2, <2>1, <2>2 DEF AwTypes
<1> QED
  BY <1>1, <1>2

\* A step about one awaitable leaves the others alone, and goes past this one only.
LEMMA AwOthers ==
  ASSUME AwaitInv, NEW t \in Tasks, NEW u \in Tasks, u # t, pattern' = pattern,
         status'[u] = status[u], awaitPc'[u] = awaitPc[u], callbackPc'[u] = callbackPc[u],
         calls'[u] = calls[u], resumes'[u] = resumes[u],
         current' = current \/ (current = t /\ current' = t + 1),
         spawned' = spawned \/ (Eager /\ pattern # <<>> /\ spawned < TaskCount
                                /\ t = spawned + 1 /\ spawned' = t)
  PROVE  AwBits(u)' /\ AwOrder(u)' /\ AwKinds(u)'
<1>1. AwBits(u) /\ AwOrder(u) /\ AwKinds(u) /\ AwTypes
  BY DEF AwaitInv
<1>2. /\ Dispatched(u)' <=> Dispatched(u)
      /\ Waited(u)' <=> Waited(u)
      /\ Completed(u)' <=> Completed(u)
      /\ Kind' = Kind /\ (Eager' <=> Eager) /\ (Warped' <=> Warped)
  BY DEF Dispatched, Waited, Completed, Kind, Eager, Warped
<1>3. AwBits(u)'
  BY <1>1, <1>2 DEF AwBits
<1>4. AwOrder(u)'
  <2>1. TaskCount \in Nat /\ t \in Nat /\ u \in Nat /\ spawned \in Nat /\ current \in Nat
    BY <1>1, AwaitableAssumption DEF AwTypes, Tasks
  <2>2. current' > u => current > u
    BY <2>1
  <2>3. current = u => current' = u
    BY <2>1
  <2>4. spawned' # spawned => spawned # TaskCount
    BY <2>1
  <2>5. (u > spawned' => u > spawned) /\ (u <= spawned' => u <= spawned)
    BY <2>1
  <2> QED
    BY <1>1, <1>2, <2>2, <2>3, <2>4, <2>5 DEF AwOrder
<1>5. AwKinds(u)'
  BY <1>1, <1>2 DEF AwKinds
<1> QED
  BY <1>3, <1>4, <1>5


\* What has to be shown of a step about one awaitable.
LEMMA AwStep ==
  ASSUME AwaitInv, NEW t \in Tasks, pattern' = pattern, AwTypes',
         \A u \in Tasks \ {t} :
            /\ status'[u] = status[u] /\ awaitPc'[u] = awaitPc[u]
            /\ callbackPc'[u] = callbackPc[u]
            /\ calls'[u] = calls[u] /\ resumes'[u] = resumes[u],
         current' = current \/ (current = t /\ current' = t + 1),
         spawned' = spawned \/ (Eager /\ pattern # <<>> /\ spawned < TaskCount
                                /\ t = spawned + 1 /\ spawned' = t),
         AwBits(t)', AwOrder(t)', AwKinds(t)', suspends' = Cardinality(Suspending')
  PROVE  AwaitInv'
<1>1. ASSUME NEW u \in Tasks PROVE AwBits(u)' /\ AwOrder(u)' /\ AwKinds(u)'
  <2>1. CASE u = t
    BY <2>1
  <2>2. CASE u # t
    BY <2>2, AwOthers
  <2> QED
    BY <2>1, <2>2
<1> QED
  BY <1>1 DEF AwaitInv

LEMMA AwaitKeeps == AwaitInv /\ [AwaitableNext]_awaitableVars => AwaitInv'
<1> SUFFICES ASSUME AwaitInv, [AwaitableNext]_awaitableVars PROVE AwaitInv'
  OBVIOUS
<1>a. AwTypes /\ suspends = Cardinality(Suspending)
  BY DEF AwaitInv
<1>b. TaskCount \in Nat
  BY AwaitableAssumption
<1>1. CASE StartCoroutine
  <2>1. /\ pattern = <<>> /\ pattern' \in Patterns
        /\ UNCHANGED <<status, resumeHandle, awaitPc, callbackPc, calls, resumes,
                       suspends, spawned, current>>
    BY <1>1 DEF StartCoroutine
  <2>2. AwTypes'
    BY <1>a, <2>1 DEF AwTypes
  <2>3. ASSUME NEW t \in Tasks PROVE AwBits(t)' /\ AwOrder(t)' /\ AwKinds(t)'
    <3>1. AwBits(t) /\ AwOrder(t)
      BY DEF AwaitInv
    <3>2. /\ Dispatched(t)' <=> Dispatched(t)
          /\ Waited(t)' <=> Waited(t)
          /\ Completed(t)' <=> Completed(t)
      BY <2>1 DEF Dispatched, Waited, Completed
    <3>3. AwBits(t)'
      BY <2>1, <3>1, <3>2 DEF AwBits
    <3>4. ~Dispatched(t) /\ awaitPc[t] = "none" /\ callbackPc[t] = "none" /\ ~(current > t)
          /\ resumes[t] = 0
      BY <2>1, <3>1 DEF AwOrder, AwBits
    <3>5. spawned = 0
      BY <1>a, <2>1 DEF AwTypes
    <3>6. ~(t <= spawned')
      BY <2>1, <3>5 DEF Tasks
    <3>7. AwOrder(t)'
      BY <2>1, <3>2, <3>4, <3>6 DEF AwOrder
    <3>8. AwKinds(t)'
      BY <2>1, <3>2, <3>4 DEF AwKinds
    <3> QED
      BY <3>3, <3>7, <3>8
  <2>5. Suspending = {} /\ Suspending' = {}
    <3>1. \A t \in Tasks : callbackPc[t] = "none"
      BY <2>1 DEF AwaitInv, AwOrder, AwBits
    <3> QED
      BY <2>1, <3>1 DEF Suspending
  <2> QED
    BY <1>a, <2>1, <2>2, <2>3, <2>5 DEF AwaitInv
<1>2. CASE FanOut
  <2>1. PICK t \in Tasks : t = spawned + 1
    BY <1>2, <1>a, <1>b DEF FanOut, AwTypes, Tasks
  <2>2. /\ pattern # <<>> /\ Eager /\ spawned < TaskCount /\ Launch(t) /\ spawned' = t
        /\ UNCHANGED <<pattern, resumeHandle, awaitPc, resumes, current>>
    BY <1>2, <2>1 DEF FanOut
  <2>3. AwBits(t) /\ AwOrder(t) /\ AwKinds(t)
    BY DEF AwaitInv
  <2>4. t > spawned /\ ~(t <= spawned)
    BY <1>a, <2>1 DEF AwTypes
  <2>5. ~Dispatched(t) /\ awaitPc[t] = "none"
    BY <1>a, <1>b, <2>2, <2>3, <2>4 DEF AwOrder, AwTypes
  <2>6. /\ status' = [status EXCEPT ![t] = @ \cup (IF Kind = "same"
                                                   THEN {"dispatched", "completed"}
                                                   ELSE {"dispatched"})]
        /\ callbackPc' = [callbackPc EXCEPT ![t] = IF Kind = "same" THEN "none" ELSE "queued"]
        /\ calls' = [calls EXCEPT ![t] = IF Kind = "same" THEN 1 ELSE 0]
        /\ suspends' \in Nat /\ suspends' = Cardinality(Suspending')
    BY <1>a, <2>2, <2>3, <2>5, LaunchKeeps
  <2>7. AwTypes'
    BY <1>a, <1>b, <2>1, <2>2, <2>6 DEF AwTypes, Tasks
  <2>8. /\ Dispatched(t)' /\ (Completed(t)' <=> Kind = "same")
        /\ (Waited(t)' <=> Waited(t))
        /\ callbackPc'[t] = (IF Kind = "same" THEN "none" ELSE "queued")
        /\ calls'[t] = (IF Kind = "same" THEN 1 ELSE 0)
    BY <1>a, <2>3, <2>5, <2>6 DEF AwTypes, Dispatched, Completed, Waited, AwBits
  <2>9. Kind' = Kind /\ (Eager' <=> Eager) /\ (Warped' <=> Warped)
    BY <2>2 DEF Kind, Eager, Warped
  <2>10. AwBits(t)'
    BY <2>2, <2>3, <2>5, <2>8 DEF AwBits
  <2>11. AwOrder(t)'
    <3>1. ~(current > t)
      BY <2>3, <2>5 DEF AwOrder, AwBits
    <3>2. ~(t > spawned') /\ spawned' = t
      BY <2>2, <2>1
    <3> QED
      BY <2>2, <2>3, <2>5, <2>8, <2>9, <3>1, <3>2 DEF AwOrder
  <2>12. AwKinds(t)'
    BY <2>2, <2>3, <2>5, <2>8, <2>9 DEF AwKinds
  <2> QED
    BY <1>a, <2>1, <2>2, <2>6, <2>7, <2>10, <2>11, <2>12, AwStep DEF AwTypes
<1>3. ASSUME NEW t \in Tasks,
             \/ AwaitReady(t) \/ StoreHandle(t) \/ SetWaited(t) \/ Redispatch(t)
             \/ ResumeCoroutine(t) \/ CallFunc(t) \/ ResumeTarget(t)
             \/ SetCompleted(t) \/ CallbackResume(t)
      PROVE  AwaitInv'
  <2>a. AwBits(t) /\ AwOrder(t) /\ AwKinds(t) /\ t \in Nat
    BY DEF AwaitInv, Tasks
  <2>b. pattern' = pattern /\ spawned' = spawned
    BY <1>3 DEF AwaitReady, StoreHandle, SetWaited, Redispatch, ResumeCoroutine, CallFunc,
       ResumeTarget, SetCompleted, CallbackResume
  <2>c. Kind' = Kind /\ (Eager' <=> Eager) /\ (Warped' <=> Warped)
    BY <2>b DEF Kind, Eager, Warped
  <2>d. current \in 1 .. TaskCount + 1
    BY <1>a DEF AwTypes
  \* No function starts or ends a suspension.
  <2>e. ASSUME callbackPc' = callbackPc, suspends' = suspends
        PROVE  suspends' = Cardinality(Suspending')
    <3>1. Suspending' = Suspending
      BY <2>e, <2>c DEF Suspending
    <3> QED
      BY <1>a, <2>e, <3>1
  <2>1. CASE AwaitReady(t)
    <3>1. /\ current = t /\ awaitPc[t] = "none" /\ pattern # <<>>
          /\ Eager => spawned = TaskCount
          /\ UNCHANGED <<status, callbackPc, calls, resumes, suspends>>
      BY <2>1 DEF AwaitReady
    <3>2. /\ Dispatched(t)' <=> Dispatched(t)
          /\ Waited(t)' <=> Waited(t)
          /\ Completed(t)' <=> Completed(t)
      BY <3>1 DEF Dispatched, Waited, Completed
    <3>3. CASE Completed(t)
      <4>1. current' = t + 1 /\ UNCHANGED awaitPc
        BY <2>1, <3>3 DEF AwaitReady, Completed
      <4>2. AwTypes'
        BY <1>a, <1>b, <2>b, <3>1, <4>1 DEF AwTypes, Tasks
      <4>3. AwBits(t)'
        BY <2>a, <3>1, <3>2, <4>1 DEF AwBits
      <4>4. callbackPc[t] \in {"none", "done"}
        BY <1>a, <2>a, <3>1, <3>3 DEF AwBits, AwTypes
      <4>5. AwOrder(t)'
        BY <2>a, <2>b, <2>c, <3>1, <3>2, <3>3, <4>1, <4>4 DEF AwOrder
      <4>6. AwKinds(t)'
        BY <2>a, <2>c, <3>1, <3>2, <4>1 DEF AwKinds
      <4> QED
        BY <2>b, <2>e, <3>1, <4>1, <4>2, <4>3, <4>5, <4>6, AwStep
    <3>4. CASE ~Completed(t)
      <4>1. awaitPc' = [awaitPc EXCEPT ![t] = "handle"] /\ UNCHANGED current
        BY <2>1, <3>4 DEF AwaitReady, Completed, AwGoto
      <4>2. AwTypes' /\ awaitPc'[t] = "handle"
        BY <1>a, <2>b, <3>1, <4>1 DEF AwTypes
      <4>3. AwBits(t)'
        BY <2>a, <3>1, <3>2, <4>2 DEF AwBits
      <4>4. AwKinds(t)'
        <5>1. ASSUME Kind = "same", Eager PROVE FALSE
          <6>1. t <= spawned
            BY <1>b, <3>1, <5>1 DEF Tasks
          <6> QED
            BY <2>a, <3>1, <3>4, <5>1, <6>1 DEF AwOrder, AwKinds
        <5> QED
          BY <2>a, <2>c, <3>1, <3>2, <4>2, <5>1 DEF AwKinds
      <4>5. AwOrder(t)'
        <5>1. ~Eager => ~Dispatched(t)
          BY <2>a, <3>1 DEF AwOrder
        <5> QED
          BY <2>a, <2>b, <2>c, <3>1, <3>2, <4>1, <4>2, <5>1 DEF AwOrder
      <4> QED
        BY <2>b, <2>e, <3>1, <4>1, <4>2, <4>3, <4>4, <4>5, AwStep DEF AwTypes
    <3> QED
      BY <3>3, <3>4
  <2>2. CASE StoreHandle(t)
    <3>1. /\ awaitPc[t] = "handle" /\ awaitPc' = [awaitPc EXCEPT ![t] = "wait"]
          /\ UNCHANGED <<status, callbackPc, calls, resumes, suspends, current>>
      BY <2>2 DEF StoreHandle, AwGoto
    <3>2. /\ Dispatched(t)' <=> Dispatched(t)
          /\ Waited(t)' <=> Waited(t)
          /\ Completed(t)' <=> Completed(t)
      BY <3>1 DEF Dispatched, Waited, Completed
    <3>3. AwTypes' /\ awaitPc'[t] = "wait"
      BY <1>a, <2>b, <3>1 DEF AwTypes
    <3>4. AwBits(t)'
      BY <2>a, <3>1, <3>2, <3>3 DEF AwBits
    <3>5. AwOrder(t)'
      BY <2>a, <2>b, <2>c, <3>1, <3>2, <3>3 DEF AwOrder
    <3>6. AwKinds(t)'
      BY <2>a, <2>c, <3>1, <3>2, <3>3 DEF AwKinds
    <3> QED
      BY <1>a, <2>b, <2>e, <3>1, <3>3, <3>4, <3>5, <3>6, AwStep DEF AwTypes
  <2>3. CASE SetWaited(t)
    <3>1. /\ awaitPc[t] = "wait" /\ status' = [status EXCEPT ![t] = @ \cup {"waited"}]
          /\ UNCHANGED <<callbackPc, calls, suspends, current>>
      BY <2>3 DEF SetWaited, SetBit
    <3>2. /\ Dispatched(t)' <=> Dispatched(t)
          /\ Waited(t)'
          /\ Completed(t)' <=> Completed(t)
      BY <1>a, <3>1 DEF Dispatched, Waited, Completed, AwTypes
    <3>3. ~Waited(t) /\ resumes[t] = 0 /\ callbackPc[t] # "resumeone"
      BY <1>a, <2>a, <3>1 DEF AwBits, AwTypes
    <3>4. PICK l \in {"left", "redo"} :
             /\ awaitPc' = [awaitPc EXCEPT ![t] = l]
             /\ IF Completed(t) THEN l = "left" /\ resumes' = [resumes EXCEPT ![t] = @ + 1]
                                ELSE l = "redo" /\ resumes' = resumes
      BY <2>3 DEF SetWaited, Completed, AwGoto, ResumeOne
    <3>5. AwTypes' /\ awaitPc'[t] = l
      <4>1. /\ awaitPc' \in [Tasks -> {"none", "handle", "wait", "redo", "left"}]
            /\ awaitPc'[t] = l
        BY <1>a, <3>4 DEF AwTypes
      <4>2. resumes' \in [Tasks -> Nat]
        <5>1. CASE Completed(t)
          BY <1>a, <3>4, <5>1 DEF AwTypes
        <5>2. CASE ~Completed(t)
          BY <1>a, <3>4, <5>2 DEF AwTypes
        <5> QED
          BY <5>1, <5>2
      <4>3. status' \in [Tasks -> SUBSET {"dispatched", "waited", "completed"}]
        BY <1>a, <3>1 DEF AwTypes
      <4> QED
        BY <1>a, <2>b, <3>1, <4>1, <4>2, <4>3 DEF AwTypes
    <3>6. resumes'[t] = (IF Completed(t) THEN 1 ELSE 0)
      BY <1>a, <3>3, <3>4 DEF AwTypes
    <3>7. AwBits(t)'
      BY <2>a, <3>1, <3>2, <3>3, <3>4, <3>5, <3>6 DEF AwBits
    <3>8. AwOrder(t)'
      <4>1. /\ current' = current /\ spawned' = spawned /\ pattern' = pattern
            /\ (Eager' <=> Eager) /\ (Warped' <=> Warped)
            /\ callbackPc'[t] = callbackPc[t]
        BY <2>b, <2>c, <3>1
      <4>2. pattern # <<>> /\ current = t /\ ~(current > t)
        BY <2>a, <2>d, <3>1 DEF AwOrder, Tasks
      <4>3. /\ pattern' # <<>> /\ current' = t /\ ~(current' > t)
            /\ (awaitPc'[t] = "left" \/ awaitPc'[t] = "redo")
        BY <3>5, <4>1, <4>2
      <4>4. /\ t > spawned' /\ Eager' => ~Dispatched(t)'
            /\ Eager' /\ t <= spawned' => Dispatched(t)'
            /\ Eager' => spawned' = TaskCount
        BY <2>a, <3>1, <3>2, <4>1, <4>2 DEF AwOrder
      <4>5. ~Eager => ~Dispatched(t)
        BY <2>a, <3>1, <4>2 DEF AwOrder
      <4> QED
        BY <3>2, <4>1, <4>3, <4>4, <4>5 DEF AwOrder
    <3>9. AwKinds(t)'
      BY <2>a, <2>c, <3>1, <3>2, <3>5 DEF AwKinds
    <3>10. \A u \in Tasks \ {t} : status'[u] = status[u] /\ awaitPc'[u] = awaitPc[u]
                                  /\ resumes'[u] = resumes[u]
      BY <1>a, <3>1, <3>4 DEF AwTypes
    <3> QED
      BY <2>b, <2>e, <3>1, <3>5, <3>7, <3>8, <3>9, <3>10, AwStep
  <2>4. CASE Redispatch(t)
    <3>1. /\ awaitPc[t] = "redo" /\ awaitPc' = [awaitPc EXCEPT ![t] = "left"]
          /\ UNCHANGED resumes
      BY <2>4 DEF Redispatch, AwGoto
    <3>2. awaitPc'[t] = "left" /\ \A u \in Tasks \ {t} : awaitPc'[u] = awaitPc[u]
      BY <1>a, <3>1 DEF AwTypes
    <3>3. CASE Dispatched(t)
      <4>1. UNCHANGED <<status, callbackPc, calls, suspends, current>>
        BY <2>4, <3>3 DEF Redispatch, Dispatched
      <4>2. /\ Dispatched(t)' <=> Dispatched(t)
            /\ Waited(t)' <=> Waited(t)
            /\ Completed(t)' <=> Completed(t)
        BY <4>1 DEF Dispatched, Waited, Completed
      <4>3. AwTypes'
        BY <1>a, <2>b, <3>1, <4>1 DEF AwTypes
      <4>4. AwBits(t)'
        BY <2>a, <3>1, <3>2, <4>1, <4>2 DEF AwBits
      <4>5. AwOrder(t)'
        BY <2>a, <2>b, <2>c, <3>1, <3>2, <4>1, <4>2 DEF AwOrder
      <4>6. AwKinds(t)'
        BY <2>a, <2>c, <3>1, <3>2, <4>1, <4>2 DEF AwKinds
      <4> QED
        BY <2>b, <2>e, <3>1, <3>2, <4>1, <4>3, <4>4, <4>5, <4>6, AwStep
    <3>4. CASE ~Dispatched(t)
      <4>1. Launch(t) /\ current = t /\ pattern # <<>>
        BY <2>4, <2>a, <3>1, <3>4 DEF Redispatch, Dispatched, AwOrder
      <4>2. current' = IF Kind = "same" THEN t + 1 ELSE t
        BY <2>4, <3>4, <4>1 DEF Redispatch, Dispatched
      <4>3. /\ status' = [status EXCEPT ![t] = @ \cup (IF Kind = "same"
                                                       THEN {"dispatched", "completed"}
                                                       ELSE {"dispatched"})]
            /\ callbackPc' = [callbackPc EXCEPT ![t] = IF Kind = "same" THEN "none" ELSE "queued"]
            /\ calls' = [calls EXCEPT ![t] = IF Kind = "same" THEN 1 ELSE 0]
            /\ suspends' \in Nat /\ suspends' = Cardinality(Suspending')
        BY <1>a, <2>a, <2>b, <3>4, <4>1, LaunchKeeps
      <4>4. AwTypes'
        BY <1>a, <1>b, <2>b, <3>1, <4>1, <4>2, <4>3 DEF AwTypes, Tasks
      <4>5. /\ Dispatched(t)' /\ (Completed(t)' <=> Kind = "same")
            /\ (Waited(t)' <=> Waited(t))
            /\ callbackPc'[t] = (IF Kind = "same" THEN "none" ELSE "queued")
            /\ calls'[t] = (IF Kind = "same" THEN 1 ELSE 0)
        BY <1>a, <2>a, <3>4, <4>3 DEF AwTypes, Dispatched, Completed, Waited, AwBits
      <4>6. resumes[t] = 0
        BY <1>a, <2>a, <3>4 DEF AwBits, AwTypes
      <4>7. AwBits(t)'
        BY <2>a, <3>1, <3>2, <4>5, <4>6 DEF AwBits
      <4>8. Eager => t <= spawned'
        BY <1>b, <2>a, <2>b, <3>1 DEF AwOrder, Tasks
      <4>9. AwOrder(t)'
        <5>1. t > spawned => ~(t <= spawned)
          BY <1>a, <2>a DEF AwTypes
        <5>2. current' > t => Kind = "same"
          BY <2>a, <4>2
        <5>3. /\ spawned' = spawned /\ pattern' = pattern
              /\ (Eager' <=> Eager) /\ (Warped' <=> Warped)
          BY <2>b, <2>c
        <5>4. Eager => spawned = TaskCount
          BY <2>a, <3>1 DEF AwOrder
        <5>5. Eager => ~(t > spawned)
          BY <1>b, <2>b, <5>4 DEF Tasks
        <5> QED
          BY <3>2, <4>1, <4>5, <5>2, <5>3, <5>4, <5>5 DEF AwOrder
      <4>10. AwKinds(t)'
        BY <2>a, <2>c, <3>1, <3>2, <4>5 DEF AwKinds
      <4>11. \A u \in Tasks \ {t} : status'[u] = status[u] /\ calls'[u] = calls[u]
                                    /\ callbackPc'[u] = callbackPc[u]
        BY <1>a, <4>3 DEF AwTypes
      <4> QED
        BY <2>b, <3>1, <3>2, <4>1, <4>2, <4>3, <4>4, <4>7, <4>9, <4>10, <4>11, AwStep
    <3> QED
      BY <3>3, <3>4
  <2>5. CASE ResumeCoroutine(t)
    <3>1. /\ current = t /\ resumes[t] > 0 /\ (Warped => awaitPc[t] = "left")
          /\ current' = t + 1
          /\ UNCHANGED <<status, awaitPc, callbackPc, calls, resumes, suspends>>
      BY <2>5 DEF ResumeCoroutine
    <3>2. /\ Dispatched(t)' <=> Dispatched(t)
          /\ Waited(t)' <=> Waited(t)
          /\ Completed(t)' <=> Completed(t)
      BY <3>1 DEF Dispatched, Waited, Completed
    <3>3. resumes[t] = 1
      BY <1>a, <2>a, <3>1 DEF AwBits, AwTypes
    <3>4. Completed(t) /\ Waited(t) /\ callbackPc[t] \in {"none", "done"}
      BY <1>a, <2>a, <3>3 DEF AwBits, AwTypes
    <3>5. Dispatched(t) /\ awaitPc[t] \in {"redo", "left"}
      BY <2>a, <3>4 DEF AwBits
    <3>6. AwTypes'
      BY <1>a, <1>b, <2>b, <3>1 DEF AwTypes, Tasks
    <3>7. AwBits(t)'
      BY <2>a, <3>1, <3>2 DEF AwBits
    <3>8. AwOrder(t)'
      BY <2>a, <2>b, <2>c, <3>1, <3>2, <3>4, <3>5 DEF AwOrder
    <3>9. AwKinds(t)'
      BY <2>a, <2>c, <3>1, <3>2 DEF AwKinds
    <3> QED
      BY <2>b, <2>e, <3>1, <3>6, <3>7, <3>8, <3>9, AwStep
  <2>6. CASE CallFunc(t)
    <3>1. /\ callbackPc[t] = "queued" /\ calls' = [calls EXCEPT ![t] = @ + 1]
          /\ callbackPc' = [callbackPc EXCEPT ![t] =
                              IF Kind = "parallel" THEN "resume" ELSE "complete"]
          /\ UNCHANGED <<status, awaitPc, resumes, suspends, current>>
      BY <2>6 DEF CallFunc, CbGoto
    <3>2. /\ Dispatched(t)' <=> Dispatched(t)
          /\ Waited(t)' <=> Waited(t)
          /\ Completed(t)' <=> Completed(t)
      BY <3>1 DEF Dispatched, Waited, Completed
    <3>3. /\ AwTypes' /\ calls'[t] = calls[t] + 1
          /\ callbackPc'[t] = (IF Kind = "parallel" THEN "resume" ELSE "complete")
          /\ \A u \in Tasks \ {t} : calls'[u] = calls[u] /\ callbackPc'[u] = callbackPc[u]
      BY <1>a, <2>b, <3>1 DEF AwTypes
    <3>4. ~Completed(t) /\ Dispatched(t) /\ calls[t] = 0
      BY <2>a, <3>1 DEF AwBits
    <3>5. AwBits(t)'
      BY <2>a, <3>1, <3>2, <3>3, <3>4 DEF AwBits
    <3>6. AwOrder(t)'
      BY <2>a, <2>b, <2>c, <3>1, <3>2, <3>3, <3>4 DEF AwOrder
    <3>7. AwKinds(t)'
      BY <2>a, <2>c, <3>1, <3>2, <3>3, <3>4 DEF AwKinds
    <3>8. Suspending' = Suspending
      BY <1>a, <2>c, <3>1, <3>3 DEF Suspending
    <3> QED
      BY <1>a, <2>b, <3>1, <3>3, <3>5, <3>6, <3>7, <3>8, AwStep
  <2>7. CASE ResumeTarget(t)
    <3>1. /\ callbackPc[t] = "resume" /\ suspends' = suspends - 1
          /\ callbackPc' = [callbackPc EXCEPT ![t] = "complete"]
          /\ UNCHANGED <<status, awaitPc, calls, resumes, current>>
      BY <2>7 DEF ResumeTarget, CbGoto
    <3>2. /\ Dispatched(t)' <=> Dispatched(t)
          /\ Waited(t)' <=> Waited(t)
          /\ Completed(t)' <=> Completed(t)
      BY <3>1 DEF Dispatched, Waited, Completed
    <3>3. Suspending' = Suspending \ {t} /\ t \in Suspending
      BY <1>a, <2>a, <2>c, <3>1 DEF Suspending, AwTypes, AwKinds
    <3>4. Cardinality(Suspending') = Cardinality(Suspending) - 1
      BY <3>3, TasksFinite, FS_RemoveElement
    <3>5. Cardinality(Suspending) \in Nat /\ Cardinality(Suspending) # 0
      BY <3>3, TasksFinite, FS_CardinalityType, FS_EmptySet
    <3>6. suspends' \in Nat /\ suspends' = Cardinality(Suspending')
      BY <1>a, <3>1, <3>4, <3>5
    <3>7. /\ AwTypes' /\ callbackPc'[t] = "complete"
          /\ \A u \in Tasks \ {t} : callbackPc'[u] = callbackPc[u]
      BY <1>a, <2>b, <3>1, <3>6 DEF AwTypes
    <3>8. AwBits(t)'
      BY <2>a, <3>1, <3>2, <3>7 DEF AwBits
    <3>9. AwOrder(t)'
      BY <2>a, <2>b, <2>c, <3>1, <3>2, <3>7 DEF AwOrder
    <3>10. AwKinds(t)'
      BY <2>a, <2>c, <3>1, <3>2, <3>7 DEF AwKinds
    <3> QED
      BY <2>b, <3>1, <3>6, <3>7, <3>8, <3>9, <3>10, AwStep
  <2>8. CASE SetCompleted(t)
    <3>1. /\ callbackPc[t] = "complete" /\ status' = [status EXCEPT ![t] = @ \cup {"completed"}]
          /\ callbackPc' = [callbackPc EXCEPT ![t] = IF Waited(t) THEN "resumeone" ELSE "done"]
          /\ UNCHANGED <<awaitPc, calls, resumes, suspends, current>>
      BY <2>8 DEF SetCompleted, CbGoto, SetBit, Waited
    <3>2. /\ Dispatched(t)' <=> Dispatched(t)
          /\ Waited(t)' <=> Waited(t)
          /\ Completed(t)'
      BY <1>a, <3>1 DEF Dispatched, Waited, Completed, AwTypes
    <3>3. /\ AwTypes' /\ callbackPc'[t] = (IF Waited(t) THEN "resumeone" ELSE "done")
          /\ \A u \in Tasks \ {t} : status'[u] = status[u] /\ callbackPc'[u] = callbackPc[u]
      BY <1>a, <2>b, <3>1 DEF AwTypes
    <3>4. ~Completed(t) /\ Dispatched(t) /\ calls[t] = 1 /\ resumes[t] # 1
      BY <2>a, <3>1 DEF AwBits
    <3>5. AwBits(t)'
      BY <2>a, <3>1, <3>2, <3>3, <3>4 DEF AwBits
    <3>6. AwOrder(t)'
      BY <2>a, <2>b, <2>c, <3>1, <3>2, <3>3, <3>4 DEF AwOrder
    <3>7. AwKinds(t)'
      BY <2>a, <2>c, <3>1, <3>2, <3>3, <3>4 DEF AwKinds
    <3>8. Suspending' = Suspending
      BY <1>a, <2>c, <3>1, <3>3 DEF Suspending
    <3> QED
      BY <1>a, <2>b, <3>1, <3>3, <3>5, <3>6, <3>7, <3>8, AwStep
  <2>9. CASE CallbackResume(t)
    <3>1. /\ callbackPc[t] = "resumeone" /\ resumes' = [resumes EXCEPT ![t] = @ + 1]
          /\ callbackPc' = [callbackPc EXCEPT ![t] = "done"]
          /\ UNCHANGED <<status, awaitPc, calls, suspends, current>>
      BY <2>9 DEF CallbackResume, CbGoto, ResumeOne
    <3>2. /\ Dispatched(t)' <=> Dispatched(t)
          /\ Waited(t)' <=> Waited(t)
          /\ Completed(t)' <=> Completed(t)
      BY <3>1 DEF Dispatched, Waited, Completed
    <3>3. /\ AwTypes' /\ callbackPc'[t] = "done" /\ resumes'[t] = resumes[t] + 1
          /\ \A u \in Tasks \ {t} : resumes'[u] = resumes[u] /\ callbackPc'[u] = callbackPc[u]
      BY <1>a, <2>b, <3>1 DEF AwTypes
    <3>4. Completed(t) /\ Waited(t) /\ resumes[t] = 0 /\ Dispatched(t)
      BY <1>a, <2>a, <3>1 DEF AwBits, AwTypes
    <3>5. AwBits(t)'
      BY <2>a, <3>1, <3>2, <3>3, <3>4 DEF AwBits
    <3>6. AwOrder(t)'
      BY <2>a, <2>b, <2>c, <3>1, <3>2, <3>3, <3>4 DEF AwOrder
    <3>7. AwKinds(t)'
      BY <2>a, <2>c, <3>1, <3>2, <3>3, <3>4 DEF AwKinds
    <3>8. Suspending' = Suspending
      BY <1>a, <2>c, <3>1, <3>3 DEF Suspending
    <3> QED
      BY <1>a, <2>b, <3>1, <3>3, <3>5, <3>6, <3>7, <3>8, AwStep
  <2> QED
    BY <1>3, <2>1, <2>2, <2>3, <2>4, <2>5, <2>6, <2>7, <2>8, <2>9
<1>4. CASE UNCHANGED awaitableVars
  <2>1. AwTypes'
    BY <1>a, <1>4 DEF AwTypes, awaitableVars
  <2>2. ASSUME NEW t \in Tasks PROVE AwBits(t)' /\ AwOrder(t)' /\ AwKinds(t)'
    <3>1. AwBits(t) /\ AwOrder(t) /\ AwKinds(t)
      BY DEF AwaitInv
    <3> QED
      BY <1>4, <3>1 DEF AwBits, AwOrder, AwKinds, Dispatched, Waited, Completed, Kind, Eager,
         Warped, awaitableVars
  <2>3. Suspending' = Suspending
    BY <1>4 DEF Suspending, Kind, awaitableVars
  <2> QED
    BY <1>a, <1>4, <2>1, <2>2, <2>3 DEF AwaitInv, awaitableVars
<1> QED
  BY <1>1, <1>2, <1>3, <1>4 DEF AwaitableNext

\* The result of an awaited function is there when the coroutine goes on.
LEMMA AwaitRight == AwaitInv => AwaitsResult
<1> SUFFICES ASSUME AwaitInv PROVE AwaitsResult
  OBVIOUS
<1>1. ASSUME NEW t \in Tasks
      PROVE  resumes[t] <= 1 /\ calls[t] <= 1 /\ (current > t => calls[t] = 1)
  <2>1. AwBits(t) /\ AwOrder(t) /\ calls[t] \in Nat
        /\ callbackPc[t] \in {"none", "queued", "resume", "complete", "resumeone", "done"}
    BY DEF AwaitInv, AwTypes
  <2>2. calls[t] \in {0, 1}
    BY <2>1 DEF AwBits
  <2> QED
    BY <2>1, <2>2 DEF AwBits, AwOrder
<1>2. ASSUME current > TaskCount PROVE suspends = 0
  <2>1. \A t \in Tasks : current > t
    BY <1>2, AwaitableAssumption DEF AwaitInv, AwTypes, Tasks
  <2>2. Suspending = {}
    BY <2>1 DEF AwaitInv, AwOrder, Suspending
  <2> QED
    BY <2>2, FS_EmptySet DEF AwaitInv
<1> QED
  BY <1>1, <1>2 DEF AwaitsResult

\* A coroutine that dispatches before it awaits has a caller warp, or its functions
\* run on the spot.
SafelyDispatched == \A p \in Patterns : p[3] => p[2] \/ p[1] = "same"

LEMMA AwaitableOutlives == SafelyDispatched /\ AwaitInv => NoDanglingAwaitable
<1> SUFFICES ASSUME SafelyDispatched, AwaitInv, current > TaskCount, NEW t \in Tasks
             PROVE  /\ awaitPc[t] \notin {"handle", "wait", "redo"}
                    /\ callbackPc[t] \in {"none", "done"}
  BY DEF NoDanglingAwaitable
<1>1. current > t /\ current # t
  BY AwaitableAssumption DEF AwaitInv, AwTypes, Tasks
<1>2. AwBits(t) /\ AwOrder(t) /\ AwKinds(t) /\ AwTypes
  BY DEF AwaitInv
<1>3. Completed(t) /\ callbackPc[t] \in {"none", "done"} /\ Dispatched(t)
  BY <1>1, <1>2 DEF AwOrder, AwBits
<1>4. pattern # <<>>
  BY <1>2, <1>3 DEF AwOrder
<1>5. Eager => Warped \/ Kind = "same"
  BY <1>2, <1>4 DEF AwTypes, SafelyDispatched, Eager, Warped, Kind
<1>6. awaitPc[t] \notin {"handle", "wait"}
  BY <1>1, <1>2 DEF AwOrder
<1>7. awaitPc[t] # "redo"
  <2>1. CASE Warped
    BY <1>1, <1>2, <2>1 DEF AwOrder
  <2>2. CASE ~Eager
    BY <1>2, <1>3, <1>4, <2>2 DEF AwOrder
  <2>3. CASE Kind = "same" /\ Eager
    BY <1>2, <2>3 DEF AwKinds
  <2> QED
    BY <1>5, <2>1, <2>2, <2>3
<1> QED
  BY <1>3, <1>6, <1>7

-----------------------------------------------------------------------------
(* iris_coroutine_t                                                          *)

FrameStates == {"none", "created", "running", "suspended", "awaiting", "resumed",
                "returning", "gone"}

FrameTypes ==
    /\ frame \in [FrameIds -> FrameStates]
    /\ parent \in [FrameIds -> 0 .. Frames] /\ awaitResult \in [FrameIds -> 0 .. Frames]
    /\ callStack \in [FrameThreads -> Seq(FrameIds \X {"body", "await"})]

\* Frame f is entered at depth i of thread a.
BodyAt(a, i, f) == i \in 1 .. Len(callStack[a]) /\ callStack[a][i] = <<f, "body">>

\* f was entered from inside the completion of c.
AboveBody(f, c) ==
    \E a \in FrameThreads, i \in Nat : BodyAt(a, i, c) /\ BodyAt(a, i + 1, f)

ActiveFrame(f) == frame[f] \in {"running", "suspended", "awaiting", "resumed"}

(***************************************************************************)
(* A frame that is entered exists, and is entered once.  A frame that is   *)
(* not done has a parent that awaits it and nothing else.  The return slot *)
(* that await_result points to belongs to a frame still inside its         *)
(* return_value(), directly below the frame that will read it.             *)
(***************************************************************************)
BodiesLive ==
    \A a \in FrameThreads, i \in Nat, f \in FrameIds :
      BodyAt(a, i, f) => frame[f] \in {"running", "resumed", "returning"}
BodiesOnce ==
    \A a, b \in FrameThreads, i, j \in Nat, f \in FrameIds :
      BodyAt(a, i, f) /\ BodyAt(b, j, f) => a = b /\ i = j
ParentsAwait ==
    \A f \in FrameIds :
      /\ ActiveFrame(f) /\ parent[f] # 0 => frame[parent[f]] = "awaiting"
      /\ frame[f] \in {"none", "created"} => parent[f] = 0
      /\ \A g \in FrameIds :
           ActiveFrame(f) /\ ActiveFrame(g) /\ parent[f] = parent[g] /\ parent[f] # 0 => f = g
ResultsHeld ==
    \A f, c \in FrameIds :
      awaitResult[f] = c => frame[f] = "resumed" /\ frame[c] = "returning" /\ AboveBody(f, c)

FrameInv == FrameTypes /\ BodiesLive /\ BodiesOnce /\ ParentsAwait /\ ResultsHeld

LEMMA FrameStarts == CoroutineInit => FrameInv
<1> SUFFICES ASSUME CoroutineInit PROVE FrameInv
  OBVIOUS
<1>1. FrameTypes
  <2>1. callStack \in [FrameThreads -> Seq(FrameIds \X {"body", "await"})]
    BY DEF CoroutineInit
  <2> QED
    BY <2>1, CoroutineAssumption DEF CoroutineInit, FrameTypes, FrameStates
<1>2. \A a \in FrameThreads, i \in Nat, f \in FrameIds : ~BodyAt(a, i, f)
  BY DEF CoroutineInit, BodyAt
<1>3. \A f, c \in FrameIds : awaitResult[f] # c
  BY DEF CoroutineInit, FrameIds
<1>4. ParentsAwait
  BY DEF CoroutineInit, ParentsAwait
<1> QED
  BY <1>1, <1>2, <1>3, <1>4 DEF FrameInv, BodiesLive, BodiesOnce, ResultsHeld

\* What the three changes of a stack do to the bodies on it.
LEMMA BodyPush ==
  ASSUME FrameTypes, NEW th \in FrameThreads, NEW h \in FrameIds, Push(th, h)
  PROVE  /\ callStack' \in [FrameThreads -> Seq(FrameIds \X {"body", "await"})]
         /\ \E n \in Nat :
              \A a \in FrameThreads, i \in Nat, f \in FrameIds :
                /\ BodyAt(a, i, f)' <=> BodyAt(a, i, f) \/ (a = th /\ i = n + 1 /\ f = h)
                /\ BodyAt(th, i, f) => i <= n
                /\ Runs(th, f) => BodyAt(th, n, f)
<1> DEFINE s == callStack[th]
<1>1. s \in Seq(FrameIds \X {"body", "await"}) /\ <<h, "body">> \in FrameIds \X {"body", "await"}
  BY DEF FrameTypes
<1>2. /\ Append(s, <<h, "body">>) \in Seq(FrameIds \X {"body", "await"})
      /\ Len(Append(s, <<h, "body">>)) = Len(s) + 1
      /\ \A i \in 1 .. Len(s) : Append(s, <<h, "body">>)[i] = s[i]
      /\ Append(s, <<h, "body">>)[Len(s) + 1] = <<h, "body">>
      /\ Len(s) \in Nat
  BY <1>1
<1>3. /\ callStack'[th] = Append(s, <<h, "body">>)
      /\ \A a \in FrameThreads : a # th => callStack'[a] = callStack[a]
      /\ callStack' \in [FrameThreads -> Seq(FrameIds \X {"body", "await"})]
  BY <1>2 DEF Push, FrameTypes
<1> HIDE DEF s
<1>4. ASSUME NEW a \in FrameThreads, NEW i \in Nat, NEW f \in FrameIds
      PROVE  /\ BodyAt(a, i, f)' <=> BodyAt(a, i, f) \/ (a = th /\ i = Len(s) + 1 /\ f = h)
             /\ BodyAt(th, i, f) => i <= Len(s)
             /\ Runs(th, f) => BodyAt(th, Len(s), f)
  <2>1. CASE a = th
    <3>1. BodyAt(th, i, f) <=> i \in 1 .. Len(s) /\ s[i] = <<f, "body">>
      BY DEF BodyAt, s
    <3>2. BodyAt(a, i, f)' <=> i \in 1 .. Len(s) + 1
                               /\ Append(s, <<h, "body">>)[i] = <<f, "body">>
      BY <1>2, <1>3, <2>1 DEF BodyAt
    <3>3. CASE i = Len(s) + 1
      BY <1>2, <2>1, <3>1, <3>2, <3>3 DEF BodyAt, Runs, Top, s
    <3>4. CASE i # Len(s) + 1
      <4>1. i \in 1 .. Len(s) + 1 <=> i \in 1 .. Len(s)
        BY <1>2, <3>4
      <4> QED
        BY <1>2, <2>1, <3>1, <3>2, <3>4, <4>1 DEF BodyAt, Runs, Top, s
    <3> QED
      BY <3>3, <3>4
  <2>2. CASE a # th
    BY <1>2, <1>3, <2>2 DEF BodyAt, Runs, Top, s
  <2> QED
    BY <2>1, <2>2
<1> QED
  BY <1>2, <1>3, <1>4

LEMMA BodyPop ==
  ASSUME FrameTypes, NEW th \in FrameThreads, callStack[th] # <<>>, PopFrame(th)
  PROVE  /\ callStack' \in [FrameThreads -> Seq(FrameIds \X {"body", "await"})]
         /\ \E n \in Nat :
              \A a \in FrameThreads, i \in Nat, f \in FrameIds :
                /\ BodyAt(a, i, f)' <=> BodyAt(a, i, f) /\ ~(a = th /\ i = n)
                /\ BodyAt(th, i, f) => i <= n
                /\ BodyAt(th, n, f) <=> Top(th) = <<f, "body">>
<1> DEFINE s == callStack[th]
           q == SubSeq(s, 1, Len(s) - 1)
<1>1. s \in Seq(FrameIds \X {"body", "await"}) /\ s # <<>>
  BY DEF FrameTypes
<1>2. /\ Len(s) \in Nat /\ Len(s) > 0
      /\ q \in Seq(FrameIds \X {"body", "await"}) /\ Len(q) = Len(s) - 1
      /\ \A i \in 1 .. Len(s) - 1 : q[i] = s[i]
  BY <1>1
<1>3. /\ callStack'[th] = q
      /\ \A a \in FrameThreads : a # th => callStack'[a] = callStack[a]
      /\ callStack' \in [FrameThreads -> Seq(FrameIds \X {"body", "await"})]
  BY <1>2 DEF PopFrame, Below, FrameTypes
<1>s. s = callStack[th]
  OBVIOUS
<1> HIDE DEF s, q
<1>4. ASSUME NEW a \in FrameThreads, NEW i \in Nat, NEW f \in FrameIds
      PROVE  /\ BodyAt(a, i, f)' <=> BodyAt(a, i, f) /\ ~(a = th /\ i = Len(s))
             /\ BodyAt(th, i, f) => i <= Len(s)
             /\ BodyAt(th, Len(s), f) <=> Top(th) = <<f, "body">>
  <2>1. CASE a = th
    <3>1. BodyAt(th, i, f) <=> i \in 1 .. Len(s) /\ s[i] = <<f, "body">>
      BY <1>s DEF BodyAt
    <3>2. BodyAt(a, i, f)' <=> i \in 1 .. Len(s) - 1 /\ q[i] = <<f, "body">>
      BY <1>2, <1>3, <2>1 DEF BodyAt
    <3>3. BodyAt(th, Len(s), f) <=> Top(th) = <<f, "body">>
      BY <1>2, <1>s DEF BodyAt, Top
    <3>4. i \in 1 .. Len(s) - 1 <=> i \in 1 .. Len(s) /\ i # Len(s)
      BY <1>2
    <3> QED
      BY <1>2, <2>1, <3>1, <3>2, <3>3, <3>4
  <2>2. CASE a # th
    <3>1. BodyAt(th, Len(s), f) <=> Top(th) = <<f, "body">>
      BY <1>2, <1>s DEF BodyAt, Top
    <3> QED
      BY <1>2, <1>3, <1>s, <2>2, <3>1 DEF BodyAt
  <2> QED
    BY <2>1, <2>2
<1> QED
  BY <1>2, <1>3, <1>4

LEMMA BodyCall ==
  ASSUME FrameTypes, NEW th \in FrameThreads, NEW g \in FrameIds, NEW h \in FrameIds, Runs(th, g),
         callStack' = [callStack EXCEPT ![th] = Below(th) \o <<<<g, "await">>, <<h, "body">>>>]
  PROVE  /\ callStack' \in [FrameThreads -> Seq(FrameIds \X {"body", "await"})]
         /\ \E n \in Nat :
              \A a \in FrameThreads, i \in Nat, f \in FrameIds :
                /\ BodyAt(a, i, f)' <=> (BodyAt(a, i, f) /\ ~(a = th /\ i = n))
                                        \/ (a = th /\ i = n + 1 /\ f = h)
                /\ BodyAt(th, i, f) => i <= n
                /\ BodyAt(th, n, f) <=> f = g
<1> DEFINE s == callStack[th]
           q == SubSeq(s, 1, Len(s) - 1)
           e == <<<<g, "await">>, <<h, "body">>>>
<1>1. s \in Seq(FrameIds \X {"body", "await"}) /\ s # <<>> /\ s[Len(s)] = <<g, "body">>
  BY DEF FrameTypes, Runs, Top
<1>2. /\ Len(s) \in Nat /\ Len(s) > 0
      /\ q \in Seq(FrameIds \X {"body", "await"}) /\ Len(q) = Len(s) - 1
      /\ \A i \in 1 .. Len(s) - 1 : q[i] = s[i]
  BY <1>1
<1>3. e \in Seq(FrameIds \X {"body", "await"}) /\ Len(e) = 2 /\ e[1] = <<g, "await">>
      /\ e[2] = <<h, "body">>
  OBVIOUS
<1>s. s = callStack[th] /\ Below(th) = q
  BY DEF Below
<1> HIDE DEF s, q, e
<1>4. /\ q \o e \in Seq(FrameIds \X {"body", "await"}) /\ Len(q \o e) = Len(s) + 1
      /\ \A i \in 1 .. Len(s) - 1 : (q \o e)[i] = s[i]
      /\ (q \o e)[Len(s)] = <<g, "await">>
      /\ (q \o e)[Len(s) + 1] = <<h, "body">>
  <2>1. q \o e \in Seq(FrameIds \X {"body", "await"}) /\ Len(q \o e) = Len(q) + Len(e)
    BY <1>2, <1>3, ConcatProperties
  <2>2. \A i \in 1 .. Len(q) + Len(e) : (q \o e)[i] = IF i <= Len(q) THEN q[i] ELSE e[i - Len(q)]
    BY <1>2, <1>3, ConcatProperties
  <2> QED
    BY <1>2, <1>3, <2>1, <2>2
<1>5. /\ callStack'[th] = q \o e
      /\ \A a \in FrameThreads : a # th => callStack'[a] = callStack[a]
      /\ callStack' \in [FrameThreads -> Seq(FrameIds \X {"body", "await"})]
  BY <1>4, <1>s DEF e, FrameTypes
<1>6. ASSUME NEW a \in FrameThreads, NEW i \in Nat, NEW f \in FrameIds
      PROVE  /\ BodyAt(a, i, f)' <=> (BodyAt(a, i, f) /\ ~(a = th /\ i = Len(s)))
                                     \/ (a = th /\ i = Len(s) + 1 /\ f = h)
             /\ BodyAt(th, i, f) => i <= Len(s)
             /\ BodyAt(th, Len(s), f) <=> f = g
  <2>1. BodyAt(th, i, f) <=> i \in 1 .. Len(s) /\ s[i] = <<f, "body">>
    BY <1>s DEF BodyAt
  <2>2. BodyAt(th, Len(s), f) <=> f = g
    BY <1>1, <1>2, <1>s DEF BodyAt
  <2>3. CASE a = th
    <3>2. BodyAt(a, i, f)' <=> i \in 1 .. Len(s) + 1 /\ (q \o e)[i] = <<f, "body">>
      BY <1>4, <1>5, <2>3 DEF BodyAt
    <3>3. CASE i = Len(s) + 1
      BY <1>2, <1>4, <2>1, <2>2, <2>3, <3>2, <3>3
    <3>4. CASE i = Len(s)
      BY <1>2, <1>4, <2>1, <2>2, <2>3, <3>2, <3>4
    <3>5. CASE i # Len(s) /\ i # Len(s) + 1
      <4>1. (i \in 1 .. Len(s) + 1 <=> i \in 1 .. Len(s) - 1) /\ (i \in 1 .. Len(s) <=> i \in 1 .. Len(s) - 1)
        BY <1>2, <3>5
      <4> QED
        BY <1>2, <1>4, <2>1, <2>2, <2>3, <3>2, <3>5, <4>1
    <3> QED
      BY <3>3, <3>4, <3>5
  <2>4. CASE a # th
    BY <1>2, <1>5, <1>s, <2>1, <2>2, <2>4 DEF BodyAt
  <2> QED
    BY <2>3, <2>4
<1> QED
  BY <1>2, <1>5, <1>6

\* There is one frame at a place.
LEMMA BodyAtOne == \A a, i, f, g : BodyAt(a, i, f) /\ BodyAt(a, i, g) => f = g
  BY DEF BodyAt

LEMMA FrameKeeps == FrameInv /\ [CoroutineNext]_coroutineVars => FrameInv'
<1> SUFFICES ASSUME FrameInv, [CoroutineNext]_coroutineVars PROVE FrameInv'
  OBVIOUS
<1>a. FrameTypes /\ BodiesLive /\ BodiesOnce /\ ParentsAwait /\ ResultsHeld
  BY DEF FrameInv
<1>b. Frames \in Nat
  BY CoroutineAssumption
<1>c. ASSUME NEW f \in FrameIds PROVE f # 0 /\ f \in 0 .. Frames
  BY <1>b DEF FrameIds
\* Frame h is entered on thread th; it was not on any stack.
<1>e. ASSUME NEW th \in FrameThreads, NEW h \in FrameIds, Push(th, h),
             frame[h] \in {"created", "suspended"},
             (frame[h] = "created" => h = 1),
             frame' = [frame EXCEPT ![h] = "running"],
             UNCHANGED <<parent, awaitResult>>
      PROVE  FrameInv'
  <2>0. PICK n \in Nat :
              \A a \in FrameThreads, i \in Nat, f \in FrameIds :
                /\ BodyAt(a, i, f)' <=> BodyAt(a, i, f) \/ (a = th /\ i = n + 1 /\ f = h)
                /\ BodyAt(th, i, f) => i <= n
    BY <1>a, <1>e, BodyPush
  <2>1. FrameTypes'
    BY <1>a, <1>e, BodyPush DEF FrameTypes, FrameStates
  <2>2. frame'[h] = "running" /\ \A f \in FrameIds : f # h => frame'[f] = frame[f]
    BY <1>a, <1>e DEF FrameTypes
  <2>3. \A a \in FrameThreads, i \in Nat : ~BodyAt(a, i, h)
    BY <1>a, <1>e DEF BodiesLive
  <2>4. BodiesLive'
    BY <1>a, <2>0, <2>2 DEF BodiesLive
  <2>5. BodiesOnce'
    BY <1>a, <2>0, <2>3 DEF BodiesOnce
  <2>6. ParentsAwait'
    BY <1>a, <1>c, <1>e, <2>2 DEF ParentsAwait, ActiveFrame, FrameTypes, FrameIds
  <2>7. ResultsHeld'
    BY <1>a, <1>e, <2>0, <2>2 DEF ResultsHeld, AboveBody
  <2> QED
    BY <2>1, <2>4, <2>5, <2>6, <2>7 DEF FrameInv
<1>1. ASSUME NEW th \in FrameThreads, RunRoot(th) PROVE FrameInv'
  <2>1. 1 \in FrameIds
    BY CoroutineAssumption DEF FrameIds
  <2>2. /\ frame[1] = "created" /\ frame' = [frame EXCEPT ![1] = "running"] /\ Push(th, 1)
        /\ UNCHANGED <<parent, awaitResult>>
    BY <1>1 DEF RunRoot, FrameIs
  <2> QED
    BY <2>1, <2>2, <1>e
<1>2. ASSUME NEW th \in FrameThreads, NEW h \in FrameIds, ResumeFrame(th, h) PROVE FrameInv'
  BY <1>2, <1>e DEF ResumeFrame, FrameIs
<1>3. ASSUME NEW th \in FrameThreads, ReturnFromAwait(th) PROVE FrameInv'
  <2>1. callStack[th] # <<>> /\ Top(th)[2] = "await" /\ PopFrame(th)
        /\ frame' = frame /\ parent' = parent /\ awaitResult' = awaitResult
    BY <1>3 DEF ReturnFromAwait
  <2>2. \A f \in FrameIds : Top(th) # <<f, "body">>
    BY <2>1
  <2>3. \A a \in FrameThreads, i \in Nat, f \in FrameIds : BodyAt(a, i, f)' <=> BodyAt(a, i, f)
    BY <1>a, <2>1, <2>2, BodyPop
  <2>4. FrameTypes'
    BY <1>a, <2>1, BodyPop DEF FrameTypes
  <2>5. BodiesLive' /\ BodiesOnce'
    BY <1>a, <2>1, <2>3 DEF BodiesLive, BodiesOnce
  <2>6. ParentsAwait'
    BY <1>a, <2>1 DEF ParentsAwait, ActiveFrame
  <2>7. ResultsHeld'
    BY <1>a, <2>1, <2>3 DEF ResultsHeld, AboveBody
  <2> QED
    BY <2>4, <2>5, <2>6, <2>7 DEF FrameInv
\* The top frame of thread th leaves it.
<1>p. ASSUME NEW th \in FrameThreads, NEW h \in FrameIds, Runs(th, h), PopFrame(th),
             NEW st \in {"suspended", "gone"},
             frame[h] = (IF st = "gone" THEN "returning" ELSE "running"),
             frame' = [frame EXCEPT ![h] = st],
             UNCHANGED <<parent, awaitResult>>
      PROVE  FrameInv'
  <2>0. PICK n \in Nat :
              \A a \in FrameThreads, i \in Nat, f \in FrameIds :
                /\ BodyAt(a, i, f)' <=> BodyAt(a, i, f) /\ ~(a = th /\ i = n)
                /\ BodyAt(th, i, f) => i <= n
                /\ BodyAt(th, n, f) <=> Top(th) = <<f, "body">>
    <3>1. callStack[th] # <<>>
      BY <1>p DEF Runs
    <3> QED
      BY <1>a, <1>p, <3>1, BodyPop
  <2>1. FrameTypes'
    BY <1>a, <1>p, BodyPop DEF FrameTypes, FrameStates, Runs
  <2>2. frame'[h] = st /\ \A f \in FrameIds : f # h => frame'[f] = frame[f]
    BY <1>a, <1>p DEF FrameTypes
  <2>3. BodyAt(th, n, h)
    BY <1>p, <2>0 DEF Runs
  <2>4. \A a \in FrameThreads, i \in Nat : ~BodyAt(a, i, h)'
    BY <1>a, <2>0, <2>3 DEF BodiesOnce
  <2>5. BodiesLive'
    BY <1>a, <2>0, <2>2, <2>4 DEF BodiesLive
  <2>6. BodiesOnce'
    BY <1>a, <2>0 DEF BodiesOnce
  <2>7. ParentsAwait'
    BY <1>a, <1>c, <1>p, <2>2 DEF ParentsAwait, ActiveFrame, FrameTypes, FrameIds
  <2>8. ResultsHeld'
    <3> SUFFICES ASSUME NEW f \in FrameIds, NEW c \in FrameIds, awaitResult'[f] = c
                 PROVE  (frame[f] = "resumed" /\ frame[c] = "returning" /\ AboveBody(f, c))'
      BY DEF ResultsHeld
    <3>1. frame[f] = "resumed" /\ frame[c] = "returning" /\ AboveBody(f, c)
      BY <1>a, <1>p DEF ResultsHeld
    <3>2. PICK a \in FrameThreads, i \in Nat : BodyAt(a, i, c) /\ BodyAt(a, i + 1, f)
      BY <3>1 DEF AboveBody
    <3>3. f # h
      BY <1>p, <3>1
    <3>4. ~(a = th /\ i = n)
      BY <2>0, <3>2
    <3>5. ~(a = th /\ i + 1 = n)
      BY <1>a, <2>3, <3>2, <3>3, BodyAtOne
    <3>6. c # h
      BY <1>a, <2>3, <3>2, <3>4 DEF BodiesOnce
    <3>7. BodyAt(a, i, c)' /\ BodyAt(a, i + 1, f)'
      BY <2>0, <3>2, <3>4, <3>5
    <3> QED
      BY <2>2, <3>1, <3>3, <3>6, <3>7 DEF AboveBody
  <2> QED
    BY <2>1, <2>5, <2>6, <2>7, <2>8 DEF FrameInv
<1>4. ASSUME NEW th \in FrameThreads, NEW h \in FrameIds, SuspendFrame(th, h) PROVE FrameInv'
  BY <1>4, <1>p DEF SuspendFrame, FrameIs
<1>5. ASSUME NEW th \in FrameThreads, NEW h \in FrameIds, DestroyFrame(th, h) PROVE FrameInv'
  BY <1>5, <1>p DEF DestroyFrame, FrameIs
<1>6. ASSUME NEW th \in FrameThreads, NEW h \in FrameIds, TakeResult(th, h) PROVE FrameInv'
  <2>1. /\ frame[h] = "resumed" /\ frame' = [frame EXCEPT ![h] = "running"]
        /\ awaitResult' = [awaitResult EXCEPT ![h] = 0]
        /\ parent' = parent /\ callStack' = callStack
    BY <1>6 DEF TakeResult, FrameIs
  <2>2. /\ frame'[h] = "running" /\ awaitResult'[h] = 0
        /\ \A f \in FrameIds : f # h => frame'[f] = frame[f] /\ awaitResult'[f] = awaitResult[f]
    BY <1>a, <2>1 DEF FrameTypes
  <2>3. \A a \in FrameThreads, i \in Nat, f \in FrameIds : BodyAt(a, i, f)' <=> BodyAt(a, i, f)
    BY <2>1 DEF BodyAt
  <2>4. FrameTypes'
    BY <1>a, <1>b, <2>1 DEF FrameTypes, FrameStates
  <2>5. BodiesLive' /\ BodiesOnce'
    BY <1>a, <2>2, <2>3 DEF BodiesLive, BodiesOnce
  <2>6. ParentsAwait'
    BY <1>a, <1>c, <2>1, <2>2 DEF ParentsAwait, ActiveFrame, FrameTypes, FrameIds
  <2>7. ResultsHeld'
    BY <1>a, <1>c, <2>1, <2>2, <2>3 DEF ResultsHeld, AboveBody
  <2> QED
    BY <2>4, <2>5, <2>6, <2>7 DEF FrameInv
<1>7. ASSUME NEW th \in FrameThreads, NEW h \in FrameIds, ReturnValue(th, h) PROVE FrameInv'
  <2>0. Runs(th, h) /\ frame[h] = "running" /\ parent' = parent
    BY <1>7 DEF ReturnValue
  <2>1. CASE parent[h] = 0
    <3>1. /\ frame' = [frame EXCEPT ![h] = "returning"] /\ awaitResult' = awaitResult
          /\ callStack' = callStack
      BY <1>7, <2>1 DEF ReturnValue, FrameIs
    <3>2. frame'[h] = "returning" /\ \A f \in FrameIds : f # h => frame'[f] = frame[f]
      BY <1>a, <3>1 DEF FrameTypes
    <3>3. \A a \in FrameThreads, i \in Nat, f \in FrameIds : BodyAt(a, i, f)' <=> BodyAt(a, i, f)
      BY <3>1 DEF BodyAt
    <3>4. FrameTypes'
      BY <1>a, <2>0, <3>1 DEF FrameTypes, FrameStates
    <3>5. BodiesLive' /\ BodiesOnce'
      BY <1>a, <3>2, <3>3 DEF BodiesLive, BodiesOnce
    <3>6. ParentsAwait'
      <4>1. ASSUME NEW f \in FrameIds, ActiveFrame(f)' PROVE f # h /\ ActiveFrame(f)
        BY <3>2, <4>1 DEF ActiveFrame
      <4>2. ASSUME NEW f \in FrameIds, ActiveFrame(f)', parent[f] # 0
            PROVE  frame'[parent[f]] = "awaiting"
        <5>1. PICK r \in FrameIds : r = parent[f]
          BY <1>a, <1>b, <4>2 DEF FrameTypes, FrameIds
        <5>2. frame[r] = "awaiting"
          BY <1>a, <4>1, <4>2, <5>1 DEF ParentsAwait
        <5> QED
          BY <2>0, <3>2, <5>1, <5>2
      <4>3. ASSUME NEW f \in FrameIds, frame'[f] \in {"none", "created"} PROVE parent[f] = 0
        BY <1>a, <3>2, <4>3 DEF ParentsAwait
      <4> QED
        BY <1>a, <2>0, <4>1, <4>2, <4>3 DEF ParentsAwait
    <3>7. ResultsHeld'
      BY <1>a, <2>0, <3>1, <3>2, <3>3 DEF ResultsHeld, AboveBody
    <3> QED
      BY <3>4, <3>5, <3>6, <3>7 DEF FrameInv
  <2>2. CASE parent[h] # 0
    <3>p. PICK p \in FrameIds : p = parent[h]
      BY <1>a, <1>b, <2>2 DEF FrameTypes, FrameIds
    <3>1. /\ frame' = [frame EXCEPT ![h] = "returning", ![p] = "resumed"]
          /\ awaitResult' = [awaitResult EXCEPT ![p] = h] /\ Push(th, p)
      BY <1>7, <2>2, <3>p DEF ReturnValue
    <3>2. frame[p] = "awaiting" /\ p # h
      BY <1>a, <2>0, <2>2, <3>p DEF ParentsAwait, ActiveFrame
    <3>3. /\ frame'[h] = "returning" /\ frame'[p] = "resumed" /\ awaitResult'[p] = h
          /\ \A f \in FrameIds : f # h /\ f # p => frame'[f] = frame[f]
          /\ \A f \in FrameIds : f # p => awaitResult'[f] = awaitResult[f]
      BY <1>a, <3>1, <3>2 DEF FrameTypes
    <3>4. PICK n \in Nat :
              \A a \in FrameThreads, i \in Nat, f \in FrameIds :
                /\ BodyAt(a, i, f)' <=> BodyAt(a, i, f) \/ (a = th /\ i = n + 1 /\ f = p)
                /\ BodyAt(th, i, f) => i <= n
                /\ Runs(th, f) => BodyAt(th, n, f)
      BY <1>a, <3>1, BodyPush
    <3>5. FrameTypes'
      <4>1. callStack' \in [FrameThreads -> Seq(FrameIds \X {"body", "await"})]
        BY <1>a, <3>1, BodyPush
      <4> QED
        BY <1>a, <1>c, <2>0, <3>1, <4>1 DEF FrameTypes, FrameStates
    <3>6. \A a \in FrameThreads, i \in Nat : ~BodyAt(a, i, p)
      BY <1>a, <3>2 DEF BodiesLive
    <3>7. BodiesLive'
      BY <1>a, <3>3, <3>4 DEF BodiesLive
    <3>8. BodiesOnce'
      BY <1>a, <3>4, <3>6 DEF BodiesOnce
    <3>9. ParentsAwait'
      <4>1. ASSUME NEW f \in FrameIds, ActiveFrame(f)' PROVE f # h /\ ActiveFrame(f)
        BY <3>2, <3>3, <4>1 DEF ActiveFrame
      <4>2. ASSUME NEW f \in FrameIds, ActiveFrame(f)', parent[f] # 0
            PROVE  frame'[parent[f]] = "awaiting"
        <5>1. PICK r \in FrameIds : r = parent[f]
          BY <1>a, <1>b, <4>2 DEF FrameTypes, FrameIds
        <5>2. frame[r] = "awaiting"
          BY <1>a, <4>1, <4>2, <5>1 DEF ParentsAwait
        <5>3. r # p
          BY <1>a, <2>0, <2>2, <3>p, <4>1, <4>2, <5>1 DEF ParentsAwait, ActiveFrame
        <5> QED
          BY <2>0, <3>3, <5>1, <5>2, <5>3
      <4>3. ASSUME NEW f \in FrameIds, frame'[f] \in {"none", "created"} PROVE parent[f] = 0
        BY <1>a, <3>3, <4>3 DEF ParentsAwait
      <4> QED
        BY <1>a, <2>0, <4>1, <4>2, <4>3 DEF ParentsAwait
    <3>10. ResultsHeld'
      <4> SUFFICES ASSUME NEW f \in FrameIds, NEW c \in FrameIds, awaitResult'[f] = c
                   PROVE  (frame[f] = "resumed" /\ frame[c] = "returning" /\ AboveBody(f, c))'
        BY DEF ResultsHeld
      <4>1. CASE f = p
        <5>1. c = h
          BY <3>3, <4>1
        <5>2. BodyAt(th, n, h)' /\ BodyAt(th, n + 1, p)'
          BY <2>0, <3>4
        <5> QED
          BY <3>3, <4>1, <5>1, <5>2 DEF AboveBody
      <4>2. CASE f # p
        <5>1. frame[f] = "resumed" /\ frame[c] = "returning" /\ AboveBody(f, c)
          BY <1>a, <3>3, <4>2 DEF ResultsHeld
        <5> QED
          BY <2>0, <3>2, <3>3, <3>4, <4>2, <5>1 DEF AboveBody
      <4> QED
        BY <4>1, <4>2
    <3> QED
      BY <3>5, <3>7, <3>8, <3>9, <3>10 DEF FrameInv
  <2> QED
    BY <2>1, <2>2
<1>8. ASSUME NEW th \in FrameThreads, NEW g \in FrameIds, NEW h \in FrameIds, AwaitChild(th, g, h)
      PROVE  FrameInv'
  <2>1. /\ Runs(th, g) /\ frame[g] = "running" /\ frame[h] = "none"
        /\ frame' = [frame EXCEPT ![g] = "awaiting", ![h] = "running"]
        /\ parent' = [parent EXCEPT ![h] = g] /\ awaitResult' = awaitResult
        /\ callStack' = [callStack EXCEPT ![th] = Below(th) \o <<<<g, "await">>, <<h, "body">>>>]
    BY <1>8 DEF AwaitChild
  <2>2. /\ g # h /\ frame'[g] = "awaiting" /\ frame'[h] = "running" /\ parent'[h] = g
        /\ \A f \in FrameIds : f # h /\ f # g => frame'[f] = frame[f]
        /\ \A f \in FrameIds : f # h => parent'[f] = parent[f]
    BY <1>a, <2>1 DEF FrameTypes
  <2>3. PICK n \in Nat :
              \A a \in FrameThreads, i \in Nat, f \in FrameIds :
                /\ BodyAt(a, i, f)' <=> (BodyAt(a, i, f) /\ ~(a = th /\ i = n))
                                        \/ (a = th /\ i = n + 1 /\ f = h)
                /\ BodyAt(th, i, f) => i <= n
                /\ BodyAt(th, n, f) <=> f = g
    BY <1>a, <2>1, BodyCall
  <2>4. FrameTypes'
    <3>1. callStack' \in [FrameThreads -> Seq(FrameIds \X {"body", "await"})]
      BY <1>a, <2>1, BodyCall
    <3> QED
      BY <1>a, <1>c, <2>1, <3>1 DEF FrameTypes, FrameStates
  <2>5. \A a \in FrameThreads, i \in Nat : ~BodyAt(a, i, h)
    BY <1>a, <2>1 DEF BodiesLive
  <2>6. \A a \in FrameThreads, i \in Nat : ~BodyAt(a, i, g)'
    BY <1>a, <2>2, <2>3 DEF BodiesOnce
  <2>7. BodiesLive'
    BY <1>a, <2>2, <2>3, <2>6 DEF BodiesLive
  <2>8. BodiesOnce'
    BY <1>a, <2>3, <2>5 DEF BodiesOnce
  <2>9. ParentsAwait'
    <3>1. ASSUME NEW f \in FrameIds, ActiveFrame(f), parent[f] # 0
          PROVE  parent[f] # g /\ parent[f] # h /\ frame[parent[f]] = "awaiting" /\ parent[f] \in FrameIds
      <4>1. frame[parent[f]] = "awaiting"
        BY <1>a, <3>1 DEF ParentsAwait
      <4>2. parent[f] \in FrameIds
        BY <1>a, <1>b, <3>1 DEF FrameTypes, FrameIds
      <4> QED
        BY <2>1, <4>1, <4>2
    <3>2. ASSUME NEW f \in FrameIds, ActiveFrame(f)', f # h PROVE ActiveFrame(f)
      BY <2>1, <2>2, <3>2 DEF ActiveFrame
    <3>3. ASSUME NEW f \in FrameIds, ActiveFrame(f)', parent'[f] # 0
          PROVE  frame'[parent'[f]] = "awaiting"
      <4>1. CASE f = h
        BY <2>2, <4>1
      <4>2. CASE f # h
        BY <2>2, <3>1, <3>2, <3>3, <4>2
      <4> QED
        BY <4>1, <4>2
    <3>4. ASSUME NEW f \in FrameIds, frame'[f] \in {"none", "created"} PROVE parent'[f] = 0
      BY <1>a, <2>2, <3>4 DEF ParentsAwait
    <3>5. ASSUME NEW f \in FrameIds, NEW r \in FrameIds, ActiveFrame(f)', ActiveFrame(r)',
                 parent'[f] = parent'[r], parent'[f] # 0
          PROVE  f = r
      BY <1>a, <2>2, <3>1, <3>2, <3>5 DEF ParentsAwait
    <3> QED
      BY <3>3, <3>4, <3>5 DEF ParentsAwait
  <2>10. ResultsHeld'
    <3> SUFFICES ASSUME NEW f \in FrameIds, NEW c \in FrameIds, awaitResult'[f] = c
                 PROVE  (frame[f] = "resumed" /\ frame[c] = "returning" /\ AboveBody(f, c))'
      BY DEF ResultsHeld
    <3>1. frame[f] = "resumed" /\ frame[c] = "returning" /\ AboveBody(f, c)
      BY <1>a, <2>1 DEF ResultsHeld
    <3>2. PICK a \in FrameThreads, i \in Nat : BodyAt(a, i, c) /\ BodyAt(a, i + 1, f)
      BY <3>1 DEF AboveBody
    <3>3. f # g /\ c # g /\ f # h /\ c # h
      BY <2>1, <3>1
    <3>4. BodyAt(a, i, c)' /\ BodyAt(a, i + 1, f)'
      BY <2>3, <3>2, <3>3
    <3> QED
      BY <2>2, <3>1, <3>3, <3>4 DEF AboveBody
  <2> QED
    BY <2>4, <2>7, <2>8, <2>9, <2>10 DEF FrameInv
<1>9. CASE UNCHANGED coroutineVars
  <2>1. frame' = frame /\ parent' = parent /\ awaitResult' = awaitResult /\ callStack' = callStack
    BY <1>9 DEF coroutineVars
  <2>2. \A a \in FrameThreads, i \in Nat, f \in FrameIds : BodyAt(a, i, f)' <=> BodyAt(a, i, f)
    BY <2>1 DEF BodyAt
  <2> QED
    BY <1>a, <2>1, <2>2 DEF FrameInv, FrameTypes, BodiesLive, BodiesOnce, ParentsAwait,
       ResultsHeld, AboveBody, ActiveFrame
<1> QED
  BY <1>1, <1>2, <1>3, <1>4, <1>5, <1>6, <1>7, <1>8, <1>9 DEF CoroutineNext

LEMMA FrameRight == FrameInv => FramesAlive
<1> SUFFICES ASSUME FrameInv PROVE FramesAlive
  OBVIOUS
<1>1. ASSUME NEW p \in Bodies PROVE frame[BodyOf(p)] \in {"running", "resumed", "returning"}
  <2>1. /\ p[1] \in FrameThreads /\ p[2] \in 1 .. 2 * Frames /\ p[2] <= Len(callStack[p[1]])
        /\ callStack[p[1]][p[2]][2] = "body"
    BY DEF Bodies
  <2>2. callStack[p[1]] \in Seq(FrameIds \X {"body", "await"})
    BY <2>1 DEF FrameInv, FrameTypes
  <2>3. p[2] \in Nat /\ p[2] \in 1 .. Len(callStack[p[1]])
    BY <2>1, <2>2
  <2>4. callStack[p[1]][p[2]] \in FrameIds \X {"body", "await"}
    BY <2>2, <2>3
  <2>5. BodyOf(p) \in FrameIds /\ BodyAt(p[1], p[2], BodyOf(p))
    BY <2>1, <2>3, <2>4 DEF BodyOf, BodyAt
  <2> QED
    BY <2>1, <2>3, <2>5 DEF FrameInv, BodiesLive
<1>2. ASSUME NEW f \in FrameIds, awaitResult[f] # 0
      PROVE  frame[awaitResult[f]] = "returning"
  <2>1. awaitResult[f] \in FrameIds
    BY <1>2, CoroutineAssumption DEF FrameInv, FrameTypes, FrameIds
  <2> QED
    BY <2>1 DEF FrameInv, ResultsHeld
<1> QED
  BY <1>1, <1>2 DEF FramesAlive

-----------------------------------------------------------------------------
(* iris_switch_t                                                             *)

WarpsOrNone == SwitchWarps \cup {NoWarp}
WishSet == [target : WarpsOrNone, other : WarpsOrNone, parTarget : BOOLEAN, parOther : BOOLEAN]
SwitchPCs == {"start", "posted", "handler", "inside", "end"}

SwTypes ==
    /\ owner \in [SwitchWarps -> Coros \cup {Absent}] /\ suspendOf \in [SwitchWarps -> Nat]
    /\ posted \in [SwitchWarps -> Seq(Coros)] /\ parPosted \in [SwitchWarps -> SUBSET Coros]
    /\ sw \in [Coros -> WishSet] /\ swPc \in [Coros -> SwitchPCs]
    /\ holds \in [Coros -> SUBSET SwitchWarps] /\ shares \in [Coros -> SUBSET SwitchWarps]
    /\ step \in [Coros -> Nat] /\ \A c \in Coros : step[c] <= Len(Wishes[c])

Sharers(w) == {c \in Coros : w \in shares[c]}

\* A warp has one owner, and none while coroutines are in it in parallel; the
\* suspend count is the number of these.
Ownership ==
    \A w \in SwitchWarps :
      /\ \A c \in Coros : owner[w] = c <=> w \in holds[c]
      /\ \A c \in Coros : w \in shares[c] => owner[w] = Absent
      /\ suspendOf[w] = Cardinality(Sharers(w))

\* A coroutine is queued once, where its switch says and the way it says.
Queues ==
    \A w \in SwitchWarps :
      /\ \A i \in 1 .. Len(posted[w]) :
           /\ swPc[posted[w][i]] = "posted" /\ sw[posted[w][i]].target = w
           /\ posted[w][i] \notin parPosted[w]
           /\ \A j \in 1 .. Len(posted[w]) : posted[w][i] = posted[w][j] => i = j
      /\ \A c \in parPosted[w] : swPc[c] = "posted" /\ sw[c].target = w /\ sw[c].parTarget

\* The switch object is the wish, or the wish with its warps in the other order.
Aims(c) ==
    LET w == Wishes[c][step[c]] IN
    \/ /\ sw[c].target = w.target /\ sw[c].parTarget = w.parTarget
       /\ sw[c].other = w.other /\ sw[c].parOther = w.parOther
    \/ /\ sw[c].target = w.other /\ sw[c].parTarget = w.parOther
       /\ sw[c].other = w.target /\ sw[c].parOther = w.parTarget

\* c is in warp x, the way it asked for.
Placed(c, x, par) == x = NoWarp \/ x \in holds[c] \/ (x \in shares[c] /\ par)

Where(c) ==
    /\ swPc[c] = "start" => step[c] = 0 /\ holds[c] = {} /\ shares[c] = {}
    /\ swPc[c] \in {"posted", "handler", "inside"} => step[c] > 0
    /\ swPc[c] \in {"posted", "handler"} => Aims(c)
    /\ swPc[c] = "posted" => holds[c] = {} /\ shares[c] = {}
    /\ swPc[c] = "handler" => /\ Placed(c, sw[c].target, sw[c].parTarget)
                              /\ holds[c] \subseteq {sw[c].target}
                              /\ shares[c] \subseteq {sw[c].target}
    /\ swPc[c] = "inside" => LET w == Wishes[c][step[c]] IN
                             Placed(c, w.target, w.parTarget) /\ Placed(c, w.other, w.parOther)

SwitchInv == SwTypes /\ Ownership /\ Queues /\ \A c \in Coros : Where(c)

LEMMA WishTypes ==
  ASSUME NEW c \in Coros
  PROVE  /\ Wishes[c] \in Seq(WishSet) /\ Len(Wishes[c]) \in Nat
         /\ \A i \in 1 .. Len(Wishes[c]) :
              /\ Wishes[c][i] \in WishSet
              /\ Wishes[c][i].target = Wishes[c][i].other => Wishes[c][i].target = NoWarp
<1>1. Wishes[c] \in Seq(WishSet)
  BY SwitchAssumption DEF WishSet, WarpsOrNone
<1>2. DOMAIN Wishes[c] = 1 .. Len(Wishes[c]) /\ Len(Wishes[c]) \in Nat
      /\ \A i \in 1 .. Len(Wishes[c]) : Wishes[c][i] \in WishSet
  BY <1>1
<1>3. \A i \in DOMAIN Wishes[c] :
        Wishes[c][i].target = Wishes[c][i].other => Wishes[c][i].target = NoWarp
  BY SwitchAssumption
<1> QED
  BY <1>1, <1>2, <1>3

LEMMA SharersFinite ==
  ASSUME NEW w PROVE IsFiniteSet(Sharers(w)) /\ IsFiniteSet(Sharers(w))'
<1>1. IsFiniteSet(Coros)
  BY SwitchAssumption
<1>2. Sharers(w) \subseteq Coros /\ Sharers(w)' \subseteq Coros
  BY DEF Sharers
<1> QED
  BY <1>1, <1>2, FS_Subset

LEMMA SwitchStarts == SwitchInit => SwitchInv
<1> SUFFICES ASSUME SwitchInit PROVE SwitchInv
  OBVIOUS
<1>1. \A c \in Coros : Len(Wishes[c]) \in Nat
  BY WishTypes
<1>2. NullSwitch \in WishSet
  BY DEF NullSwitch, Wish, WishSet, WarpsOrNone
<1>3. posted \in [SwitchWarps -> Seq(Coros)]
  BY DEF SwitchInit
<1>4. SwTypes
  BY <1>1, <1>2, <1>3 DEF SwitchInit, SwTypes, SwitchPCs, Absent
<1>5. \A w \in SwitchWarps : Sharers(w) = {}
  BY DEF SwitchInit, Sharers
<1>6. Ownership
  BY <1>5, SwitchAssumption, FS_EmptySet DEF SwitchInit, Ownership, Absent
<1>7. Queues
  BY DEF SwitchInit, Queues
<1>8. \A c \in Coros : Where(c)
  BY DEF SwitchInit, Where
<1> QED
  BY <1>4, <1>6, <1>7, <1>8 DEF SwitchInv

\* The warps are left: what is kept, and that nothing else is owned or shared.
LEMMA LeaveKeeps ==
  ASSUME SwTypes, Ownership, NEW c \in Coros, LeaveAll(c)
  PROVE  /\ Ownership'
         /\ owner' \in [SwitchWarps -> Coros \cup {Absent}] /\ suspendOf' \in [SwitchWarps -> Nat]
         /\ holds' \in [Coros -> SUBSET SwitchWarps] /\ shares' \in [Coros -> SUBSET SwitchWarps]
         /\ holds'[c] = {} /\ shares'[c] = {}
         /\ \A d \in Coros \ {c} : holds'[d] = holds[d] /\ shares'[d] = shares[d]
<1>1. /\ holds' = [holds EXCEPT ![c] = {}] /\ shares' = [shares EXCEPT ![c] = {}]
      /\ \A w \in SwitchWarps :
           /\ owner'[w] = (IF w \in holds[c] THEN Absent ELSE owner[w])
           /\ suspendOf'[w] = (IF w \in shares[c] THEN suspendOf[w] - 1 ELSE suspendOf[w])
  BY DEF LeaveAll, SSet
<1>2. /\ holds' \in [Coros -> SUBSET SwitchWarps] /\ shares' \in [Coros -> SUBSET SwitchWarps]
      /\ holds'[c] = {} /\ shares'[c] = {}
      /\ \A d \in Coros \ {c} : holds'[d] = holds[d] /\ shares'[d] = shares[d]
  BY <1>1 DEF SwTypes
<1>3. owner' \in [SwitchWarps -> Coros \cup {Absent}]
  BY DEF LeaveAll, SwTypes
<1>4. ASSUME NEW w \in SwitchWarps
      PROVE  suspendOf'[w] \in Nat /\ suspendOf'[w] = Cardinality(Sharers(w)')
  <2>1. suspendOf[w] \in Nat /\ suspendOf[w] = Cardinality(Sharers(w))
    BY DEF SwTypes, Ownership
  <2>2. CASE w \in shares[c]
    <3>1. c \in Sharers(w) /\ Sharers(w)' = Sharers(w) \ {c}
      BY <1>2, <2>2 DEF Sharers
    <3>2. /\ Cardinality(Sharers(w)') = Cardinality(Sharers(w)) - 1
          /\ Cardinality(Sharers(w)') \in Nat
      BY <3>1, SharersFinite, FS_RemoveElement, FS_CardinalityType
    <3> QED
      BY <1>1, <2>1, <2>2, <3>2
  <2>3. CASE w \notin shares[c]
    <3>1. Sharers(w)' = Sharers(w)
      BY <1>2, <2>3 DEF Sharers
    <3> QED
      BY <1>1, <2>1, <2>3, <3>1
  <2> QED
    BY <2>2, <2>3
<1>5. suspendOf' \in [SwitchWarps -> Nat]
  BY <1>4 DEF LeaveAll
<1>6. ASSUME NEW w \in SwitchWarps, NEW d \in Coros
      PROVE  (owner'[w] = d <=> w \in holds'[d]) /\ (w \in shares'[d] => owner'[w] = Absent)
  <2>1. (owner[w] = d <=> w \in holds[d]) /\ (w \in shares[d] => owner[w] = Absent)
        /\ (owner[w] = c <=> w \in holds[c]) /\ Absent # d
    BY SwitchAssumption DEF Ownership, Absent
  <2> QED
    BY <1>1, <1>2, <2>1
<1>7. Ownership'
  BY <1>4, <1>6 DEF Ownership
<1> QED
  BY <1>2, <1>3, <1>5, <1>7

\* The handler is queued: c was queued nowhere.
LEMMA PostKeeps ==
  ASSUME SwTypes, Queues, NEW c \in Coros, swPc[c] # "posted", NEW w \in WarpsOrNone,
         NEW par, PostTo(c, w, par),
         swPc' = [swPc EXCEPT ![c] = "posted"], sw'[c].target = w, par => sw'[c].parTarget,
         \A d \in Coros \ {c} : sw'[d] = sw[d]
  PROVE  /\ Queues'
         /\ posted' \in [SwitchWarps -> Seq(Coros)] /\ parPosted' \in [SwitchWarps -> SUBSET Coros]
<1>1. swPc'[c] = "posted" /\ \A d \in Coros \ {c} : swPc'[d] = swPc[d]
  BY DEF SwTypes
<1>2. \A v \in SwitchWarps :
        /\ posted[v] \in Seq(Coros) /\ Len(posted[v]) \in Nat
        /\ \A i \in 1 .. Len(posted[v]) : posted[v][i] \in Coros /\ posted[v][i] # c
        /\ c \notin parPosted[v] /\ parPosted[v] \subseteq Coros
  BY DEF SwTypes, Queues
\* A queue that is left as it is keeps its shape.
<1>3. ASSUME NEW v \in SwitchWarps, posted'[v] = posted[v], parPosted'[v] = parPosted[v]
      PROVE  /\ \A i \in 1 .. Len(posted'[v]) :
                  /\ swPc'[posted'[v][i]] = "posted" /\ sw'[posted'[v][i]].target = v
                  /\ posted'[v][i] \notin parPosted'[v]
                  /\ \A j \in 1 .. Len(posted'[v]) : posted'[v][i] = posted'[v][j] => i = j
             /\ \A d \in parPosted'[v] : swPc'[d] = "posted" /\ sw'[d].target = v /\ sw'[d].parTarget
  BY <1>1, <1>2, <1>3 DEF Queues
<1>4. CASE w = NoWarp
  <2>1. posted' = posted /\ parPosted' = parPosted
    BY <1>4 DEF PostTo
  <2> QED
    BY <1>3, <2>1 DEF Queues, SwTypes
<1>5. CASE w \in SwitchWarps /\ par
  <2>1. parPosted' = [parPosted EXCEPT ![w] = parPosted[w] \cup {c}] /\ posted' = posted
    BY <1>5, SwitchAssumption DEF PostTo, SSet
  <2>2. /\ parPosted'[w] = parPosted[w] \cup {c}
        /\ \A v \in SwitchWarps : v # w => parPosted'[v] = parPosted[v]
        /\ parPosted' \in [SwitchWarps -> SUBSET Coros]
    BY <1>2, <1>5, <2>1 DEF SwTypes
  <2>3. /\ \A i \in 1 .. Len(posted'[w]) :
             /\ swPc'[posted'[w][i]] = "posted" /\ sw'[posted'[w][i]].target = w
             /\ posted'[w][i] \notin parPosted'[w]
             /\ \A j \in 1 .. Len(posted'[w]) : posted'[w][i] = posted'[w][j] => i = j
        /\ \A d \in parPosted'[w] : swPc'[d] = "posted" /\ sw'[d].target = w /\ sw'[d].parTarget
    BY <1>1, <1>2, <1>5, <2>1, <2>2 DEF Queues
  <2> QED
    BY <1>3, <2>1, <2>2, <2>3 DEF Queues, SwTypes
<1>6. CASE w \in SwitchWarps /\ ~par
  <2>1. posted' = [posted EXCEPT ![w] = Append(posted[w], c)] /\ parPosted' = parPosted
    BY <1>6, SwitchAssumption DEF PostTo, SSet
  <2>2. /\ Append(posted[w], c) \in Seq(Coros)
        /\ Len(Append(posted[w], c)) = Len(posted[w]) + 1
        /\ Append(posted[w], c)[Len(posted[w]) + 1] = c
        /\ \A i \in 1 .. Len(posted[w]) : Append(posted[w], c)[i] = posted[w][i]
    BY <1>2, <1>6
  <2>3. PICK s : s = Append(posted[w], c)
    OBVIOUS
  <2>4. /\ posted'[w] = s /\ \A v \in SwitchWarps : v # w => posted'[v] = posted[v]
        /\ posted' \in [SwitchWarps -> Seq(Coros)]
    BY <1>6, <2>1, <2>2, <2>3 DEF SwTypes
  <2>5. ASSUME NEW i \in 1 .. Len(s)
        PROVE  /\ swPc'[s[i]] = "posted" /\ sw'[s[i]].target = w /\ s[i] \notin parPosted'[w]
               /\ \A j \in 1 .. Len(s) : s[i] = s[j] => i = j
    <3>1. \A j \in 1 .. Len(s) : j \in 1 .. Len(posted[w]) \/ j = Len(posted[w]) + 1
      BY <1>2, <1>6, <2>2, <2>3
    <3>2. CASE i = Len(posted[w]) + 1
      BY <1>1, <1>2, <1>6, <2>1, <2>2, <2>3, <3>1, <3>2
    <3>3. CASE i \in 1 .. Len(posted[w])
      <4>1. s[i] = posted[w][i] /\ s[i] \in Coros \ {c}
        BY <1>2, <1>6, <2>2, <2>3, <3>3
      <4>2. swPc[s[i]] = "posted" /\ sw[s[i]].target = w /\ s[i] \notin parPosted[w]
            /\ \A j \in 1 .. Len(posted[w]) : s[i] = posted[w][j] => i = j
        BY <1>6, <3>3, <4>1 DEF Queues
      <4>3. \A j \in 1 .. Len(s) : s[i] = s[j] => i = j
        BY <2>2, <2>3, <3>1, <4>1, <4>2
      <4> QED
        BY <1>1, <2>1, <4>1, <4>2, <4>3
    <3> QED
      BY <3>1, <3>2, <3>3
  <2>6. \A d \in parPosted'[w] : swPc'[d] = "posted" /\ sw'[d].target = w /\ sw'[d].parTarget
    BY <1>1, <1>2, <1>6, <2>1 DEF Queues
  <2>7. /\ \A i \in 1 .. Len(posted'[w]) :
             /\ swPc'[posted'[w][i]] = "posted" /\ sw'[posted'[w][i]].target = w
             /\ posted'[w][i] \notin parPosted'[w]
             /\ \A j \in 1 .. Len(posted'[w]) : posted'[w][i] = posted'[w][j] => i = j
        /\ \A d \in parPosted'[w] : swPc'[d] = "posted" /\ sw'[d].target = w /\ sw'[d].parTarget
    BY <2>4, <2>5, <2>6
  <2>8. \A v \in SwitchWarps : v # w => posted'[v] = posted[v] /\ parPosted'[v] = parPosted[v]
    BY <2>1, <2>4
  <2>9. Queues'
    BY <1>3, <2>7, <2>8 DEF Queues
  <2> QED
    BY <2>1, <2>4, <2>9 DEF SwTypes
<1> QED
  BY <1>4, <1>5, <1>6 DEF WarpsOrNone

\* The queues do not change, and nobody who is in one does.
LEMMA QueuesStay ==
  ASSUME SwTypes, Queues, NEW c \in Coros, swPc[c] # "posted" \/ sw[c].target = NoWarp,
         UNCHANGED <<posted, parPosted, sw>>,
         \A d \in Coros \ {c} : swPc'[d] = swPc[d]
  PROVE  Queues'
<1>1. \A v \in SwitchWarps :
        /\ \A i \in 1 .. Len(posted[v]) : posted[v][i] \in Coros /\ posted[v][i] # c
        /\ c \notin parPosted[v] /\ parPosted[v] \subseteq Coros
  <2> SUFFICES ASSUME NEW v \in SwitchWarps
               PROVE  /\ \A i \in 1 .. Len(posted[v]) : posted[v][i] \in Coros /\ posted[v][i] # c
                      /\ c \notin parPosted[v] /\ parPosted[v] \subseteq Coros
    OBVIOUS
  <2>1. v # NoWarp /\ posted[v] \in Seq(Coros) /\ parPosted[v] \subseteq Coros
    BY SwitchAssumption DEF SwTypes
  <2>2. \A i \in 1 .. Len(posted[v]) : posted[v][i] \in Coros
    BY <2>1
  <2> QED
    BY <2>1, <2>2 DEF Queues
<1> QED
  BY <1>1 DEF Queues

\* A step of c does not concern where the others are.
LEMMA WhereOthers ==
  ASSUME NEW c \in Coros, NEW d \in Coros, Where(d), swPc'[d] = swPc[d], sw'[d] = sw[d],
         holds'[d] = holds[d], shares'[d] = shares[d], step'[d] = step[d]
  PROVE  Where(d)'
BY DEF Where, Aims, Placed

LEMMA SwitchMoves ==
  ASSUME SwitchInv, NEW c \in Coros, SwTypes', Ownership', Queues', Where(c)',
         \A d \in Coros \ {c} :
            /\ swPc'[d] = swPc[d] /\ sw'[d] = sw[d] /\ holds'[d] = holds[d]
            /\ shares'[d] = shares[d] /\ step'[d] = step[d]
  PROVE  SwitchInv'
<1>1. ASSUME NEW d \in Coros PROVE Where(d)'
  <2>1. CASE d = c
    BY <2>1
  <2>2. CASE d # c
    BY <2>2, WhereOthers DEF SwitchInv
  <2> QED
    BY <2>1, <2>2
<1> QED
  BY <1>1 DEF SwitchInv

LEMMA SwitchKeeps == SwitchInv /\ [SwitchNext]_switchVars => SwitchInv'
<1> SUFFICES ASSUME SwitchInv, [SwitchNext]_switchVars PROVE SwitchInv'
  OBVIOUS
<1>a. SwTypes /\ Ownership /\ Queues
  BY DEF SwitchInv
<1>1. ASSUME NEW c \in Coros, SwitchStep(c) PROVE SwitchInv'
  <2>a. Where(c) /\ Absent # c
    BY SwitchAssumption DEF SwitchInv, Absent
  <2>b. /\ sw[c] \in WishSet /\ step[c] \in Nat /\ step[c] <= Len(Wishes[c])
        /\ sw[c].target \in WarpsOrNone /\ sw[c].other \in WarpsOrNone
    BY <1>a DEF SwTypes, WishSet
  \* At its target, c asks for a second warp that is not the first one.
  <2>c. ASSUME swPc[c] = "handler" PROVE sw[c].target = sw[c].other => sw[c].other = NoWarp
    <3>1. Aims(c) /\ step[c] \in 1 .. Len(Wishes[c])
      BY <2>a, <2>b, <2>c, WishTypes DEF Where
    <3>2. Wishes[c][step[c]].target = Wishes[c][step[c]].other => Wishes[c][step[c]].target = NoWarp
      BY <3>1, WishTypes
    <3> QED
      BY <3>1, <3>2 DEF Aims
  <2>1. CASE BeginSwitch(c)
    <3>1. /\ swPc[c] \in {"start", "inside"} /\ step[c] < Len(Wishes[c])
          /\ step' = [step EXCEPT ![c] = step[c] + 1]
      BY <2>1 DEF BeginSwitch, SSet
    <3>2. /\ step'[c] = step[c] + 1 /\ \A d \in Coros \ {c} : step'[d] = step[d]
          /\ step' \in [Coros -> Nat] /\ \A d \in Coros : step'[d] <= Len(Wishes[d])
      <4>1. Len(Wishes[c]) \in Nat
        BY WishTypes
      <4>2. step'[c] = step[c] + 1 /\ \A d \in Coros \ {c} : step'[d] = step[d]
        BY <1>a, <3>1 DEF SwTypes
      <4>3. step[c] + 1 <= Len(Wishes[c]) /\ step[c] + 1 \in Nat
        BY <2>b, <3>1, <4>1
      <4> QED
        BY <1>a, <3>1, <4>2, <4>3 DEF SwTypes
    <3>3. PICK w : w = Wishes[c][step[c] + 1]
      OBVIOUS
    <3>4. w \in WishSet /\ w = Wishes[c][step'[c]]
      BY <2>b, <3>1, <3>2, <3>3, WishTypes
    <3>5. CASE Ready(c, w)
      <4>1. /\ swPc' = [swPc EXCEPT ![c] = "inside"]
            /\ UNCHANGED <<owner, suspendOf, posted, parPosted, sw, holds, shares>>
        BY <2>1, <3>3, <3>5 DEF BeginSwitch, SSet, warpState
      <4>2. swPc'[c] = "inside" /\ \A d \in Coros \ {c} : swPc'[d] = swPc[d]
        BY <1>a, <4>1 DEF SwTypes
      <4>3. SwTypes'
        BY <1>a, <3>2, <4>1 DEF SwTypes, SwitchPCs
      <4>4. Ownership'
        BY <1>a, <4>1 DEF Ownership, Sharers
      <4>5. Queues'
        BY <1>a, <3>1, <4>1, <4>2, QueuesStay
      <4>6. SourceOf(c) = NoWarp \/ SourceOf(c) \in holds[c]
        BY DEF SourceOf
      <4>7. Placed(c, w.target, w.parTarget)' /\ Placed(c, w.other, w.parOther)'
        <5>1. {w.target, w.other} \subseteq {NoWarp, SourceOf(c)}
          BY <3>5 DEF Ready
        <5> QED
          BY <4>1, <4>6, <5>1 DEF Placed
      <4>8. Where(c)'
        BY <2>b, <3>2, <3>4, <4>2, <4>7 DEF Where
      <4> QED
        BY <3>2, <4>1, <4>2, <4>3, <4>4, <4>5, <4>8, SwitchMoves
    <3>6. CASE ~Ready(c, w)
      <4>1. PICK q : q = IF w.target = NoWarp THEN SwapPair(w) ELSE w
        OBVIOUS
      <4>2. /\ sw' = [sw EXCEPT ![c] = q]
            /\ PostTo(c, q.target, q.parTarget /\ (c \notin OutsidePool \/ step[c] > 0))
            /\ swPc' = [swPc EXCEPT ![c] = "posted"] /\ LeaveAll(c)
        BY <2>1, <3>3, <3>6, <4>1 DEF BeginSwitch, SSet
      <4>3. q \in WishSet
        BY <3>4, <4>1 DEF SwapPair, Wish, WishSet
      <4>4. /\ sw'[c] = q /\ swPc'[c] = "posted"
            /\ \A d \in Coros \ {c} : sw'[d] = sw[d] /\ swPc'[d] = swPc[d]
            /\ sw' \in [Coros -> WishSet] /\ swPc' \in [Coros -> SwitchPCs]
        BY <1>a, <4>2, <4>3 DEF SwTypes, SwitchPCs
      <4>5. /\ Queues' /\ posted' \in [SwitchWarps -> Seq(Coros)]
            /\ parPosted' \in [SwitchWarps -> SUBSET Coros]
        <5>1. q.target \in WarpsOrNone /\ swPc[c] # "posted"
          BY <3>1, <4>3 DEF WishSet
        <5> QED
          BY <1>a, <4>2, <4>4, <5>1, PostKeeps
      <4>6. SwTypes' /\ Ownership'
        BY <1>a, <3>2, <4>2, <4>4, <4>5, LeaveKeeps DEF SwTypes
      <4>7. holds'[c] = {} /\ shares'[c] = {}
            /\ \A d \in Coros \ {c} : holds'[d] = holds[d] /\ shares'[d] = shares[d]
        BY <1>a, <4>2, LeaveKeeps
      <4>8. Aims(c)'
        BY <3>4, <4>1, <4>4 DEF Aims, SwapPair, Wish
      <4>9. Where(c)'
        BY <2>b, <3>2, <4>4, <4>7, <4>8 DEF Where
      <4> QED
        BY <3>2, <4>4, <4>5, <4>6, <4>7, <4>9, SwitchMoves
    <3> QED
      BY <3>5, <3>6
  <2>2. CASE EnterPool(c)
    <3>1. /\ swPc[c] = "posted" /\ sw[c].target = NoWarp /\ swPc' = [swPc EXCEPT ![c] = "handler"]
          /\ UNCHANGED <<owner, suspendOf, posted, parPosted, sw, holds, shares, step>>
      BY <2>2 DEF EnterPool, SSet, warpState
    <3>2. swPc'[c] = "handler" /\ \A d \in Coros \ {c} : swPc'[d] = swPc[d]
      BY <1>a, <3>1 DEF SwTypes
    <3>3. SwTypes'
      BY <1>a, <3>1 DEF SwTypes, SwitchPCs
    <3>4. Ownership'
      BY <1>a, <3>1 DEF Ownership, Sharers
    <3>5. Queues'
      BY <1>a, <3>1, <3>2, QueuesStay
    <3>6. Where(c)'
      BY <2>a, <3>1, <3>2 DEF Where, Placed, Aims
    <3> QED
      BY <3>1, <3>2, <3>3, <3>4, <3>5, <3>6, SwitchMoves
  <2>3. CASE EnterWarp(c)
    <3>1. PICK w : w = sw[c].target
      OBVIOUS
    <3>2. /\ swPc[c] = "posted" /\ w # NoWarp /\ posted[w] # <<>> /\ Head(posted[w]) = c
          /\ owner[w] = Absent /\ suspendOf[w] = 0
          /\ owner' = [owner EXCEPT ![w] = c] /\ posted' = [posted EXCEPT ![w] = Tail(posted[w])]
          /\ holds' = [holds EXCEPT ![c] = {w}] /\ swPc' = [swPc EXCEPT ![c] = "handler"]
          /\ UNCHANGED <<suspendOf, parPosted, sw, shares, step>>
      BY <2>3, <3>1 DEF EnterWarp, SSet
    <3>3. w \in SwitchWarps
      BY <2>b, <3>1, <3>2 DEF WarpsOrNone
    <3>4. /\ swPc'[c] = "handler" /\ holds'[c] = {w} /\ owner'[w] = c
          /\ \A d \in Coros \ {c} : swPc'[d] = swPc[d] /\ holds'[d] = holds[d]
          /\ \A v \in SwitchWarps \ {w} : owner'[v] = owner[v] /\ posted'[v] = posted[v]
          /\ posted'[w] = Tail(posted[w])
      BY <1>a, <3>2, <3>3 DEF SwTypes
    <3>5. /\ posted[w] \in Seq(Coros) /\ Tail(posted[w]) \in Seq(Coros)
          /\ Len(posted[w]) \in Nat /\ Len(Tail(posted[w])) = Len(posted[w]) - 1
          /\ 1 \in 1 .. Len(posted[w]) /\ posted[w][1] = c
          /\ \A i \in 1 .. Len(Tail(posted[w])) :
               i + 1 \in 1 .. Len(posted[w]) /\ Tail(posted[w])[i] = posted[w][i + 1]
      <4>1. posted[w] \in Seq(Coros)
        BY <1>a, <3>3 DEF SwTypes
      <4> QED
        BY <3>2, <4>1
    <3>6. SwTypes'
      BY <1>a, <3>2, <3>3, <3>5 DEF SwTypes, SwitchPCs
    <3>7. Ownership'
      <4>1. Sharers(w) = {}
        BY <1>a, <3>2, <3>3, SharersFinite, FS_EmptySet DEF Ownership
      <4>2. ASSUME NEW v \in SwitchWarps, NEW d \in Coros
            PROVE  /\ owner'[v] = d <=> v \in holds'[d]
                   /\ v \in shares'[d] => owner'[v] = Absent
        <5>1. (owner[v] = d <=> v \in holds[d]) /\ (v \in shares[d] => owner[v] = Absent)
          BY <1>a DEF Ownership
        <5>2. holds[c] = {}
          BY <2>a, <3>2 DEF Where
        <5>3. shares' = shares /\ w \notin shares[d] /\ d # Absent
          BY <3>2, <4>1, SwitchAssumption DEF Sharers, Absent
        <5> QED
          BY <3>2, <3>4, <5>1, <5>2, <5>3
      <4>3. \A v \in SwitchWarps : Sharers(v)' = Sharers(v)
        BY <3>2 DEF Sharers
      <4> QED
        BY <1>a, <3>2, <4>2, <4>3 DEF Ownership
    <3>8. Queues'
      <4>1. \A d \in Coros : sw'[d] = sw[d]
        BY <3>2
      <4>2. ASSUME NEW v \in SwitchWarps \ {w}
            PROVE  /\ \A i \in 1 .. Len(posted'[v]) :
                        /\ swPc'[posted'[v][i]] = "posted" /\ sw'[posted'[v][i]].target = v
                        /\ posted'[v][i] \notin parPosted'[v]
                        /\ \A j \in 1 .. Len(posted'[v]) : posted'[v][i] = posted'[v][j] => i = j
                   /\ \A d \in parPosted'[v] : /\ swPc'[d] = "posted" /\ sw'[d].target = v
                                               /\ sw'[d].parTarget
        <5>1. posted'[v] = posted[v] /\ posted[v] \in Seq(Coros) /\ parPosted'[v] = parPosted[v]
              /\ parPosted[v] \subseteq Coros
          BY <1>a, <3>2, <3>4 DEF SwTypes
        <5>2. \A i \in 1 .. Len(posted[v]) : posted[v][i] \in Coros /\ posted[v][i] # c
          BY <1>a, <3>1, <5>1 DEF Queues
        <5>3. c \notin parPosted[v]
          BY <1>a, <3>1 DEF Queues
        <5> QED
          BY <1>a, <3>2, <3>4, <5>1, <5>2, <5>3 DEF Queues
      <4>3. ASSUME NEW i \in 1 .. Len(posted'[w])
            PROVE  /\ swPc'[posted'[w][i]] = "posted" /\ sw'[posted'[w][i]].target = w
                   /\ posted'[w][i] \notin parPosted'[w]
                   /\ \A j \in 1 .. Len(posted'[w]) : posted'[w][i] = posted'[w][j] => i = j
        <5>1. /\ i \in Nat /\ i >= 1 /\ i + 1 \in 1 .. Len(posted[w])
              /\ posted'[w][i] = posted[w][i + 1] /\ posted[w][i + 1] \in Coros
          BY <3>4, <3>5
        <5>2. /\ swPc[posted[w][i + 1]] = "posted" /\ sw[posted[w][i + 1]].target = w
              /\ posted[w][i + 1] \notin parPosted[w]
              /\ \A j \in 1 .. Len(posted[w]) : posted[w][i + 1] = posted[w][j] => i + 1 = j
          BY <1>a, <3>3, <5>1 DEF Queues
        <5>3. posted[w][i + 1] # c
          BY <3>5, <5>1, <5>2
        <5>4. \A j \in 1 .. Len(posted'[w]) : posted'[w][i] = posted'[w][j] => i = j
          BY <3>4, <3>5, <5>1, <5>2
        <5> QED
          BY <3>2, <3>4, <5>1, <5>2, <5>3, <5>4
      <4>4. \A d \in parPosted'[w] : swPc'[d] = "posted" /\ sw'[d].target = w /\ sw'[d].parTarget
        <5>1. c \notin parPosted[w] /\ parPosted[w] \subseteq Coros
          BY <1>a, <3>3, <3>5 DEF Queues, SwTypes
        <5> QED
          BY <1>a, <3>2, <3>3, <3>4, <5>1 DEF Queues
      <4> QED
        BY <4>2, <4>3, <4>4 DEF Queues
    <3>9. Where(c)'
      BY <2>a, <3>1, <3>2, <3>4 DEF Where, Placed, Aims
    <3> QED
      BY <3>2, <3>4, <3>6, <3>7, <3>8, <3>9, SwitchMoves
  <2>4. CASE EnterParallel(c)
    <3>1. PICK w : w = sw[c].target
      OBVIOUS
    <3>2. /\ swPc[c] = "posted" /\ w # NoWarp /\ c \in parPosted[w] /\ owner[w] = Absent
          /\ suspendOf' = [suspendOf EXCEPT ![w] = suspendOf[w] + 1]
          /\ parPosted' = [parPosted EXCEPT ![w] = parPosted[w] \ {c}]
          /\ shares' = [shares EXCEPT ![c] = {w}] /\ swPc' = [swPc EXCEPT ![c] = "handler"]
          /\ UNCHANGED <<owner, posted, sw, holds, step>>
      BY <2>4, <3>1 DEF EnterParallel, SSet
    <3>3. w \in SwitchWarps
      BY <2>b, <3>1, <3>2 DEF WarpsOrNone
    <3>4. /\ swPc'[c] = "handler" /\ shares'[c] = {w} /\ suspendOf'[w] = suspendOf[w] + 1
          /\ \A d \in Coros \ {c} : swPc'[d] = swPc[d] /\ shares'[d] = shares[d]
          /\ \A v \in SwitchWarps \ {w} : suspendOf'[v] = suspendOf[v] /\ parPosted'[v] = parPosted[v]
          /\ parPosted'[w] = parPosted[w] \ {c}
      BY <1>a, <3>2, <3>3 DEF SwTypes
    <3>5. holds[c] = {} /\ shares[c] = {} /\ sw[c].parTarget
      BY <1>a, <2>a, <3>1, <3>2, <3>3 DEF Where, Queues
    <3>6. SwTypes'
      <4>1. suspendOf' \in [SwitchWarps -> Nat]
        BY <1>a, <3>2, <3>3 DEF SwTypes
      <4> QED
        BY <1>a, <3>2, <3>3, <4>1 DEF SwTypes, SwitchPCs
    <3>7. Ownership'
      <4>1. c \notin Sharers(w) /\ Sharers(w)' = Sharers(w) \cup {c}
        BY <3>4, <3>5 DEF Sharers
      <4>2. Cardinality(Sharers(w)') = Cardinality(Sharers(w)) + 1
        BY <4>1, SharersFinite, FS_AddElement
      <4>3. \A v \in SwitchWarps \ {w} : Sharers(v)' = Sharers(v)
        BY <3>4, <3>5 DEF Sharers
      <4>4. \A v \in SwitchWarps : suspendOf'[v] = Cardinality(Sharers(v)')
        BY <1>a, <3>4, <4>2, <4>3 DEF Ownership
      <4> QED
        BY <1>a, <3>2, <3>4, <4>4 DEF Ownership
    <3>8. Queues'
      <4>1. \A v \in SwitchWarps : \A i \in 1 .. Len(posted[v]) : posted[v][i] \in Coros /\ posted[v][i] # c
        <5> SUFFICES ASSUME NEW v \in SwitchWarps, NEW i \in 1 .. Len(posted[v])
                     PROVE  posted[v][i] \in Coros /\ posted[v][i] # c
          OBVIOUS
        <5>1. posted[v] \in Seq(Coros)
          BY <1>a DEF SwTypes
        <5> QED
          BY <1>a, <3>1, <3>2, <5>1 DEF Queues
      <4>2. \A v \in SwitchWarps : c \notin parPosted'[v] /\ parPosted'[v] \subseteq parPosted[v]
                                   /\ parPosted[v] \subseteq Coros
        <5> SUFFICES ASSUME NEW v \in SwitchWarps
                     PROVE  /\ c \notin parPosted'[v] /\ parPosted'[v] \subseteq parPosted[v]
                            /\ parPosted[v] \subseteq Coros
          OBVIOUS
        <5>1. parPosted[v] \subseteq Coros
          BY <1>a DEF SwTypes
        <5>2. CASE v = w
          BY <3>4, <5>1, <5>2
        <5>3. CASE v # w
          BY <1>a, <3>1, <3>4, <5>1, <5>3 DEF Queues
        <5> QED
          BY <5>2, <5>3
      <4> QED
        BY <1>a, <3>2, <3>4, <4>1, <4>2 DEF Queues
    <3>9. Where(c)'
      BY <2>a, <3>1, <3>2, <3>4, <3>5 DEF Where, Placed, Aims
    <3> QED
      BY <3>2, <3>4, <3>6, <3>7, <3>8, <3>9, SwitchMoves
  <2>5. CASE HandlerSingle(c)
    <3>1. /\ swPc[c] = "handler" /\ sw[c].other = NoWarp /\ swPc' = [swPc EXCEPT ![c] = "inside"]
          /\ UNCHANGED <<owner, suspendOf, posted, parPosted, sw, holds, shares, step>>
      BY <2>5 DEF HandlerSingle, SSet, warpState
    <3>2. swPc'[c] = "inside" /\ \A d \in Coros \ {c} : swPc'[d] = swPc[d]
      BY <1>a, <3>1 DEF SwTypes
    <3>3. SwTypes'
      BY <1>a, <3>1 DEF SwTypes, SwitchPCs
    <3>4. Ownership'
      BY <1>a, <3>1 DEF Ownership, Sharers
    <3>5. Queues'
      BY <1>a, <3>1, <3>2, QueuesStay
    <3>6. Where(c)'
      BY <2>a, <3>1, <3>2 DEF Where, Placed, Aims
    <3> QED
      BY <3>1, <3>2, <3>3, <3>4, <3>5, <3>6, SwitchMoves
  <2>6. CASE HandlerShare(c)
    <3>1. PICK w : w = sw[c].other
      OBVIOUS
    <3>2. /\ swPc[c] = "handler" /\ w # NoWarp /\ sw[c].parOther /\ owner[w] = Absent
          /\ suspendOf' = [suspendOf EXCEPT ![w] = suspendOf[w] + 1]
          /\ shares' = [shares EXCEPT ![c] = shares[c] \cup {w}]
          /\ swPc' = [swPc EXCEPT ![c] = "inside"]
          /\ UNCHANGED <<owner, posted, parPosted, sw, holds, step>>
      BY <2>6, <3>1 DEF HandlerShare, SSet
    <3>3. w \in SwitchWarps
      BY <2>b, <3>1, <3>2 DEF WarpsOrNone
    <3>4. /\ swPc'[c] = "inside" /\ shares'[c] = shares[c] \cup {w}
          /\ suspendOf'[w] = suspendOf[w] + 1
          /\ \A d \in Coros \ {c} : swPc'[d] = swPc[d] /\ shares'[d] = shares[d]
          /\ \A v \in SwitchWarps \ {w} : suspendOf'[v] = suspendOf[v]
      BY <1>a, <3>2, <3>3 DEF SwTypes
    <3>5. w \notin shares[c]
      BY <2>a, <2>c, <3>1, <3>2 DEF Where
    <3>6. SwTypes'
      <4>1. suspendOf' \in [SwitchWarps -> Nat] /\ shares' \in [Coros -> SUBSET SwitchWarps]
        BY <1>a, <3>2, <3>3 DEF SwTypes
      <4> QED
        BY <1>a, <3>2, <3>3, <4>1 DEF SwTypes, SwitchPCs
    <3>7. Ownership'
      <4>1. c \notin Sharers(w) /\ Sharers(w)' = Sharers(w) \cup {c}
        BY <3>4, <3>5 DEF Sharers
      <4>2. Cardinality(Sharers(w)') = Cardinality(Sharers(w)) + 1
        BY <4>1, SharersFinite, FS_AddElement
      <4>3. \A v \in SwitchWarps \ {w} : Sharers(v)' = Sharers(v)
        BY <3>4 DEF Sharers
      <4>4. \A v \in SwitchWarps : suspendOf'[v] = Cardinality(Sharers(v)')
        BY <1>a, <3>4, <4>2, <4>3 DEF Ownership
      <4> QED
        BY <1>a, <3>2, <3>4, <4>4 DEF Ownership
    <3>8. Queues'
      BY <1>a, <3>2, <3>4, QueuesStay
    <3>9. Where(c)'
      BY <2>a, <3>1, <3>2, <3>4 DEF Where, Placed, Aims
    <3> QED
      BY <3>2, <3>4, <3>6, <3>7, <3>8, <3>9, SwitchMoves
  <2>7. CASE HandlerPreempt(c)
    <3>1. PICK w : w = sw[c].other
      OBVIOUS
    <3>2. /\ swPc[c] = "handler" /\ w # NoWarp /\ owner[w] = Absent /\ suspendOf[w] = 0
          /\ owner' = [owner EXCEPT ![w] = c] /\ holds' = [holds EXCEPT ![c] = holds[c] \cup {w}]
          /\ swPc' = [swPc EXCEPT ![c] = "inside"]
          /\ UNCHANGED <<suspendOf, posted, parPosted, sw, shares, step>>
      BY <2>7, <3>1 DEF HandlerPreempt, SSet
    <3>3. w \in SwitchWarps
      BY <2>b, <3>1, <3>2 DEF WarpsOrNone
    <3>4. /\ swPc'[c] = "inside" /\ holds'[c] = holds[c] \cup {w} /\ owner'[w] = c
          /\ \A d \in Coros \ {c} : swPc'[d] = swPc[d] /\ holds'[d] = holds[d]
          /\ \A v \in SwitchWarps \ {w} : owner'[v] = owner[v]
      BY <1>a, <3>2, <3>3 DEF SwTypes
    <3>5. SwTypes'
      BY <1>a, <3>2, <3>3 DEF SwTypes, SwitchPCs
    <3>6. Ownership'
      <4>1. Sharers(w) = {}
        BY <1>a, <3>2, <3>3, SharersFinite, FS_EmptySet DEF Ownership
      <4>2. ASSUME NEW v \in SwitchWarps, NEW d \in Coros
            PROVE  /\ owner'[v] = d <=> v \in holds'[d]
                   /\ v \in shares'[d] => owner'[v] = Absent
        <5>1. (owner[v] = d <=> v \in holds[d]) /\ (v \in shares[d] => owner[v] = Absent)
          BY <1>a DEF Ownership
        <5>2. shares' = shares /\ w \notin shares[d] /\ d # Absent
          BY <3>2, <4>1, SwitchAssumption DEF Sharers, Absent
        <5> QED
          BY <3>2, <3>4, <5>1, <5>2
      <4>3. \A v \in SwitchWarps : Sharers(v)' = Sharers(v)
        BY <3>2 DEF Sharers
      <4> QED
        BY <1>a, <3>2, <4>2, <4>3 DEF Ownership
    <3>7. Queues'
      BY <1>a, <3>2, <3>4, QueuesStay
    <3>8. Where(c)'
      BY <2>a, <3>1, <3>2, <3>4 DEF Where, Placed, Aims
    <3> QED
      BY <3>2, <3>4, <3>5, <3>6, <3>7, <3>8, SwitchMoves
  <2>8. CASE HandlerSwap(c)
    <3>1. PICK q : q = SwapPair(sw[c])
      OBVIOUS
    <3>2. /\ swPc[c] = "handler" /\ sw' = [sw EXCEPT ![c] = q] /\ PostTo(c, q.target, q.parTarget)
          /\ swPc' = [swPc EXCEPT ![c] = "posted"] /\ LeaveAll(c) /\ step' = step
      BY <2>8, <3>1 DEF HandlerSwap, SSet
    <3>3. q \in WishSet
      BY <2>b, <3>1 DEF SwapPair, Wish, WishSet
    <3>4. /\ sw'[c] = q /\ swPc'[c] = "posted"
          /\ \A d \in Coros \ {c} : sw'[d] = sw[d] /\ swPc'[d] = swPc[d]
          /\ sw' \in [Coros -> WishSet] /\ swPc' \in [Coros -> SwitchPCs]
      BY <1>a, <3>2, <3>3 DEF SwTypes, SwitchPCs
    <3>5. /\ Queues' /\ posted' \in [SwitchWarps -> Seq(Coros)]
          /\ parPosted' \in [SwitchWarps -> SUBSET Coros]
      <4>1. q.target \in WarpsOrNone /\ swPc[c] # "posted"
        BY <3>2, <3>3 DEF WishSet
      <4> QED
        BY <1>a, <3>2, <3>4, <4>1, PostKeeps
    <3>6. SwTypes' /\ Ownership'
      BY <1>a, <3>2, <3>4, <3>5, LeaveKeeps DEF SwTypes
    <3>7. holds'[c] = {} /\ shares'[c] = {}
          /\ \A d \in Coros \ {c} : holds'[d] = holds[d] /\ shares'[d] = shares[d]
      BY <1>a, <3>2, LeaveKeeps
    <3>8. Aims(c)'
      <4>1. Aims(c)
        BY <2>a, <3>2 DEF Where
      <4>2. /\ sw'[c].target = sw[c].other /\ sw'[c].other = sw[c].target
            /\ sw'[c].parTarget = sw[c].parOther /\ sw'[c].parOther = sw[c].parTarget
        BY <3>1, <3>4 DEF SwapPair, Wish
      <4> QED
        BY <3>2, <4>1, <4>2 DEF Aims
    <3>9. Where(c)'
      BY <2>a, <3>2, <3>4, <3>7, <3>8 DEF Where
    <3> QED
      BY <3>2, <3>4, <3>5, <3>6, <3>7, <3>9, SwitchMoves
  <2>9. CASE EndCoroutine(c)
    <3>1. /\ swPc[c] = "inside" /\ swPc' = [swPc EXCEPT ![c] = "end"] /\ LeaveAll(c)
          /\ UNCHANGED <<posted, parPosted, sw, step>>
      BY <2>9 DEF EndCoroutine, SSet
    <3>2. swPc'[c] = "end" /\ \A d \in Coros \ {c} : swPc'[d] = swPc[d]
      BY <1>a, <3>1 DEF SwTypes
    <3>3. SwTypes' /\ Ownership'
      BY <1>a, <3>1, LeaveKeeps DEF SwTypes, SwitchPCs
    <3>4. Queues'
      BY <1>a, <3>1, <3>2, QueuesStay
    <3>5. Where(c)'
      BY <3>2 DEF Where
    <3>6. \A d \in Coros \ {c} : holds'[d] = holds[d] /\ shares'[d] = shares[d]
      BY <1>a, <3>1, LeaveKeeps
    <3> QED
      BY <3>1, <3>2, <3>3, <3>4, <3>5, <3>6, SwitchMoves
  <2> QED
    BY <1>1, <2>1, <2>2, <2>3, <2>4, <2>5, <2>6, <2>7, <2>8, <2>9 DEF SwitchStep
<1>2. CASE UNCHANGED switchVars
  <2>0. /\ owner' = owner /\ suspendOf' = suspendOf /\ posted' = posted /\ parPosted' = parPosted
        /\ sw' = sw /\ swPc' = swPc /\ holds' = holds /\ shares' = shares /\ step' = step
    BY <1>2 DEF switchVars
  <2>1. SwTypes' /\ Ownership' /\ Queues'
    <3>1. SwTypes'
      BY <1>a, <2>0 DEF SwTypes
    <3>2. Ownership'
      BY <1>a, <2>0 DEF Ownership, Sharers
    <3>3. Queues'
      BY <1>a, <2>0 DEF Queues
    <3> QED
      BY <3>1, <3>2, <3>3
  <2>2. \A c \in Coros : Where(c)'
    BY <1>2, WhereOthers DEF switchVars, SwitchInv
  <2> QED
    BY <2>1, <2>2 DEF SwitchInv
<1> QED
  BY <1>1, <1>2 DEF SwitchNext

LEMMA SwitchRight == SwitchInv => SwitchedExclusively
<1> SUFFICES ASSUME SwitchInv, NEW c \in Coros, swPc[c] = "inside", step[c] > 0
             PROVE  LET w == Wishes[c][step[c]]
                        asked == {w.target, w.other} \ {NoWarp}
                        parallel == {x \in asked : \/ x = w.target /\ w.parTarget
                                                   \/ x = w.other /\ w.parOther}
                    IN  /\ asked \subseteq holds[c] \cup shares[c]
                        /\ asked \ parallel \subseteq holds[c]
                        /\ \A d \in Coros \ {c} : holds[d] \cap (holds[c] \cup shares[c]) = {}
  BY DEF SwitchedExclusively
<1>1. PICK w : w = Wishes[c][step[c]]
  OBVIOUS
<1>2. Placed(c, w.target, w.parTarget) /\ Placed(c, w.other, w.parOther)
  BY <1>1 DEF SwitchInv, Where
<1>3. \A d \in Coros \ {c} : holds[d] \cap (holds[c] \cup shares[c]) = {}
  <2> SUFFICES ASSUME NEW d \in Coros \ {c}, NEW x \in holds[d], x \in holds[c] \cup shares[c]
               PROVE  FALSE
    OBVIOUS
  <2>1. x \in SwitchWarps /\ owner[x] = d
    BY DEF SwitchInv, SwTypes, Ownership
  <2> QED
    BY <2>1, SwitchAssumption DEF SwitchInv, Ownership, Absent
<1> QED
  BY <1>1, <1>2, <1>3 DEF Placed

-----------------------------------------------------------------------------
(* iris_quota_queue_t                                                        *)

QuotaPCs == {"idle", "probe", "queue", "retry", "retried", "push", "waiting", "ready", "held",
             "give", "wake", "pop", "stop"}

QuotaTypes ==
    /\ quantities \in Amounts /\ quotaHandles \in Seq(Users)
    /\ quotaPc \in [Users -> QuotaPCs] /\ phase \in [Users -> {"take", "undo"}]
    /\ taken \in [Users -> SUBSET (1 .. Kinds)]
    /\ amount \in [Users -> Amounts] /\ giving \in [Users -> Amounts]

QuotaUser(u) ==
    /\ quotaPc[u] \in {"retry", "retried", "push", "wake", "pop", "stop"} => quotaLock = u
    /\ phase[u] = "undo" => quotaPc[u] \in {"probe", "retry", "wake"}
    /\ taken[u] # {} => quotaPc[u] \in {"probe", "retry", "wake", "give"}
    /\ quotaPc[u] \in {"wake", "pop"} => quotaHandles # <<>>

\* Everyone in the queue waits, and is in it once.
QueueWaits ==
    \A i \in 1 .. Len(quotaHandles) :
      /\ quotaPc[quotaHandles[i]] = "waiting"
      /\ \A j \in 1 .. Len(quotaHandles) : quotaHandles[i] = quotaHandles[j] => i = j

\* u will look for a waiter; u will become one; u will try, or try again; u has
\* kind k in its hands for an acquire() that has not come to its end.
Releasing(u) == quotaPc[u] \in {"give", "pop"} \/ (quotaPc[u] = "wake" /\ phase[u] = "take")
Pushing(u) == quotaPc[u] = "push" \/ (quotaPc[u] = "retry" /\ phase[u] = "undo")
Trying == {u \in Users : quotaPc[u] \in {"probe", "queue"}
                         \/ (quotaPc[u] = "retry" /\ phase[u] = "take")}
InHand(k) == {u \in Users : quotaPc[u] \in {"probe", "retry", "wake"} /\ k \in taken[u]}

(***************************************************************************)
(* Somebody will still look for a waiter, or there is none, or one kind is *)
(* too short to serve a waiter and everyone who still tries, even when all *)
(* the failing acquire() have put back what they took.                     *)
(***************************************************************************)
ShortOf(k) ==
    \A u \in Users : quantities[k] + Request[u][k] * Cardinality(InHand(k))
                       < Request[u][k] * (1 + Cardinality(Trying))
WaitersKnown ==
    \/ \E u \in Users : Releasing(u)
    \/ quotaHandles = <<>> /\ \A u \in Users : ~Pushing(u)
    \/ \E k \in 1 .. Kinds : ShortOf(k)

QuotaShape == QuotaTypes /\ (\A u \in Users : QuotaUser(u)) /\ QueueWaits
QuotaInv == QuotaShape /\ WaitersKnown

\* Every coroutine asks for the same.  (Otherwise a waiter can be missed: what a
\* failing acquire() of another request holds for a moment may be all it lacks.)
SameRequests == \A u, v \in Users : Request[u] = Request[v]

\* What acquire() in progress is for, whoever's it is.
LEMMA WantedBy ==
  ASSUME QuotaTypes, NEW u \in Users, QuotaUser(u)
  PROVE  \E v \in Users : Wanted(u) = Request[v] /\ Request[v] \in Amounts
<1>1. \A v \in Users : Request[v] \in Amounts
  BY QuotaAssumption
<1>2. CASE quotaPc[u] = "wake"
  <2>1. Head(quotaHandles) \in Users
    BY <1>2 DEF QuotaUser, QuotaTypes
  <2> QED
    BY <1>1, <1>2, <2>1 DEF Wanted
<1>3. CASE quotaPc[u] # "wake"
  BY <1>1, <1>3 DEF Wanted
<1> QED
  BY <1>2, <1>3

LEMMA WantedSame ==
  ASSUME SameRequests, QuotaTypes, NEW u \in Users, QuotaUser(u)
  PROVE  Wanted(u) \in Amounts /\ \A v \in Users : Wanted(u) = Request[v]
  BY WantedBy DEF SameRequests

LEMMA TryingFinite ==
  /\ IsFiniteSet(Trying) /\ Cardinality(Trying) \in Nat
  /\ IsFiniteSet(Trying)' /\ Cardinality(Trying)' \in Nat
<1>1. IsFiniteSet(Users) /\ Trying \subseteq Users /\ Trying' \subseteq Users
  BY QuotaAssumption DEF Trying
<1> QED
  BY <1>1, FS_Subset, FS_CardinalityType

LEMMA InHandFinite ==
  ASSUME NEW k
  PROVE  /\ IsFiniteSet(InHand(k)) /\ Cardinality(InHand(k)) \in Nat
         /\ IsFiniteSet(InHand(k))' /\ Cardinality(InHand(k))' \in Nat
<1>1. IsFiniteSet(Users) /\ InHand(k) \subseteq Users /\ InHand(k)' \subseteq Users
  BY QuotaAssumption DEF InHand
<1> QED
  BY <1>1, FS_Subset, FS_CardinalityType

LEMMA TimesOneMore == \A r, n \in Nat : r * (n + 1) = r * n + r /\ r * n \in Nat
  OBVIOUS

LEMMA TimesMore == \A r, m, n \in Nat : m <= n => r * m <= r * n
  OBVIOUS

\* Nobody stops looking, nobody becomes a waiter, and no more is left for those who try.
LEMMA KnownStays ==
  ASSUME QuotaTypes, WaitersKnown, quantities' = quantities, quotaHandles' = quotaHandles,
         \A v \in Users : (Releasing(v) => Releasing(v)') /\ (Pushing(v)' => Pushing(v)),
         \A k \in 1 .. Kinds : InHand(k)' = InHand(k),
         Trying \subseteq Trying'
  PROVE  WaitersKnown'
<1>1. Cardinality(Trying) <= Cardinality(Trying') /\ Cardinality(Trying) \in Nat
      /\ Cardinality(Trying') \in Nat
  BY TryingFinite, FS_Subset
<1>2. CASE \E v \in Users : Releasing(v)
  BY <1>2 DEF WaitersKnown
<1>3. CASE quotaHandles = <<>> /\ \A v \in Users : ~Pushing(v)
  BY <1>3 DEF WaitersKnown
<1>4. ASSUME NEW k \in 1 .. Kinds, ShortOf(k) PROVE WaitersKnown'
  <2>1. ASSUME NEW v \in Users
        PROVE  quantities'[k] + Request[v][k] * Cardinality(InHand(k)')
                 < Request[v][k] * (1 + Cardinality(Trying'))
    <3>1. Request[v][k] \in Nat /\ quantities[k] \in Nat
      BY QuotaAssumption DEF Amounts, QuotaTypes
    <3>2. Request[v][k] * (1 + Cardinality(Trying)) <= Request[v][k] * (1 + Cardinality(Trying'))
      <4>1. 1 + Cardinality(Trying) <= 1 + Cardinality(Trying')
            /\ 1 + Cardinality(Trying) \in Nat /\ 1 + Cardinality(Trying') \in Nat
        BY <1>1
      <4> QED
        BY <3>1, <4>1, TimesMore
    <3>3. quantities[k] + Request[v][k] * Cardinality(InHand(k))
            < Request[v][k] * (1 + Cardinality(Trying))
      BY <1>4 DEF ShortOf
    <3>4. /\ Request[v][k] * Cardinality(InHand(k)) \in Nat
          /\ Request[v][k] * (1 + Cardinality(Trying)) \in Nat
          /\ Request[v][k] * (1 + Cardinality(Trying')) \in Nat
      BY <1>1, <3>1, InHandFinite
    <3> QED
      BY <3>1, <3>2, <3>3, <3>4
  <2>2. ShortOf(k)'
    BY <2>1 DEF ShortOf
  <2> QED
    BY <2>2 DEF WaitersKnown
<1> QED
  BY <1>2, <1>3, <1>4 DEF WaitersKnown

\* What one acquire() takes or puts back moves between the quota and its hands.
LEMMA KnownMoves ==
  ASSUME QuotaTypes, QuotaTypes', WaitersKnown, quotaHandles' = quotaHandles,
         \A v \in Users : (Releasing(v)' <=> Releasing(v)) /\ (Pushing(v)' <=> Pushing(v)),
         Trying' = Trying, NEW h \in 1 .. Kinds,
         \A k \in 1 .. Kinds \ {h} : quantities'[k] = quantities[k] /\ InHand(k)' = InHand(k),
         \A v \in Users :
           \/ /\ quantities'[h] = quantities[h] - Request[v][h]
              /\ Cardinality(InHand(h)') = Cardinality(InHand(h)) + 1
           \/ /\ quantities'[h] = quantities[h] + Request[v][h]
              /\ Cardinality(InHand(h)) = Cardinality(InHand(h)') + 1
  PROVE  WaitersKnown'
<1>1. CASE \E v \in Users : Releasing(v)
  BY <1>1 DEF WaitersKnown
<1>2. CASE quotaHandles = <<>> /\ \A v \in Users : ~Pushing(v)
  BY <1>2 DEF WaitersKnown
<1>3. ASSUME NEW k \in 1 .. Kinds, ShortOf(k) PROVE WaitersKnown'
  <2>1. CASE k # h
    <3>1. ShortOf(k)'
      BY <1>3, <2>1 DEF ShortOf
    <3> QED
      BY <3>1 DEF WaitersKnown
  <2>2. CASE k = h
    <3>1. ASSUME NEW v \in Users
          PROVE  quantities'[k] + Request[v][k] * Cardinality(InHand(k)')
                   < Request[v][k] * (1 + Cardinality(Trying'))
      <4>1. PICK r \in Nat : r = Request[v][k]
        BY QuotaAssumption DEF Amounts
      <4>2. quantities[k] \in Nat /\ quantities'[k] \in Nat
        BY DEF QuotaTypes, Amounts
      <4>3. PICK x \in Nat : x = Cardinality(InHand(k))
        BY InHandFinite
      <4>4. PICK y \in Nat : y = Cardinality(InHand(k)')
        BY InHandFinite
      <4>5. quantities[k] + r * x < r * (1 + Cardinality(Trying))
        BY <1>3, <4>1, <4>3 DEF ShortOf
      <4>6. PICK z \in Nat : z = r * (1 + Cardinality(Trying))
        BY <4>1, TryingFinite
      <4>7. PICK xr \in Nat : xr = r * x
        BY TimesOneMore
      <4>8. PICK yr \in Nat : yr = r * y
        BY TimesOneMore
      <4>9. \/ quantities'[k] = quantities[k] - r /\ y = x + 1
            \/ quantities'[k] = quantities[k] + r /\ x = y + 1
        BY <2>2, <4>1, <4>3, <4>4
      <4>10. \/ quantities'[k] = quantities[k] - r /\ yr = xr + r
             \/ quantities'[k] = quantities[k] + r /\ xr = yr + r
        BY <4>7, <4>8, <4>9, TimesOneMore
      <4>11. quantities'[k] + yr < z
        BY <4>2, <4>5, <4>6, <4>7, <4>10
      <4> QED
        BY <4>1, <4>4, <4>6, <4>8, <4>11
    <3>2. ShortOf(k)'
      BY <3>1 DEF ShortOf
    <3> QED
      BY <3>2 DEF WaitersKnown
  <2> QED
    BY <2>1, <2>2
<1> QED
  BY <1>1, <1>2, <1>3 DEF WaitersKnown

\* An acquire() that comes to a shortage under the lock finds one for everyone.
LEMMA KnownShort ==
  ASSUME SameRequests, QuotaTypes, NEW u \in Users, NEW k \in 1 .. Kinds,
         quantities'[k] = quantities[k], quantities[k] < Request[u][k],
         InHand(k)' \subseteq Trying'
  PROVE  WaitersKnown'
<1>1. ASSUME NEW v \in Users
      PROVE  quantities'[k] + Request[v][k] * Cardinality(InHand(k)')
               < Request[v][k] * (1 + Cardinality(Trying'))
  <2>1. PICK r \in Nat : r = Request[v][k] /\ r = Request[u][k]
    BY QuotaAssumption DEF Amounts, SameRequests
  <2>2. PICK x \in Nat : x = Cardinality(InHand(k)')
    BY InHandFinite
  <2>3. PICK y \in Nat : y = Cardinality(Trying')
    BY TryingFinite
  <2>4. x <= y
    BY <2>2, <2>3, TryingFinite, FS_Subset
  <2>5. r * x <= r * y /\ r * x \in Nat /\ r * y \in Nat /\ r * (y + 1) = r * y + r
    BY <2>4, TimesMore, TimesOneMore
  <2>6. PICK xr \in Nat : xr = r * x
    BY <2>5
  <2>7. PICK yr \in Nat : yr = r * y
    BY <2>5
  <2>8. PICK zr \in Nat : zr = r * (1 + y)
    BY <2>5
  <2>9. zr = yr + r
    <3>1. 1 + y = y + 1
      OBVIOUS
    <3> QED
      BY <2>5, <2>7, <2>8, <3>1
  <2>10. quantities'[k] + xr < zr
    <3>1. quantities[k] \in Nat /\ quantities[k] < r /\ quantities'[k] = quantities[k] /\ xr <= yr
      BY <2>1, <2>5, <2>6, <2>7 DEF QuotaTypes, Amounts
    <3> QED
      BY <2>9, <3>1
  <2> QED
    BY <2>1, <2>2, <2>3, <2>6, <2>8, <2>10
<1>2. ShortOf(k)'
  BY <1>1 DEF ShortOf
<1> QED
  BY <1>2 DEF WaitersKnown

\* An acquire() succeeds: with it goes one of those who tried.
LEMMA KnownServed ==
  ASSUME QuotaTypes, WaitersKnown, quantities' = quantities, quotaHandles' = quotaHandles,
         NEW u \in Users, u \in Trying, Trying' = Trying \ {u},
         \A v \in Users : (Releasing(v) => Releasing(v)') /\ (Pushing(v)' => Pushing(v)),
         \A k \in 1 .. Kinds : InHand(k)' = InHand(k) \ {u},
         \A v \in Users, k \in 1 .. Kinds : Request[v][k] # 0 => u \in InHand(k)
  PROVE  WaitersKnown'
<1>1. CASE \E v \in Users : Releasing(v)
  BY <1>1 DEF WaitersKnown
<1>2. CASE quotaHandles = <<>> /\ \A v \in Users : ~Pushing(v)
  BY <1>2 DEF WaitersKnown
<1>3. ASSUME NEW k \in 1 .. Kinds, ShortOf(k) PROVE WaitersKnown'
  <2>1. ASSUME NEW v \in Users
        PROVE  quantities'[k] + Request[v][k] * Cardinality(InHand(k)')
                 < Request[v][k] * (1 + Cardinality(Trying'))
    <3>1. PICK r \in Nat : r = Request[v][k]
      BY QuotaAssumption DEF Amounts
    <3>2. quantities[k] \in Nat
      BY DEF QuotaTypes, Amounts
    <3>3. PICK x \in Nat : x = Cardinality(InHand(k))
      BY InHandFinite
    <3>4. PICK y \in Nat : y = Cardinality(InHand(k)')
      BY InHandFinite
    <3>5. PICK m \in Nat : m = Cardinality(Trying)
      BY TryingFinite
    <3>6. PICK n \in Nat : n = Cardinality(Trying')
      BY TryingFinite
    <3>7. quantities[k] + r * x < r * (1 + m)
      BY <1>3, <3>1, <3>3, <3>5 DEF ShortOf
    <3>8. r * x \in Nat
      BY TimesOneMore
    <3>9. r # 0
      <4>1. r = 0 => r * (1 + m) = 0
        OBVIOUS
      <4> QED
        BY <3>2, <3>7, <3>8, <4>1
    <3>10. m = n + 1
      BY <3>5, <3>6, TryingFinite, FS_RemoveElement
    <3>11. x = y + 1
      <4>1. u \in InHand(k)
        BY <3>1, <3>9
      <4> QED
        BY <3>3, <3>4, <4>1, InHandFinite, FS_RemoveElement
    <3>12. PICK xr \in Nat : xr = r * x
      BY <3>8
    <3>13. PICK yr \in Nat : yr = r * y
      BY TimesOneMore
    <3>14. PICK zm \in Nat : zm = r * (1 + m)
      OBVIOUS
    <3>15. PICK zn \in Nat : zn = r * (1 + n)
      OBVIOUS
    <3>16. xr = yr + r
      BY <3>11, <3>12, <3>13, TimesOneMore
    <3>17. zm = zn + r
      <4>1. 1 + n \in Nat /\ 1 + m = (1 + n) + 1
        BY <3>10
      <4> QED
        BY <3>14, <3>15, <4>1, TimesOneMore
    <3>18. quantities[k] + yr < zn
      BY <3>2, <3>7, <3>12, <3>14, <3>16, <3>17
    <3> QED
      BY <3>1, <3>4, <3>6, <3>13, <3>15, <3>18
  <2>2. ShortOf(k)'
    BY <2>1 DEF ShortOf
  <2> QED
    BY <2>2 DEF WaitersKnown
<1> QED
  BY <1>1, <1>2, <1>3 DEF WaitersKnown

\* A step of u, who is no waiter, leaves the queue and the others alone.
LEMMA QuotaOthers ==
  ASSUME QuotaTypes, \A v \in Users : QuotaUser(v), QueueWaits, NEW u \in Users,
         \A v \in Users \ {u} : quotaPc'[v] = quotaPc[v] /\ phase'[v] = phase[v]
                                /\ taken'[v] = taken[v],
         quotaHandles' = quotaHandles, quotaPc[u] # "waiting",
         quotaLock' = quotaLock \/ quotaLock = "free" \/ quotaLock = u, QuotaUser(u)'
  PROVE  (\A v \in Users : QuotaUser(v)') /\ QueueWaits'
<1>1. ASSUME NEW v \in Users PROVE QuotaUser(v)'
  <2>1. CASE v = u
    BY <2>1
  <2>2. CASE v # u
    BY <2>2, QuotaAssumption DEF QuotaUser
  <2> QED
    BY <2>1, <2>2
<1>2. QueueWaits'
  <2>1. \A i \in 1 .. Len(quotaHandles) : quotaHandles[i] \in Users
    BY DEF QuotaTypes
  <2> QED
    BY <2>1 DEF QueueWaits
<1> QED
  BY <1>1, <1>2

LEMMA QuotaStarts == QuotaInit => QuotaInv
<1> SUFFICES ASSUME QuotaInit PROVE QuotaInv
  OBVIOUS
<1>1. Zero \in Amounts
  BY DEF Zero, Amounts
<1>2. quotaHandles \in Seq(Users)
  BY DEF QuotaInit
<1>3. QuotaTypes
  BY <1>1, <1>2, QuotaAssumption DEF QuotaInit, QuotaTypes, QuotaPCs
<1>4. \A u \in Users : QuotaUser(u)
  BY DEF QuotaInit, QuotaUser
<1>5. QueueWaits /\ WaitersKnown
  BY DEF QuotaInit, QueueWaits, WaitersKnown, Pushing
<1> QED
  BY <1>3, <1>4, <1>5 DEF QuotaInv, QuotaShape

\* Whoever looks at the queue under the lock finds a waiter at its top.
LEMMA TopWaits ==
  ASSUME QuotaTypes, QueueWaits, NEW u \in Users, QuotaUser(u), quotaPc[u] \in {"wake", "pop"}
  PROVE  /\ quotaHandles # <<>> /\ Head(quotaHandles) \in Users /\ Head(quotaHandles) # u
         /\ quotaPc[Head(quotaHandles)] = "waiting"
<1>1. quotaHandles # <<>> /\ quotaHandles \in Seq(Users)
  BY DEF QuotaUser, QuotaTypes
<1>2. 1 \in 1 .. Len(quotaHandles) /\ Head(quotaHandles) = quotaHandles[1]
      /\ Head(quotaHandles) \in Users
  BY <1>1
<1>3. quotaPc[quotaHandles[1]] = "waiting"
  BY <1>2 DEF QueueWaits
<1> QED
  BY <1>1, <1>2, <1>3

\* What release() and clear() take out of a resource.
LEMMA DeltaTyped ==
  ASSUME NEW u \in Users, amount \in [Users -> Amounts], ReleaseResource(u)
  PROVE  \E delta :
           /\ delta \in Amounts /\ \A k \in 1 .. Kinds : delta[k] <= amount[u][k]
           /\ amount' = [amount EXCEPT ![u] = Minus(@, delta)]
           /\ giving' = [giving EXCEPT ![u] = delta]
           /\ taken' = [taken EXCEPT ![u] = Positive(delta)]
<1>1. PICK delta \in {d \in [1 .. Kinds -> 0 .. 1] : \A k \in 1 .. Kinds : d[k] <= amount[u][k]}
                     \cup {amount[u]} :
         /\ amount' = [amount EXCEPT ![u] = Minus(@, delta)]
         /\ giving' = [giving EXCEPT ![u] = delta]
         /\ taken' = [taken EXCEPT ![u] = Positive(delta)]
  BY DEF ReleaseResource
<1>2. amount[u] \in Amounts /\ \A k \in 1 .. Kinds : amount[u][k] \in Nat
  BY DEF Amounts
<1>3. delta \in Amounts /\ \A k \in 1 .. Kinds : delta[k] <= amount[u][k]
  <2>1. CASE delta = amount[u]
    BY <1>2, <2>1
  <2>2. CASE delta \in [1 .. Kinds -> 0 .. 1] /\ \A k \in 1 .. Kinds : delta[k] <= amount[u][k]
    BY <2>2 DEF Amounts
  <2> QED
    BY <2>1, <2>2
<1> QED
  BY <1>1, <1>3

\* The labels, the lock and the queue, whatever the coroutines ask for.
LEMMA ShapeKept == QuotaShape /\ [QuotaNext]_quotaVars => QuotaShape'
<1> SUFFICES ASSUME QuotaShape, [QuotaNext]_quotaVars PROVE QuotaShape'
  OBVIOUS
<1>a. QuotaTypes /\ (\A u \in Users : QuotaUser(u)) /\ QueueWaits
  BY DEF QuotaShape
<1>r. \A u \in Users : Request[u] \in Amounts
  BY QuotaAssumption
\* Steps of u that leave the queue alone.
<1>o. ASSUME NEW u \in Users, quotaPc[u] # "waiting", QuotaTypes', QuotaUser(u)',
             \A v \in Users \ {u} : quotaPc'[v] = quotaPc[v] /\ phase'[v] = phase[v]
                                    /\ taken'[v] = taken[v],
             quotaHandles' = quotaHandles,
             quotaLock' = quotaLock \/ quotaLock = "free" \/ quotaLock = u
      PROVE  QuotaShape'
  BY <1>a, <1>o, QuotaOthers DEF QuotaShape
<1>1. ASSUME NEW u \in Users, AcquireKind(u) PROVE QuotaShape'
  <2>0. /\ quotaPc[u] \in {"probe", "retry", "wake"} /\ phase[u] = "take"
        /\ quotaLock' = quotaLock /\ quotaHandles' = quotaHandles /\ giving' = giving
    BY <1>1 DEF AcquireKind
  <2>q. QuotaUser(u)
    BY <1>a
  <2>w. Wanted(u) \in Amounts
    BY <1>a, WantedBy
  <2>p. PICK missing : missing = Positive(Wanted(u)) \ taken[u]
    OBVIOUS
  <2>1. CASE /\ missing = {} /\ taken' = [taken EXCEPT ![u] = {}]
             /\ QuotaGoto(u, After(u, TRUE)) /\ Own(u, After(u, TRUE))
             /\ UNCHANGED <<quantities, phase>>
    <3>1. PICK l \in {"held", "retried", "pop"} :
             /\ l = After(u, TRUE) /\ quotaPc' = [quotaPc EXCEPT ![u] = l]
             /\ (quotaPc[u] = "retry" <=> l = "retried") /\ (quotaPc[u] = "wake" <=> l = "pop")
      BY <2>0, <2>1 DEF After, QuotaGoto
    <3>2. /\ quotaPc'[u] = l /\ taken'[u] = {} /\ phase' = phase
          /\ \A v \in Users \ {u} : quotaPc'[v] = quotaPc[v] /\ taken'[v] = taken[v]
      BY <1>a, <2>1, <3>1 DEF QuotaTypes
    <3>3. amount' \in [Users -> Amounts]
      BY <1>a, <1>r, <2>1, <3>1 DEF Own, QuotaTypes
    <3>4. QuotaTypes'
      BY <1>a, <2>0, <2>1, <3>1, <3>2, <3>3 DEF QuotaTypes, QuotaPCs
    <3>5. QuotaUser(u)'
      BY <2>0, <2>q, <3>1, <3>2 DEF QuotaUser
    <3> QED
      BY <2>0, <3>2, <3>4, <3>5, <1>o
  <2>2. ASSUME NEW k \in NextOf(missing), quantities[k] >= Wanted(u)[k],
               quantities' = [quantities EXCEPT ![k] = @ - Wanted(u)[k]],
               taken' = [taken EXCEPT ![u] = @ \cup {k}],
               UNCHANGED <<quotaPc, amount, phase>>
        PROVE  QuotaShape'
    <3>1. k \in 1 .. Kinds
      BY <2>p DEF NextOf, Positive
    <3>2. \A v \in Users \ {u} : taken'[v] = taken[v]
      BY <1>a, <2>2 DEF QuotaTypes
    <3>3. quantities' \in Amounts
      BY <1>a, <2>2, <2>w, <3>1 DEF QuotaTypes, Amounts
    <3>4. QuotaTypes'
      BY <1>a, <2>0, <2>2, <3>1, <3>3 DEF QuotaTypes
    <3>5. QuotaUser(u)'
      BY <2>0, <2>2, <2>q DEF QuotaUser
    <3> QED
      BY <2>0, <2>2, <3>2, <3>4, <3>5, <1>o
  <2>3. ASSUME phase' = [phase EXCEPT ![u] = "undo"],
               UNCHANGED <<quantities, taken, quotaPc, amount>>
        PROVE  QuotaShape'
    <3>1. \A v \in Users \ {u} : phase'[v] = phase[v]
      BY <1>a, <2>3 DEF QuotaTypes
    <3>2. QuotaTypes'
      BY <1>a, <2>0, <2>3 DEF QuotaTypes
    <3>3. QuotaUser(u)'
      BY <2>0, <2>3, <2>q DEF QuotaUser
    <3> QED
      BY <2>0, <2>3, <3>1, <3>2, <3>3, <1>o
  <2> QED
    BY <1>1, <2>p, <2>1, <2>2, <2>3 DEF AcquireKind
<1>2. ASSUME NEW u \in Users, AcquireUndo(u) PROVE QuotaShape'
  <2>0. /\ phase[u] = "undo"
        /\ quotaLock' = quotaLock /\ quotaHandles' = quotaHandles /\ giving' = giving
        /\ amount' = amount
    BY <1>2 DEF AcquireUndo
  <2>q. QuotaUser(u)
    BY <1>a
  <2>c. quotaPc[u] \in {"probe", "retry", "wake"}
    BY <2>0, <2>q DEF QuotaUser
  <2>w. Wanted(u) \in Amounts
    BY <1>a, WantedBy
  <2>1. CASE /\ taken[u] = {} /\ QuotaGoto(u, After(u, FALSE))
             /\ phase' = [phase EXCEPT ![u] = "take"]
             /\ UNCHANGED <<quantities, taken>>
    <3>1. PICK l \in {"queue", "push", "stop"} :
             /\ l = After(u, FALSE) /\ quotaPc' = [quotaPc EXCEPT ![u] = l]
             /\ (quotaPc[u] = "retry" <=> l = "push") /\ (quotaPc[u] = "wake" <=> l = "stop")
      BY <2>1, <2>c DEF After, QuotaGoto
    <3>2. /\ quotaPc'[u] = l /\ phase'[u] = "take"
          /\ \A v \in Users \ {u} : quotaPc'[v] = quotaPc[v] /\ phase'[v] = phase[v]
      BY <1>a, <2>1, <3>1 DEF QuotaTypes
    <3>3. QuotaTypes'
      BY <1>a, <2>0, <2>1, <3>1 DEF QuotaTypes, QuotaPCs
    <3>4. QuotaUser(u)'
      BY <2>0, <2>1, <2>c, <2>q, <3>1, <3>2 DEF QuotaUser
    <3> QED
      BY <2>0, <2>1, <2>c, <3>2, <3>3, <3>4, <1>o
  <2>2. ASSUME NEW k \in NextOf(taken[u]),
               quantities' = [quantities EXCEPT ![k] = @ + Wanted(u)[k]],
               taken' = [taken EXCEPT ![u] = @ \ {k}],
               UNCHANGED <<quotaPc, phase>>
        PROVE  QuotaShape'
    <3>1. k \in 1 .. Kinds
      BY <1>a DEF NextOf, QuotaTypes
    <3>2. \A v \in Users \ {u} : taken'[v] = taken[v]
      BY <1>a, <2>2 DEF QuotaTypes
    <3>3. quantities' \in Amounts
      BY <1>a, <2>2, <2>w, <3>1 DEF QuotaTypes, Amounts
    <3>4. QuotaTypes'
      BY <1>a, <2>0, <2>2, <3>1, <3>3 DEF QuotaTypes
    <3>5. QuotaUser(u)'
      BY <2>0, <2>2, <2>c, <2>q DEF QuotaUser
    <3> QED
      BY <2>0, <2>2, <2>c, <3>2, <3>4, <3>5, <1>o
  <2> QED
    BY <1>2, <2>1, <2>2 DEF AcquireUndo
\* Steps that move the label of u, which has taken nothing, and the lock.
<1>m. ASSUME NEW u \in Users, quotaPc[u] \notin {"waiting", "probe", "retry", "wake", "give"} \/ taken[u] = {},
             quotaPc[u] # "waiting", phase[u] = "take",
             NEW l \in QuotaPCs, quotaPc' = [quotaPc EXCEPT ![u] = l],
             l \in {"retry", "retried", "push", "wake", "pop", "stop"} => quotaLock' = u,
             l \in {"wake", "pop"} => quotaHandles # <<>>,
             UNCHANGED <<quantities, quotaHandles, phase, taken, giving>>,
             amount' \in [Users -> Amounts],
             quotaLock' = quotaLock \/ quotaLock = "free" \/ quotaLock = u
      PROVE  QuotaShape'
  <2>1. quotaPc'[u] = l /\ \A v \in Users \ {u} : quotaPc'[v] = quotaPc[v]
    BY <1>a, <1>m DEF QuotaTypes
  <2>2. QuotaTypes'
    BY <1>a, <1>m DEF QuotaTypes
  <2>q. QuotaUser(u)
    BY <1>a
  <2>3. taken[u] = {}
    BY <1>m, <2>q DEF QuotaUser
  <2>4. QuotaUser(u)'
    BY <1>m, <2>1, <2>3 DEF QuotaUser
  <2> QED
    BY <1>m, <2>1, <2>2, <2>4, <1>o
<1>p. \A u \in Users : phase[u] = "take" \/ quotaPc[u] \in {"probe", "retry", "wake"}
  BY <1>a DEF QuotaTypes, QuotaUser
<1>l. ASSUME NEW u \in Users, quotaPc[u] \in {"retried", "push", "pop", "stop"} PROVE quotaLock = u
  BY <1>a, <1>l DEF QuotaUser
<1>t. amount \in [Users -> Amounts]
  BY <1>a DEF QuotaTypes
<1>3. ASSUME NEW u \in Users, Guard(u) PROVE QuotaShape'
  BY <1>3, <1>p, <1>t, <1>m DEF Guard, QuotaGoto, QuotaPCs
<1>4. ASSUME NEW u \in Users, AcquireQueued(u) PROVE QuotaShape'
  BY <1>4, <1>p, <1>t, <1>m DEF AcquireQueued, QuotaGoto, QuotaPCs
<1>5. ASSUME NEW u \in Users, RetryDispatch(u) PROVE QuotaShape'
  BY <1>5, <1>l, <1>p, <1>t, <1>m DEF RetryDispatch, QuotaGoto, QuotaPCs
<1>6. ASSUME NEW u \in Users, PushWaiter(u) PROVE QuotaShape'
  <2>1. /\ quotaPc[u] = "push" /\ quotaHandles' = Append(quotaHandles, u) /\ quotaLock' = "free"
        /\ quotaPc' = [quotaPc EXCEPT ![u] = "waiting"]
        /\ UNCHANGED <<quantities, phase, taken, amount, giving>>
    BY <1>6 DEF PushWaiter, QuotaGoto
  <2>2. quotaPc'[u] = "waiting" /\ \A v \in Users \ {u} : quotaPc'[v] = quotaPc[v]
    BY <1>a, <2>1 DEF QuotaTypes
  <2>3. /\ quotaHandles \in Seq(Users) /\ quotaHandles' \in Seq(Users)
        /\ Len(quotaHandles) \in Nat /\ Len(quotaHandles') = Len(quotaHandles) + 1
        /\ quotaHandles'[Len(quotaHandles) + 1] = u
        /\ \A i \in 1 .. Len(quotaHandles) :
             quotaHandles'[i] = quotaHandles[i] /\ quotaHandles[i] \in Users
    BY <1>a, <2>1 DEF QuotaTypes
  <2>4. QuotaTypes'
    BY <1>a, <2>1, <2>3 DEF QuotaTypes, QuotaPCs
  <2>q. QuotaUser(u)
    BY <1>a
  <2>5. quotaLock = u /\ taken[u] = {}
    BY <2>1, <2>q DEF QuotaUser
  <2>6. ASSUME NEW v \in Users PROVE QuotaUser(v)'
    <3>1. CASE v = u
      BY <2>1, <2>2, <2>5, <2>q, <3>1 DEF QuotaUser
    <3>2. CASE v # u
      <4>1. QuotaUser(v) /\ quotaPc'[v] = quotaPc[v] /\ quotaLock # v
        BY <1>a, <2>2, <2>5, <3>2
      <4> QED
        BY <2>1, <4>1 DEF QuotaUser
    <3> QED
      BY <3>1, <3>2
  <2>7. QueueWaits'
    <3> SUFFICES ASSUME NEW i \in 1 .. Len(quotaHandles')
                 PROVE  /\ quotaPc'[quotaHandles'[i]] = "waiting"
                        /\ \A j \in 1 .. Len(quotaHandles') :
                             quotaHandles'[i] = quotaHandles'[j] => i = j
      BY DEF QueueWaits
    <3>1. \A j \in 1 .. Len(quotaHandles') :
            j \in 1 .. Len(quotaHandles) \/ j = Len(quotaHandles) + 1
      BY <2>3
    <3>2. \A j \in 1 .. Len(quotaHandles) : quotaHandles[j] # u
      BY <1>a, <2>1 DEF QueueWaits
    <3>3. CASE i = Len(quotaHandles) + 1
      BY <2>2, <2>3, <3>1, <3>2, <3>3
    <3>4. CASE i \in 1 .. Len(quotaHandles)
      <4>1. quotaPc[quotaHandles[i]] = "waiting"
            /\ \A j \in 1 .. Len(quotaHandles) : quotaHandles[i] = quotaHandles[j] => i = j
        BY <1>a, <3>4 DEF QueueWaits
      <4> QED
        BY <2>2, <2>3, <3>1, <3>2, <3>4, <4>1
    <3> QED
      BY <3>1, <3>3, <3>4
  <2> QED
    BY <2>4, <2>6, <2>7 DEF QuotaShape
<1>7. ASSUME NEW u \in Users, QuotaResume(u) PROVE QuotaShape'
  <2>1. amount' \in [Users -> Amounts]
    BY <1>7, <1>r, <1>t DEF QuotaResume
  <2> QED
    BY <1>7, <1>p, <2>1, <1>m DEF QuotaResume, QuotaGoto, QuotaPCs
<1>8. ASSUME NEW u \in Users, ReleaseResource(u) PROVE QuotaShape'
  <2>1. /\ quotaPc[u] = "held" /\ quotaPc' = [quotaPc EXCEPT ![u] = "give"]
        /\ UNCHANGED <<quantities, quotaLock, quotaHandles, phase>>
    BY <1>8 DEF ReleaseResource, QuotaGoto
  <2>2. PICK delta :
           /\ delta \in Amounts /\ \A k \in 1 .. Kinds : delta[k] <= amount[u][k]
           /\ amount' = [amount EXCEPT ![u] = Minus(@, delta)]
           /\ giving' = [giving EXCEPT ![u] = delta]
           /\ taken' = [taken EXCEPT ![u] = Positive(delta)]
    BY <1>8, <1>t, DeltaTyped
  <2>3. amount[u] \in Amounts /\ \A k \in 1 .. Kinds : amount[u][k] \in Nat
    BY <1>t DEF Amounts
  <2>4. Minus(amount[u], delta) \in Amounts
    BY <2>2, <2>3 DEF Minus, Amounts
  <2>5. QuotaTypes'
    BY <1>a, <2>1, <2>2, <2>4 DEF QuotaTypes, QuotaPCs, Positive
  <2>6. quotaPc'[u] = "give"
        /\ \A v \in Users \ {u} : quotaPc'[v] = quotaPc[v] /\ taken'[v] = taken[v]
    BY <1>a, <2>1, <2>2 DEF QuotaTypes
  <2>q. QuotaUser(u)
    BY <1>a
  <2>7. QuotaUser(u)'
    BY <2>1, <2>6, <2>q DEF QuotaUser
  <2> QED
    BY <2>1, <2>5, <2>6, <2>7, <1>o
<1>9. ASSUME NEW u \in Users, ReleaseKind(u) PROVE QuotaShape'
  <2>1. /\ quotaPc[u] = "give"
        /\ UNCHANGED <<quotaLock, quotaHandles, quotaPc, phase, amount, giving>>
    BY <1>9 DEF ReleaseKind
  <2>2. PICK k \in NextOf(taken[u]) :
           /\ quantities' = [quantities EXCEPT ![k] = @ + giving[u][k]]
           /\ taken' = [taken EXCEPT ![u] = @ \ {k}]
    BY <1>9 DEF ReleaseKind
  <2>3. k \in 1 .. Kinds /\ giving[u][k] \in Nat
    BY <1>a DEF NextOf, QuotaTypes, Amounts
  <2>4. quantities' \in Amounts
    <3>1. quantities \in [1 .. Kinds -> Nat]
      BY <1>a DEF QuotaTypes, Amounts
    <3>2. quantities[k] + giving[u][k] \in Nat
      BY <2>3, <3>1
    <3> QED
      BY <2>2, <3>1, <3>2 DEF Amounts
  <2>5. QuotaTypes'
    BY <1>a, <2>1, <2>2, <2>4 DEF QuotaTypes
  <2>6. \A v \in Users \ {u} : quotaPc'[v] = quotaPc[v] /\ taken'[v] = taken[v]
    BY <1>a, <2>1, <2>2 DEF QuotaTypes
  <2>q. QuotaUser(u)
    BY <1>a
  <2>7. QuotaUser(u)'
    BY <2>1, <2>q DEF QuotaUser
  <2> QED
    BY <2>1, <2>5, <2>6, <2>7, <1>o
<1>10. ASSUME NEW u \in Users, ReleaseLook(u) PROVE QuotaShape'
  <2>1. PICK l \in {"idle", "held", "wake"} :
           /\ quotaPc' = [quotaPc EXCEPT ![u] = l]
           /\ l = "wake" => quotaHandles # <<>> /\ quotaLock' = u
           /\ l # "wake" => quotaLock' = quotaLock
    BY <1>10 DEF ReleaseLook, QuotaGoto, Released
  <2> QED
    BY <1>10, <1>p, <1>t, <2>1, <1>m DEF ReleaseLook, QuotaPCs
<1>11. ASSUME NEW u \in Users, WakeTop(u) PROVE QuotaShape'
  <2>1. /\ quotaPc[u] = "pop" /\ quotaHandles' = Tail(quotaHandles) /\ quotaLock' = "free"
        /\ UNCHANGED <<quantities, phase, taken, amount, giving>>
    BY <1>11 DEF WakeTop
  <2>q. QuotaUser(u)
    BY <1>a
  <2>2. quotaLock = u /\ taken[u] = {} /\ quotaHandles # <<>>
    BY <2>1, <2>q DEF QuotaUser
  <2>3. /\ quotaHandles \in Seq(Users) /\ Tail(quotaHandles) \in Seq(Users)
        /\ Len(quotaHandles) \in Nat /\ Len(Tail(quotaHandles)) = Len(quotaHandles) - 1
        /\ 1 \in 1 .. Len(quotaHandles) /\ Head(quotaHandles) = quotaHandles[1]
        /\ Head(quotaHandles) \in Users
        /\ \A i \in 1 .. Len(Tail(quotaHandles)) :
             /\ i + 1 \in 1 .. Len(quotaHandles) /\ Tail(quotaHandles)[i] = quotaHandles[i + 1]
             /\ quotaHandles[i + 1] \in Users
    <3>1. quotaHandles \in Seq(Users)
      BY <1>a DEF QuotaTypes
    <3>2. /\ Tail(quotaHandles) \in Seq(Users)
          /\ Len(quotaHandles) \in Nat /\ Len(Tail(quotaHandles)) = Len(quotaHandles) - 1
          /\ 1 \in 1 .. Len(quotaHandles) /\ Head(quotaHandles) = quotaHandles[1]
          /\ Head(quotaHandles) \in Users
      BY <2>2, <3>1
    <3>3. ASSUME NEW i \in 1 .. Len(Tail(quotaHandles))
          PROVE  /\ i + 1 \in 1 .. Len(quotaHandles) /\ Tail(quotaHandles)[i] = quotaHandles[i + 1]
                 /\ quotaHandles[i + 1] \in Users
      BY <2>2, <3>1, <3>2
    <3> QED
      BY <3>1, <3>2, <3>3
  <2>4. PICK h \in Users : h = Head(quotaHandles)
    BY <2>3
  <2>5. quotaPc[h] = "waiting" /\ h # u
    BY <1>a, <2>1, <2>3, <2>4 DEF QueueWaits
  <2>6. quotaPc' = [quotaPc EXCEPT ![u] = "give", ![h] = "ready"]
    BY <1>11, <2>4 DEF WakeTop
  <2>7. /\ quotaPc'[u] = "give" /\ quotaPc'[h] = "ready"
        /\ \A v \in Users \ {u, h} : quotaPc'[v] = quotaPc[v]
    BY <1>a, <2>5, <2>6 DEF QuotaTypes
  <2>8. QuotaTypes'
    BY <1>a, <2>1, <2>3, <2>6 DEF QuotaTypes, QuotaPCs
  <2>9. ASSUME NEW v \in Users PROVE QuotaUser(v)'
    <3>1. CASE v = u
      BY <2>1, <2>2, <2>7, <2>q, <3>1 DEF QuotaUser
    <3>2. CASE v = h
      <4>1. QuotaUser(h)
        BY <1>a
      <4> QED
        BY <2>1, <2>5, <2>7, <3>2, <4>1 DEF QuotaUser
    <3>3. CASE v # u /\ v # h
      <4>1. QuotaUser(v) /\ quotaPc'[v] = quotaPc[v] /\ quotaLock # v
        BY <1>a, <2>2, <2>7, <3>3
      <4> QED
        BY <2>1, <4>1 DEF QuotaUser
    <3> QED
      BY <3>1, <3>2, <3>3
  <2>10. QueueWaits'
    <3> SUFFICES ASSUME NEW i \in 1 .. Len(quotaHandles')
                 PROVE  /\ quotaPc'[quotaHandles'[i]] = "waiting"
                        /\ \A j \in 1 .. Len(quotaHandles') :
                             quotaHandles'[i] = quotaHandles'[j] => i = j
      BY DEF QueueWaits
    <3>1. /\ i \in Nat /\ i >= 1 /\ i + 1 \in 1 .. Len(quotaHandles)
          /\ quotaHandles'[i] = quotaHandles[i + 1] /\ quotaHandles[i + 1] \in Users
      BY <2>1, <2>3
    <3>2. quotaPc[quotaHandles[i + 1]] = "waiting"
          /\ \A j \in 1 .. Len(quotaHandles) : quotaHandles[i + 1] = quotaHandles[j] => i + 1 = j
      BY <1>a, <3>1 DEF QueueWaits
    <3>3. quotaHandles[i + 1] # h /\ quotaHandles[i + 1] # u
      BY <2>1, <2>3, <2>4, <3>1, <3>2
    <3>4. \A j \in 1 .. Len(quotaHandles') : quotaHandles'[i] = quotaHandles'[j] => i = j
      BY <2>1, <2>3, <3>1, <3>2
    <3> QED
      BY <2>7, <3>1, <3>2, <3>3, <3>4
  <2> QED
    BY <2>8, <2>9, <2>10 DEF QuotaShape
<1>12. ASSUME NEW u \in Users, WakeStop(u) PROVE QuotaShape'
  <2>1. PICK l \in {"idle", "held"} : quotaPc' = [quotaPc EXCEPT ![u] = l]
    BY <1>12 DEF WakeStop, QuotaGoto, Released
  <2> QED
    BY <1>12, <1>l, <1>p, <1>t, <2>1, <1>m DEF WakeStop, QuotaPCs
<1>13. ASSUME NEW u \in Users, NEW v \in Users, Merge(u, v) PROVE QuotaShape'
  <2>1. amount[u] \in Amounts /\ amount[v] \in Amounts
    BY <1>t
  <2>2. /\ \A k \in 1 .. Kinds : amount[u][k] \in Nat
        /\ \A k \in 1 .. Kinds : amount[v][k] \in Nat
    BY <2>1 DEF Amounts
  <2>3. \A k \in 1 .. Kinds : amount[u][k] + amount[v][k] \in Nat
    BY <2>2
  <2>4. Plus(amount[u], amount[v]) \in Amounts /\ Zero \in Amounts
    BY <2>3 DEF Plus, Zero, Amounts
  <2>5. amount' \in [Users -> Amounts]
    BY <1>13, <1>t, <2>4 DEF Merge
  <2> QED
    BY <1>13, <1>p, <2>5, <1>m DEF Merge, QuotaGoto, QuotaPCs
<1>14. CASE UNCHANGED quotaVars
  BY <1>a, <1>14 DEF quotaVars, QuotaShape, QuotaTypes, QueueWaits, QuotaUser
<1> QED
  BY <1>1, <1>2, <1>3, <1>4, <1>5, <1>6, <1>7, <1>8, <1>9, <1>10, <1>11, <1>12, <1>13, <1>14
     DEF QuotaNext, QuotaStep

LEMMA QuotaKeeps == SameRequests /\ QuotaInv /\ [QuotaNext]_quotaVars => QuotaInv'
<1> SUFFICES ASSUME SameRequests, QuotaInv, [QuotaNext]_quotaVars PROVE WaitersKnown'
  BY ShapeKept DEF QuotaInv
<1>a. QuotaTypes /\ (\A u \in Users : QuotaUser(u)) /\ QueueWaits /\ WaitersKnown
  BY DEF QuotaInv, QuotaShape
<1>b. QuotaTypes'
  BY ShapeKept DEF QuotaInv, QuotaShape
\* Steps that move the label of u and change nothing the waiters count on.
<1>m. ASSUME NEW u \in Users,
             \A v \in Users \ {u} : quotaPc'[v] = quotaPc[v] /\ phase'[v] = phase[v],
             taken' = taken, quantities' = quantities, quotaHandles' = quotaHandles,
             Releasing(u) => Releasing(u)', Pushing(u)' => Pushing(u),
             u \in Trying => u \in Trying',
             taken[u] # {} => (quotaPc[u] \in {"probe", "retry", "wake"}
                               <=> quotaPc'[u] \in {"probe", "retry", "wake"})
      PROVE  WaitersKnown'
  <2>1. \A v \in Users : (Releasing(v) => Releasing(v)') /\ (Pushing(v)' => Pushing(v))
    BY <1>m DEF Releasing, Pushing
  <2>2. Trying \subseteq Trying'
    BY <1>m DEF Trying
  <2>3. \A k \in 1 .. Kinds : InHand(k)' = InHand(k)
    BY <1>m DEF InHand
  <2> QED
    BY <1>a, <1>m, <2>1, <2>2, <2>3, KnownStays
<1>1. ASSUME NEW u \in Users, AcquireKind(u) PROVE WaitersKnown'
  <2>0. /\ quotaPc[u] \in {"probe", "retry", "wake"} /\ phase[u] = "take"
        /\ quotaLock' = quotaLock /\ quotaHandles' = quotaHandles /\ giving' = giving
    BY <1>1 DEF AcquireKind
  <2>q. QuotaUser(u)
    BY <1>a
  <2>w. Wanted(u) \in Amounts /\ \A v \in Users : Wanted(u) = Request[v]
    BY <1>a, WantedSame
  <2>p. PICK missing : missing = Positive(Wanted(u)) \ taken[u]
    OBVIOUS
  <2>1. CASE /\ missing = {} /\ taken' = [taken EXCEPT ![u] = {}]
             /\ QuotaGoto(u, After(u, TRUE)) /\ Own(u, After(u, TRUE))
             /\ UNCHANGED <<quantities, phase>>
    <3>1. PICK l \in {"held", "retried", "pop"} :
             /\ l = After(u, TRUE) /\ quotaPc' = [quotaPc EXCEPT ![u] = l]
             /\ (quotaPc[u] = "probe" <=> l = "held") /\ (quotaPc[u] = "retry" <=> l = "retried")
             /\ (quotaPc[u] = "wake" <=> l = "pop")
      BY <2>0, <2>1 DEF After, QuotaGoto
    <3>2. /\ quotaPc'[u] = l /\ taken'[u] = {} /\ quantities' = quantities /\ phase' = phase
          /\ \A v \in Users \ {u} : quotaPc'[v] = quotaPc[v] /\ taken'[v] = taken[v]
      BY <1>a, <2>1, <3>1 DEF QuotaTypes
    <3>3. CASE quotaPc[u] = "wake"
      BY <3>1, <3>2, <3>3 DEF WaitersKnown, Releasing
    <3>4. CASE quotaPc[u] # "wake"
      <4>1. u \in Trying /\ Trying' = Trying \ {u}
        BY <2>0, <3>1, <3>2, <3>4 DEF Trying
      <4>2. \A v \in Users : (Releasing(v) => Releasing(v)') /\ (Pushing(v)' => Pushing(v))
        BY <2>0, <3>1, <3>2, <3>4 DEF Releasing, Pushing
      <4>3. \A k \in 1 .. Kinds : InHand(k)' = InHand(k) \ {u}
        BY <3>2 DEF InHand
      <4>4. \A v \in Users, k \in 1 .. Kinds : Request[v][k] # 0 => u \in InHand(k)
        BY <2>0, <2>w, <2>p, <2>1 DEF InHand, Positive
      <4> QED
        BY <1>a, <2>0, <3>2, <4>1, <4>2, <4>3, <4>4, KnownServed
    <3> QED
      BY <3>3, <3>4
  <2>2. ASSUME NEW k \in NextOf(missing), quantities[k] >= Wanted(u)[k],
               quantities' = [quantities EXCEPT ![k] = @ - Wanted(u)[k]],
               taken' = [taken EXCEPT ![u] = @ \cup {k}],
               UNCHANGED <<quotaPc, amount, phase>>
        PROVE  WaitersKnown'
    <3>1. k \in 1 .. Kinds /\ k \notin taken[u]
      BY <2>p DEF NextOf, Positive
    <3>2. /\ quantities'[k] = quantities[k] - Wanted(u)[k]
          /\ \A j \in 1 .. Kinds \ {k} : quantities'[j] = quantities[j]
          /\ taken'[u] = taken[u] \cup {k} /\ \A v \in Users \ {u} : taken'[v] = taken[v]
      BY <1>a, <2>2, <3>1 DEF QuotaTypes, Amounts
    <3>3. InHand(k)' = InHand(k) \cup {u} /\ u \notin InHand(k)
      BY <2>0, <2>2, <3>1, <3>2 DEF InHand
    <3>4. Cardinality(InHand(k)') = Cardinality(InHand(k)) + 1
      BY <3>3, InHandFinite, FS_AddElement
    <3>5. \A j \in 1 .. Kinds \ {k} : InHand(j)' = InHand(j)
      BY <2>2, <3>2 DEF InHand
    <3>6. Trying' = Trying
          /\ \A v \in Users : (Releasing(v)' <=> Releasing(v)) /\ (Pushing(v)' <=> Pushing(v))
      BY <2>2 DEF Trying, Releasing, Pushing
    <3>7. \A v \in Users : quantities'[k] = quantities[k] - Request[v][k]
      BY <2>w, <3>2
    <3> QED
      BY <1>a, <1>b, <2>0, <3>1, <3>2, <3>4, <3>5, <3>6, <3>7, KnownMoves
  <2>3. ASSUME NEW k \in NextOf(missing), quantities[k] < Wanted(u)[k],
               phase' = [phase EXCEPT ![u] = "undo"],
               UNCHANGED <<quantities, taken, quotaPc, amount>>
        PROVE  WaitersKnown'
    <3>1. k \in 1 .. Kinds /\ k \notin taken[u]
      BY <2>p DEF NextOf, Positive
    <3>2. phase'[u] = "undo" /\ \A v \in Users \ {u} : phase'[v] = phase[v]
      BY <1>a, <2>3 DEF QuotaTypes
    <3>3. CASE quotaPc[u] = "probe"
      <4>1. (Releasing(u) => Releasing(u)') /\ (Pushing(u)' => Pushing(u))
            /\ (u \in Trying => u \in Trying')
        BY <2>3, <3>3 DEF Releasing, Pushing, Trying
      <4> QED
        BY <2>0, <2>3, <3>2, <3>3, <4>1, <1>m
    <3>4. CASE quotaPc[u] # "probe"
      <4>1. quotaLock = u
        BY <2>0, <2>q, <3>4 DEF QuotaUser
      <4>2. ASSUME NEW v \in InHand(k)' PROVE v \in Trying'
        <5>1. v \in Users /\ quotaPc[v] \in {"probe", "retry", "wake"} /\ k \in taken[v] /\ v # u
          BY <2>3, <3>1 DEF InHand
        <5>2. quotaPc[v] = "probe"
          BY <1>a, <4>1, <5>1 DEF QuotaUser
        <5> QED
          BY <2>3, <5>1, <5>2 DEF Trying
      <4>3. quantities'[k] = quantities[k] /\ quantities[k] < Request[u][k]
        BY <2>3, <2>w
      <4> QED
        BY <1>a, <3>1, <4>2, <4>3, KnownShort
    <3> QED
      BY <3>3, <3>4
  <2> QED
    BY <1>1, <2>p, <2>1, <2>2, <2>3 DEF AcquireKind
<1>2. ASSUME NEW u \in Users, AcquireUndo(u) PROVE WaitersKnown'
  <2>0. phase[u] = "undo" /\ quotaHandles' = quotaHandles
    BY <1>2 DEF AcquireUndo
  <2>q. QuotaUser(u)
    BY <1>a
  <2>c. quotaPc[u] \in {"probe", "retry", "wake"}
    BY <2>0, <2>q DEF QuotaUser
  <2>w. Wanted(u) \in Amounts /\ \A v \in Users : Wanted(u) = Request[v]
    BY <1>a, WantedSame
  <2>1. CASE /\ taken[u] = {} /\ QuotaGoto(u, After(u, FALSE))
             /\ phase' = [phase EXCEPT ![u] = "take"]
             /\ UNCHANGED <<quantities, taken>>
    <3>1. PICK l \in {"queue", "push", "stop"} :
             /\ l = After(u, FALSE) /\ quotaPc' = [quotaPc EXCEPT ![u] = l]
             /\ (quotaPc[u] = "probe" <=> l = "queue") /\ (quotaPc[u] = "retry" <=> l = "push")
             /\ (quotaPc[u] = "wake" <=> l = "stop")
      BY <2>1, <2>c DEF After, QuotaGoto
    <3>2. /\ quotaPc'[u] = l /\ phase'[u] = "take"
          /\ \A v \in Users \ {u} : quotaPc'[v] = quotaPc[v] /\ phase'[v] = phase[v]
      BY <1>a, <2>1, <3>1 DEF QuotaTypes
    <3>3. (Releasing(u) => Releasing(u)') /\ (Pushing(u)' => Pushing(u))
          /\ (u \in Trying => u \in Trying')
      BY <2>0, <2>c, <3>1, <3>2 DEF Releasing, Pushing, Trying
    <3> QED
      BY <2>0, <2>1, <3>2, <3>3, <1>m
  <2>2. ASSUME NEW k \in NextOf(taken[u]),
               quantities' = [quantities EXCEPT ![k] = @ + Wanted(u)[k]],
               taken' = [taken EXCEPT ![u] = @ \ {k}],
               UNCHANGED <<quotaPc, phase>>
        PROVE  WaitersKnown'
    <3>1. k \in 1 .. Kinds /\ k \in taken[u]
      BY <1>a DEF NextOf, QuotaTypes
    <3>2. /\ quantities'[k] = quantities[k] + Wanted(u)[k]
          /\ \A j \in 1 .. Kinds \ {k} : quantities'[j] = quantities[j]
          /\ taken'[u] = taken[u] \ {k} /\ \A v \in Users \ {u} : taken'[v] = taken[v]
      BY <1>a, <2>2, <3>1 DEF QuotaTypes, Amounts
    <3>3. InHand(k)' = InHand(k) \ {u} /\ u \in InHand(k)
      BY <2>2, <2>c, <3>1, <3>2 DEF InHand
    <3>4. Cardinality(InHand(k)) = Cardinality(InHand(k)') + 1
      <4>1. Cardinality(InHand(k)') = Cardinality(InHand(k)) - 1 /\ Cardinality(InHand(k)) \in Nat
        BY <3>3, InHandFinite, FS_RemoveElement
      <4> QED
        BY <4>1
    <3>5. \A j \in 1 .. Kinds \ {k} : InHand(j)' = InHand(j)
      BY <2>2, <3>2 DEF InHand
    <3>6. Trying' = Trying
          /\ \A v \in Users : (Releasing(v)' <=> Releasing(v)) /\ (Pushing(v)' <=> Pushing(v))
      BY <2>2 DEF Trying, Releasing, Pushing
    <3>7. \A v \in Users : quantities'[k] = quantities[k] + Request[v][k]
      BY <2>w, <3>2
    <3> QED
      BY <1>a, <1>b, <2>0, <3>1, <3>2, <3>4, <3>5, <3>6, <3>7, KnownMoves
  <2> QED
    BY <1>2, <2>1, <2>2 DEF AcquireUndo
\* A label moves from one to another the waiters do not count on.
<1>n. ASSUME NEW u \in Users, NEW l \in QuotaPCs, quotaPc' = [quotaPc EXCEPT ![u] = l],
             taken[u] = {}, phase[u] = "take",
             quotaPc[u] \notin {"give", "pop", "wake", "probe", "retry"},
             l \notin {"push", "waiting"},
             quotaPc[u] = "queue" => l = "retry",
             UNCHANGED <<quantities, quotaHandles, phase, taken>>
      PROVE  WaitersKnown'
  <2>1. quotaPc'[u] = l /\ \A v \in Users \ {u} : quotaPc'[v] = quotaPc[v]
    BY <1>a, <1>n DEF QuotaTypes
  <2>2. (Releasing(u) => Releasing(u)') /\ (Pushing(u)' => Pushing(u))
        /\ (u \in Trying => u \in Trying')
    BY <1>n, <2>1 DEF Releasing, Pushing, Trying
  <2> QED
    BY <1>n, <2>1, <2>2, <1>m
<1>t. ASSUME NEW u \in Users, quotaPc[u] \notin {"probe", "retry", "wake", "give"}
      PROVE  taken[u] = {} /\ phase[u] = "take"
  BY <1>a, <1>t DEF QuotaTypes, QuotaUser
<1>3. ASSUME NEW u \in Users, Guard(u) PROVE WaitersKnown'
  BY <1>3, <1>t, <1>n DEF Guard, QuotaGoto, QuotaPCs
<1>4. ASSUME NEW u \in Users, AcquireQueued(u) PROVE WaitersKnown'
  BY <1>4, <1>t, <1>n DEF AcquireQueued, QuotaGoto, QuotaPCs
<1>5. ASSUME NEW u \in Users, RetryDispatch(u) PROVE WaitersKnown'
  BY <1>5, <1>t, <1>n DEF RetryDispatch, QuotaGoto, QuotaPCs
<1>6. ASSUME NEW u \in Users, PushWaiter(u) PROVE WaitersKnown'
  <2>1. /\ quotaPc[u] = "push" /\ quotaPc' = [quotaPc EXCEPT ![u] = "waiting"]
        /\ UNCHANGED <<quantities, phase, taken>>
    BY <1>6 DEF PushWaiter, QuotaGoto
  <2>2. quotaPc'[u] = "waiting" /\ \A v \in Users \ {u} : quotaPc'[v] = quotaPc[v]
    BY <1>a, <2>1 DEF QuotaTypes
  <2>3. Pushing(u)
    BY <2>1 DEF Pushing
  <2>4. CASE \E v \in Users : Releasing(v)
    <3>1. PICK v \in Users : Releasing(v)
      BY <2>4
    <3>2. Releasing(v)'
      BY <2>1, <2>2, <3>1 DEF Releasing
    <3> QED
      BY <3>2 DEF WaitersKnown
  <2>5. CASE \E k \in 1 .. Kinds : ShortOf(k)
    <3>1. PICK k \in 1 .. Kinds : ShortOf(k)
      BY <2>5
    <3>2. Trying' = Trying /\ InHand(k)' = InHand(k)
      BY <2>1, <2>2 DEF Trying, InHand
    <3>3. ShortOf(k)'
      BY <2>1, <3>1, <3>2 DEF ShortOf
    <3> QED
      BY <3>3 DEF WaitersKnown
  <2> QED
    BY <1>a, <2>3, <2>4, <2>5 DEF WaitersKnown
<1>7. ASSUME NEW u \in Users, QuotaResume(u) PROVE WaitersKnown'
  BY <1>7, <1>t, <1>n DEF QuotaResume, QuotaGoto, QuotaPCs
\* u is in release(): it will look for a waiter.
<1>8. ASSUME NEW u \in Users, ReleaseResource(u) PROVE WaitersKnown'
  BY <1>a, <1>8 DEF ReleaseResource, QuotaGoto, QuotaTypes, WaitersKnown, Releasing
<1>9. ASSUME NEW u \in Users, ReleaseKind(u) PROVE WaitersKnown'
  BY <1>9 DEF ReleaseKind, WaitersKnown, Releasing
<1>10. ASSUME NEW u \in Users, ReleaseLook(u) PROVE WaitersKnown'
  <2>1. /\ quotaPc[u] = "give" /\ taken[u] = {} /\ quotaLock = "free"
        /\ UNCHANGED <<quantities, quotaHandles, phase, taken, amount, giving>>
    BY <1>10 DEF ReleaseLook
  <2>q. QuotaUser(u) /\ phase[u] \in {"take", "undo"}
    BY <1>a DEF QuotaTypes
  <2>2. PICK l \in {"idle", "held", "wake"} :
           /\ quotaPc' = [quotaPc EXCEPT ![u] = l]
           /\ l # "wake" => quotaHandles = <<>>
    BY <1>10 DEF ReleaseLook, QuotaGoto, Released
  <2>3. quotaPc'[u] = l /\ \A v \in Users \ {u} : quotaPc'[v] = quotaPc[v]
    BY <1>a, <2>2 DEF QuotaTypes
  <2>4. phase[u] = "take"
    BY <2>1, <2>q DEF QuotaUser
  <2>5. CASE l = "wake"
    BY <2>1, <2>3, <2>4, <2>5 DEF WaitersKnown, Releasing
  <2>6. CASE l # "wake"
    <3>1. ASSUME NEW v \in Users PROVE ~Pushing(v)'
      <4>1. QuotaUser(v) /\ quotaLock # v
        BY <1>a, <2>1, QuotaAssumption
      <4>2. ~Pushing(v)
        BY <4>1 DEF QuotaUser, Pushing
      <4>3. CASE v = u
        BY <2>1, <2>2, <2>3, <2>6, <4>3 DEF Pushing
      <4>4. CASE v # u
        BY <2>1, <2>3, <4>2, <4>4 DEF Pushing
      <4> QED
        BY <4>3, <4>4
    <3> QED
      BY <2>1, <2>2, <2>6, <3>1 DEF WaitersKnown
  <2> QED
    BY <2>5, <2>6
<1>11. ASSUME NEW u \in Users, WakeTop(u) PROVE WaitersKnown'
  <2>1. quotaPc[u] = "pop" /\ quotaPc' = [quotaPc EXCEPT ![u] = "give", ![Head(quotaHandles)] = "ready"]
    BY <1>11 DEF WakeTop
  <2>2. Head(quotaHandles) # u
    BY <1>a, <2>1, TopWaits
  <2>3. quotaPc'[u] = "give"
    BY <1>a, <2>1, <2>2 DEF QuotaTypes
  <2> QED
    BY <2>3 DEF WaitersKnown, Releasing
<1>12. ASSUME NEW u \in Users, WakeStop(u) PROVE WaitersKnown'
  BY <1>12, <1>t, <1>n DEF WakeStop, QuotaGoto, Released, QuotaPCs
<1>13. ASSUME NEW u \in Users, NEW v \in Users, Merge(u, v) PROVE WaitersKnown'
  BY <1>13, <1>t, <1>n DEF Merge, QuotaGoto, QuotaPCs
<1>14. CASE UNCHANGED quotaVars
  <2>1. /\ quantities' = quantities /\ quotaHandles' = quotaHandles
        /\ quotaPc' = quotaPc /\ phase' = phase /\ taken' = taken
    BY <1>14 DEF quotaVars
  <2>2. /\ Trying' = Trying /\ \A k \in 1 .. Kinds : InHand(k)' = InHand(k)
        /\ \A v \in Users : (Releasing(v) => Releasing(v)') /\ (Pushing(v)' => Pushing(v))
    BY <2>1 DEF Trying, InHand, Releasing, Pushing
  <2> QED
    BY <1>a, <2>1, <2>2, KnownStays
<1> QED
  BY <1>1, <1>2, <1>3, <1>4, <1>5, <1>6, <1>7, <1>8, <1>9, <1>10, <1>11, <1>12, <1>13, <1>14
     DEF QuotaNext, QuotaStep

LEMMA QuotaRight == QuotaInv => NoWaiterMissed
<1> SUFFICES ASSUME QuotaInv, \A u \in Users : quotaPc[u] \in {"idle", "held", "waiting"},
                    quotaHandles # <<>>
             PROVE  \E k \in 1 .. Kinds : quantities[k] < Request[Head(quotaHandles)][k]
  BY DEF NoWaiterMissed
<1>1. \A u \in Users : ~Releasing(u)
  BY DEF Releasing
<1>2. PICK k \in 1 .. Kinds : ShortOf(k)
  BY <1>1 DEF QuotaInv, WaitersKnown
<1>3. PICK h \in Users : h = Head(quotaHandles)
  BY DEF QuotaInv, QuotaShape, QuotaTypes
<1>4. Trying = {} /\ InHand(k) = {}
  BY DEF Trying, InHand
<1>5. Cardinality(Trying) = 0 /\ Cardinality(InHand(k)) = 0
  BY <1>4, FS_EmptySet
<1>6. quantities[k] + Request[h][k] * 0 < Request[h][k] * (1 + 0)
  BY <1>2, <1>5 DEF ShortOf
<1>7. Request[h] \in Amounts /\ quantities \in Amounts
  BY QuotaAssumption DEF QuotaInv, QuotaShape, QuotaTypes
<1>8. Request[h][k] \in Nat /\ quantities[k] \in Nat
  BY <1>7 DEF Amounts
<1> QED
  BY <1>3, <1>6, <1>8

\* No quota is lost: the users' parts are counted unit by unit.
Spread(f) == UNION {{u} \X (1 .. f[u]) : u \in Users}
Unowned == {"idle", "probe", "queue", "retry", "retried", "push", "waiting", "ready"}
EmptyHanded == \A u \in Users : quotaPc[u] \in Unowned => amount[u] = Zero
Counted ==
    \A k \in 1 .. Kinds :
      IsFiniteSet(UnitsOut(k)) /\ quantities[k] + Cardinality(UnitsOut(k)) = Capacity[k]

LEMMA SpreadMember ==
  ASSUME NEW f, NEW p
  PROVE  p \in Spread(f) <=> \E u \in Users : \E i \in 1 .. f[u] : p = <<u, i>>
<1>1. \A u : p \in {u} \X (1 .. f[u]) <=> \E i \in 1 .. f[u] : p = <<u, i>>
  OBVIOUS
<1>2. p \in Spread(f) <=> \E u \in Users : p \in {u} \X (1 .. f[u])
  BY DEF Spread
<1> QED
  BY <1>1, <1>2

LEMMA SpreadMoves ==
  ASSUME NEW f \in [Users -> Nat], NEW g \in [Users -> Nat], NEW u \in Users,
         IsFiniteSet(Spread(f)), \A v \in Users \ {u} : g[v] = f[v]
  PROVE  /\ IsFiniteSet(Spread(g))
         /\ Cardinality(Spread(g)) + f[u] = Cardinality(Spread(f)) + g[u]
<1>1. ASSUME NEW n \in Nat
      PROVE  IsFiniteSet({u} \X (1 .. n)) /\ Cardinality({u} \X (1 .. n)) = n
  <2>1. IsFiniteSet({u}) /\ Cardinality({u}) = 1
    BY FS_Singleton
  <2>2. IsFiniteSet(1 .. n) /\ Cardinality(1 .. n) = IF 1 > n THEN 0 ELSE n - 1 + 1
    BY 1 \in Int, n \in Int, FS_Interval
  <2>3. IsFiniteSet({u} \X (1 .. n)) /\ Cardinality({u} \X (1 .. n)) = 1 * Cardinality(1 .. n)
    BY <2>1, <2>2, FS_Product
  <2> QED
    BY <2>2, <2>3
<1> DEFINE rest == {p \in Spread(f) : p[1] # u}
<1>2. IsFiniteSet(rest) /\ Cardinality(rest) \in Nat
  BY FS_Subset, FS_CardinalityType
<1>3. Spread(f) = rest \cup ({u} \X (1 .. f[u])) /\ rest \cap ({u} \X (1 .. f[u])) = {}
  BY SpreadMember
<1>4. Spread(g) = rest \cup ({u} \X (1 .. g[u])) /\ rest \cap ({u} \X (1 .. g[u])) = {}
  BY SpreadMember
<1>5. f[u] \in Nat /\ g[u] \in Nat
  OBVIOUS
<1> HIDE DEF rest
<1>6. ASSUME NEW n \in Nat, rest \cap ({u} \X (1 .. n)) = {}
      PROVE  /\ IsFiniteSet(rest \cup ({u} \X (1 .. n)))
             /\ Cardinality(rest \cup ({u} \X (1 .. n))) = Cardinality(rest) + n
  <2>1. IsFiniteSet({u} \X (1 .. n)) /\ Cardinality({u} \X (1 .. n)) = n
    BY <1>1
  <2>2. Cardinality(rest \cap ({u} \X (1 .. n))) = 0
    BY <1>6, FS_EmptySet
  <2>3. /\ IsFiniteSet(rest \cup ({u} \X (1 .. n)))
        /\ Cardinality(rest \cup ({u} \X (1 .. n))) = Cardinality(rest) + n - 0
    BY <1>2, <2>1, <2>2, FS_Union
  <2> QED
    BY <1>2, <2>3
<1>7. IsFiniteSet(Spread(g)) /\ Cardinality(Spread(g)) = Cardinality(rest) + g[u]
  BY <1>4, <1>5, <1>6
<1>8. Cardinality(Spread(f)) = Cardinality(rest) + f[u]
  BY <1>3, <1>5, <1>6
<1> QED
  BY <1>2, <1>5, <1>7, <1>8

LEMMA UnitsSpread ==
  ASSUME NEW k
  PROVE  /\ UnitsOut(k) = Spread([u \in Users |-> Out(u, k)])
         /\ UnitsOut(k)' = Spread([u \in Users |-> Out(u, k)'])
  BY DEF UnitsOut, Spread

LEMMA OutTyped == QuotaShape => \A u \in Users : \A k \in 1 .. Kinds : Out(u, k) \in Nat
<1> SUFFICES ASSUME QuotaShape, NEW u \in Users, NEW k \in 1 .. Kinds PROVE Out(u, k) \in Nat
  OBVIOUS
<1>1. QuotaTypes /\ QuotaUser(u) /\ QueueWaits
  BY DEF QuotaShape
<1>2. amount[u][k] \in Nat /\ giving[u][k] \in Nat
  BY <1>1 DEF QuotaTypes, Amounts
<1>3. Wanted(u)[k] \in Nat
  BY <1>1, WantedBy DEF Amounts
<1>4. \A v \in Users : Request[v][k] \in Nat
  BY QuotaAssumption DEF Amounts
<1>5. quotaPc[u] = "pop" => Request[Head(quotaHandles)][k] \in Nat
  BY <1>1, <1>4, TopWaits
<1> QED
  BY <1>2, <1>3, <1>4, <1>5 DEF Out

LEMMA OutTypedNext ==
  QuotaShape' => (\A u \in Users : \A k \in 1 .. Kinds : Out(u, k) \in Nat)'
  BY OutTyped, PTL

\* u's part changes, the others' stay.
LEMMA CountMoves ==
  ASSUME QuotaShape, QuotaShape', Counted, NEW u \in Users,
         \A v \in Users \ {u} : \A k \in 1 .. Kinds : Out(v, k)' = Out(v, k),
         \A k \in 1 .. Kinds : quantities'[k] + Out(u, k)' = quantities[k] + Out(u, k)
  PROVE  Counted'
<1> SUFFICES ASSUME NEW k \in 1 .. Kinds
             PROVE  /\ IsFiniteSet(UnitsOut(k)')
                    /\ quantities'[k] + Cardinality(UnitsOut(k)') = Capacity[k]
  BY DEF Counted
<1> DEFINE f == [v \in Users |-> Out(v, k)]
           g == [v \in Users |-> Out(v, k)']
<1>1. (\A v \in Users : Out(v, k) \in Nat) /\ (\A v \in Users : Out(v, k)' \in Nat)
  BY OutTyped, OutTypedNext
<1>2. f \in [Users -> Nat] /\ g \in [Users -> Nat] /\ f[u] = Out(u, k) /\ g[u] = Out(u, k)'
      /\ \A v \in Users \ {u} : g[v] = f[v]
  BY <1>1
<1>3. UnitsOut(k) = Spread(f) /\ UnitsOut(k)' = Spread(g)
  BY UnitsSpread
<1> HIDE DEF f, g
<1>4. IsFiniteSet(Spread(f)) /\ quantities[k] + Cardinality(Spread(f)) = Capacity[k]
  BY <1>3 DEF Counted
<1>5. /\ IsFiniteSet(Spread(g))
      /\ Cardinality(Spread(g)) + f[u] = Cardinality(Spread(f)) + g[u]
  BY <1>2, <1>4, SpreadMoves
<1>6. Cardinality(Spread(f)) \in Nat /\ Cardinality(Spread(g)) \in Nat
  BY <1>4, <1>5, FS_CardinalityType
<1>7. quantities[k] \in Nat /\ quantities'[k] \in Nat
  BY DEF QuotaShape, QuotaTypes, Amounts
<1>8. quantities'[k] + g[u] = quantities[k] + f[u] /\ f[u] \in Nat /\ g[u] \in Nat
  BY <1>2
<1> QED
  BY <1>3, <1>4, <1>5, <1>6, <1>7, <1>8

\* What one user hands to another stays out.
LEMMA CountShifts ==
  ASSUME QuotaShape, QuotaShape', Counted, NEW u \in Users, NEW w \in Users, u # w,
         \A v \in Users \ {u, w} : \A k \in 1 .. Kinds : Out(v, k)' = Out(v, k),
         \A k \in 1 .. Kinds : Out(u, k)' + Out(w, k)' = Out(u, k) + Out(w, k),
         quantities' = quantities
  PROVE  Counted'
<1> SUFFICES ASSUME NEW k \in 1 .. Kinds
             PROVE  /\ IsFiniteSet(UnitsOut(k)')
                    /\ quantities[k] + Cardinality(UnitsOut(k)') = Capacity[k]
  BY DEF Counted
<1> DEFINE f == [v \in Users |-> Out(v, k)]
           g == [v \in Users |-> Out(v, k)']
           h == [v \in Users |-> IF v = u THEN Out(u, k)' ELSE Out(v, k)]
<1>1. (\A v \in Users : Out(v, k) \in Nat) /\ (\A v \in Users : Out(v, k)' \in Nat)
  BY OutTyped, OutTypedNext
<1>2. /\ f \in [Users -> Nat] /\ g \in [Users -> Nat] /\ h \in [Users -> Nat]
      /\ \A v \in Users \ {u} : h[v] = f[v]
      /\ \A v \in Users \ {w} : g[v] = h[v]
      /\ g[u] + g[w] = f[u] + f[w] /\ h[u] = g[u] /\ h[w] = f[w]
  BY <1>1
<1>3. UnitsOut(k) = Spread(f) /\ UnitsOut(k)' = Spread(g)
  BY UnitsSpread
<1> HIDE DEF f, g, h
<1>4. IsFiniteSet(Spread(f)) /\ quantities[k] + Cardinality(Spread(f)) = Capacity[k]
  BY <1>3 DEF Counted
<1>5. /\ IsFiniteSet(Spread(h))
      /\ Cardinality(Spread(h)) + f[u] = Cardinality(Spread(f)) + h[u]
  BY <1>2, <1>4, SpreadMoves
<1>6. /\ IsFiniteSet(Spread(g))
      /\ Cardinality(Spread(g)) + h[w] = Cardinality(Spread(h)) + g[w]
  BY <1>2, <1>5, SpreadMoves
<1>7. /\ Cardinality(Spread(f)) \in Nat /\ Cardinality(Spread(g)) \in Nat
      /\ Cardinality(Spread(h)) \in Nat
  BY <1>4, <1>5, <1>6, FS_CardinalityType
<1>8. quantities[k] \in Nat
  BY DEF QuotaShape, QuotaTypes, Amounts
<1>9. f[u] \in Nat /\ f[w] \in Nat /\ g[u] \in Nat /\ g[w] \in Nat
  BY <1>2
<1>10. Cardinality(Spread(g)) = Cardinality(Spread(f))
  BY <1>2, <1>5, <1>6, <1>7, <1>9
<1> QED
  BY <1>3, <1>4, <1>6, <1>10

\* The part of a user who is left alone.
LEMMA OutSame ==
  ASSUME NEW v \in Users, NEW k, quotaPc'[v] = quotaPc[v], taken'[v] = taken[v],
         amount'[v] = amount[v], giving'[v] = giving[v],
         quotaPc[v] \in {"wake", "pop"} => quotaHandles' = quotaHandles
  PROVE  Out(v, k)' = Out(v, k)
<1>1. CASE quotaPc[v] \in {"wake", "pop"}
  BY <1>1 DEF Out, Wanted
<1>2. CASE quotaPc[v] \notin {"wake", "pop"}
  BY <1>2 DEF Out, Wanted
<1> QED
  BY <1>1, <1>2

LEMMA CountStarts == QuotaInit => EmptyHanded /\ Counted
<1> SUFFICES ASSUME QuotaInit PROVE EmptyHanded /\ Counted
  OBVIOUS
<1>1. EmptyHanded
  BY DEF QuotaInit, EmptyHanded
<1>2. ASSUME NEW k \in 1 .. Kinds PROVE UnitsOut(k) = {}
  <2>1. \A u \in Users : Out(u, k) = 0
    BY <1>2 DEF QuotaInit, Out, Zero
  <2>2. \A u \in Users : 1 .. Out(u, k) = {}
    BY <2>1
  <2> QED
    BY <2>2 DEF UnitsOut
<1>3. \A k \in 1 .. Kinds : quantities[k] = Capacity[k] /\ Capacity[k] \in Nat
  BY QuotaAssumption DEF QuotaInit, Amounts
<1>4. Counted
  BY <1>2, <1>3, FS_EmptySet DEF Counted
<1> QED
  BY <1>1, <1>4

LEMMA CountKept ==
  QuotaShape /\ EmptyHanded /\ Counted /\ [QuotaNext]_quotaVars => EmptyHanded' /\ Counted'
<1> SUFFICES ASSUME QuotaShape, EmptyHanded, Counted, [QuotaNext]_quotaVars
             PROVE  EmptyHanded' /\ Counted'
  OBVIOUS
<1>a. QuotaTypes /\ (\A u \in Users : QuotaUser(u)) /\ QueueWaits
  BY DEF QuotaShape
<1>b. QuotaShape'
  BY ShapeKept
<1>r. \A u \in Users : Request[u] \in Amounts
  BY QuotaAssumption
\* Nobody but u is concerned.
<1>m. ASSUME NEW u \in Users,
             \A v \in Users \ {u} : /\ quotaPc'[v] = quotaPc[v] /\ taken'[v] = taken[v]
                                    /\ amount'[v] = amount[v] /\ giving'[v] = giving[v],
             quotaHandles' = quotaHandles \/ quotaLock = u,
             quotaPc'[u] \in Unowned => amount'[u] = Zero,
             \A k \in 1 .. Kinds : quantities'[k] + Out(u, k)' = quantities[k] + Out(u, k)
      PROVE  EmptyHanded' /\ Counted'
  <2>1. EmptyHanded'
    BY <1>m DEF EmptyHanded
  <2>2. ASSUME NEW v \in Users \ {u}, NEW k \in 1 .. Kinds PROVE Out(v, k)' = Out(v, k)
    <3>1. QuotaUser(v)
      BY <1>a
    <3>2. quotaPc[v] \in {"wake", "pop"} => quotaHandles' = quotaHandles
      BY <1>m, <3>1 DEF QuotaUser
    <3> QED
      BY <1>m, <3>2, OutSame
  <2> QED
    BY <1>b, <1>m, <2>1, <2>2, CountMoves
\* A label moves and u's part stays.
<1>n. ASSUME NEW u \in Users, NEW l, quotaPc' = [quotaPc EXCEPT ![u] = l], taken[u] = {},
             l \in Unowned => amount[u] = Zero,
             {quotaPc[u], l} \cap {"retried", "ready", "pop"} = {}
               \/ {quotaPc[u], l} \subseteq {"retried", "ready"},
             quotaHandles' = quotaHandles \/ quotaLock = u,
             UNCHANGED <<quantities, taken, amount, giving>>
      PROVE  EmptyHanded' /\ Counted'
  <2>1. quotaPc'[u] = l /\ \A v \in Users \ {u} : quotaPc'[v] = quotaPc[v]
    BY <1>a, <1>n DEF QuotaTypes
  <2>2. \A k \in 1 .. Kinds : Out(u, k)' = Out(u, k)
    BY <1>n, <2>1 DEF Out
  <2> QED
    BY <1>n, <2>1, <2>2, <1>m
<1>t. ASSUME NEW u \in Users, quotaPc[u] \notin {"probe", "retry", "wake", "give"}
      PROVE  taken[u] = {}
  BY <1>a, <1>t DEF QuotaUser
<1>l. ASSUME NEW u \in Users, quotaPc[u] \in {"retried", "push", "pop", "stop"} PROVE quotaLock = u
  BY <1>a, <1>l DEF QuotaUser
\* u takes a kind for the acquire() in progress, or puts one back.
<1>u. ASSUME NEW u \in Users, quotaPc[u] \in {"probe", "retry", "wake"}, NEW k \in 1 .. Kinds,
             quantities' = [quantities EXCEPT ![k] = quantities'[k]],
             \/ /\ k \notin taken[u] /\ taken' = [taken EXCEPT ![u] = @ \cup {k}]
                /\ quantities'[k] = quantities[k] - Wanted(u)[k]
             \/ /\ k \in taken[u] /\ taken' = [taken EXCEPT ![u] = @ \ {k}]
                /\ quantities'[k] = quantities[k] + Wanted(u)[k],
             UNCHANGED <<quotaPc, quotaHandles, amount, giving>>
      PROVE  EmptyHanded' /\ Counted'
  <2>1. taken'[u] \in {taken[u] \cup {k}, taken[u] \ {k}} /\ (k \in taken'[u] <=> k \notin taken[u])
        /\ \A v \in Users \ {u} : taken'[v] = taken[v]
    BY <1>a, <1>u DEF QuotaTypes
  <2>2. Wanted(u)' = Wanted(u)
    BY <1>u DEF Wanted
  <2>3. Wanted(u) \in Amounts /\ amount[u] \in Amounts /\ quantities \in Amounts
    BY <1>a, WantedBy DEF QuotaTypes
  <2>4. /\ \A j \in 1 .. Kinds : Wanted(u)[j] \in Nat
        /\ \A j \in 1 .. Kinds : amount[u][j] \in Nat
        /\ \A j \in 1 .. Kinds : quantities[j] \in Nat
        /\ \A j \in 1 .. Kinds \ {k} : quantities'[j] = quantities[j]
    BY <1>u, <2>3 DEF Amounts
  <2>5. ASSUME NEW j \in 1 .. Kinds
        PROVE  /\ Out(u, j) = amount[u][j] + (IF j \in taken[u] THEN Wanted(u)[j] ELSE 0)
               /\ Out(u, j)' = amount[u][j] + (IF j \in taken'[u] THEN Wanted(u)[j] ELSE 0)
    BY <1>u, <2>2, <2>4 DEF Out
  <2>6. ASSUME NEW j \in 1 .. Kinds PROVE quantities'[j] + Out(u, j)' = quantities[j] + Out(u, j)
    <3>1. CASE j # k
      BY <2>1, <2>4, <2>5, <3>1
    <3>2. CASE j = k /\ k \notin taken[u]
      BY <1>u, <2>1, <2>4, <2>5, <3>2
    <3>3. CASE j = k /\ k \in taken[u]
      BY <1>u, <2>1, <2>4, <2>5, <3>3
    <3> QED
      BY <3>1, <3>2, <3>3
  <2>7. quotaPc'[u] \in Unowned => amount'[u] = Zero
    BY <1>u DEF EmptyHanded
  <2> QED
    BY <1>u, <2>1, <2>6, <2>7, <1>m
<1>1. ASSUME NEW u \in Users, AcquireKind(u) PROVE EmptyHanded' /\ Counted'
  <2>0. /\ quotaPc[u] \in {"probe", "retry", "wake"} /\ phase[u] = "take"
        /\ quotaHandles' = quotaHandles /\ giving' = giving
    BY <1>1 DEF AcquireKind
  <2>w. Wanted(u) \in Amounts /\ amount[u] \in Amounts /\ quantities \in Amounts
    BY <1>a, WantedBy DEF QuotaTypes
  <2>n. \A k \in 1 .. Kinds : Wanted(u)[k] \in Nat /\ amount[u][k] \in Nat /\ quantities[k] \in Nat
    BY <2>w DEF Amounts
  <2>o. \A k \in 1 .. Kinds :
          Out(u, k) = amount[u][k] + (IF k \in taken[u] THEN Wanted(u)[k] ELSE 0)
    BY <2>0, <2>n DEF Out
  <2>p. PICK missing : missing = Positive(Wanted(u)) \ taken[u]
    OBVIOUS
  <2>1. CASE /\ missing = {} /\ taken' = [taken EXCEPT ![u] = {}]
             /\ QuotaGoto(u, After(u, TRUE)) /\ Own(u, After(u, TRUE))
             /\ UNCHANGED <<quantities, phase>>
    <3>1. \A k \in 1 .. Kinds : Out(u, k) = amount[u][k] + Wanted(u)[k]
      BY <2>n, <2>o, <2>p, <2>1 DEF Positive
    <3>2. CASE quotaPc[u] = "probe"
      <4>1. quotaPc' = [quotaPc EXCEPT ![u] = "held"] /\ amount' = [amount EXCEPT ![u] = Request[u]]
        BY <2>1, <3>2 DEF After, QuotaGoto, Own
      <4>2. /\ quotaPc'[u] = "held" /\ amount'[u] = Request[u] /\ taken'[u] = {}
            /\ \A v \in Users \ {u} : /\ quotaPc'[v] = quotaPc[v] /\ taken'[v] = taken[v]
                                      /\ amount'[v] = amount[v]
        BY <1>a, <2>1, <4>1 DEF QuotaTypes
      <4>3. \A k \in 1 .. Kinds : amount[u][k] = 0
        BY <3>2 DEF EmptyHanded, Unowned, Zero
      <4>4. Wanted(u) = Request[u]
        BY <3>2 DEF Wanted
      <4>5. \A k \in 1 .. Kinds : Out(u, k)' = Out(u, k)
        BY <2>n, <3>1, <4>2, <4>3, <4>4 DEF Out
      <4> QED
        BY <2>0, <2>1, <4>2, <4>5, <1>m DEF Unowned
    <3>3. CASE quotaPc[u] = "retry"
      <4>1. quotaPc' = [quotaPc EXCEPT ![u] = "retried"] /\ amount' = amount
        BY <2>1, <3>3 DEF After, QuotaGoto, Own
      <4>2. /\ quotaPc'[u] = "retried" /\ taken'[u] = {}
            /\ \A v \in Users \ {u} : quotaPc'[v] = quotaPc[v] /\ taken'[v] = taken[v]
        BY <1>a, <2>1, <4>1 DEF QuotaTypes
      <4>3. Wanted(u) = Request[u] /\ amount[u] = Zero
        BY <3>3 DEF Wanted, EmptyHanded, Unowned
      <4>4. \A k \in 1 .. Kinds : Out(u, k)' = Out(u, k)
        BY <2>n, <3>1, <4>1, <4>2, <4>3 DEF Out
      <4> QED
        BY <2>0, <2>1, <4>1, <4>2, <4>3, <4>4, <1>m
    <3>4. CASE quotaPc[u] = "wake"
      <4>1. quotaPc' = [quotaPc EXCEPT ![u] = "pop"] /\ amount' = amount
        BY <2>1, <3>4 DEF After, QuotaGoto, Own
      <4>2. /\ quotaPc'[u] = "pop" /\ taken'[u] = {}
            /\ \A v \in Users \ {u} : quotaPc'[v] = quotaPc[v] /\ taken'[v] = taken[v]
        BY <1>a, <2>1, <4>1 DEF QuotaTypes
      <4>3. Wanted(u) = Request[Head(quotaHandles)]
        BY <3>4 DEF Wanted
      <4>4. \A k \in 1 .. Kinds : Out(u, k)' = Out(u, k)
        BY <2>0, <2>n, <3>1, <4>1, <4>2, <4>3 DEF Out
      <4> QED
        BY <2>0, <2>1, <4>1, <4>2, <4>4, <1>m DEF Unowned
    <3> QED
      BY <2>0, <3>2, <3>3, <3>4
  <2>2. ASSUME NEW k \in NextOf(missing), quantities[k] >= Wanted(u)[k],
               quantities' = [quantities EXCEPT ![k] = @ - Wanted(u)[k]],
               taken' = [taken EXCEPT ![u] = @ \cup {k}],
               UNCHANGED <<quotaPc, amount, phase>>
        PROVE  EmptyHanded' /\ Counted'
    <3>1. k \in 1 .. Kinds /\ k \notin taken[u]
      BY <2>p DEF NextOf, Positive
    <3>2. quantities'[k] = quantities[k] - Wanted(u)[k]
          /\ quantities' = [quantities EXCEPT ![k] = quantities'[k]]
      BY <2>2, <2>w, <3>1 DEF Amounts
    <3> QED
      BY <2>0, <2>2, <3>1, <3>2, <1>u
  <2>3. ASSUME UNCHANGED <<quantities, taken, quotaPc, amount>> PROVE EmptyHanded' /\ Counted'
    <3>1. \A k \in 1 .. Kinds : Out(u, k)' = Out(u, k)
      BY <2>0, <2>3, OutSame
    <3> QED
      BY <2>0, <2>3, <3>1, <1>m DEF EmptyHanded
  <2> QED
    BY <1>1, <2>p, <2>1, <2>2, <2>3 DEF AcquireKind
<1>2. ASSUME NEW u \in Users, AcquireUndo(u) PROVE EmptyHanded' /\ Counted'
  <2>0. phase[u] = "undo" /\ UNCHANGED <<quotaLock, quotaHandles, amount, giving>>
    BY <1>2 DEF AcquireUndo
  <2>c. quotaPc[u] \in {"probe", "retry", "wake"}
    BY <1>a, <2>0 DEF QuotaUser
  <2>1. CASE /\ taken[u] = {} /\ QuotaGoto(u, After(u, FALSE))
             /\ UNCHANGED <<quantities, taken>>
    <3>1. PICK l \in {"queue", "push", "stop"} :
             /\ quotaPc' = [quotaPc EXCEPT ![u] = l]
             /\ l # "stop" => quotaPc[u] \in {"probe", "retry"}
      BY <2>1, <2>c DEF After, QuotaGoto
    <3>2. l \in Unowned => amount[u] = Zero
      BY <3>1 DEF EmptyHanded, Unowned
    <3> QED
      BY <2>0, <2>1, <2>c, <3>1, <3>2, <1>n
  <2>2. ASSUME NEW k \in NextOf(taken[u]),
               quantities' = [quantities EXCEPT ![k] = @ + Wanted(u)[k]],
               taken' = [taken EXCEPT ![u] = @ \ {k}],
               UNCHANGED <<quotaPc, phase>>
        PROVE  EmptyHanded' /\ Counted'
    <3>1. k \in 1 .. Kinds /\ k \in taken[u] /\ quantities \in Amounts
      BY <1>a DEF NextOf, QuotaTypes
    <3>2. quantities'[k] = quantities[k] + Wanted(u)[k]
          /\ quantities' = [quantities EXCEPT ![k] = quantities'[k]]
      BY <2>2, <3>1 DEF Amounts
    <3> QED
      BY <2>0, <2>2, <2>c, <3>1, <3>2, <1>u
  <2> QED
    BY <1>2, <2>1, <2>2 DEF AcquireUndo
<1>e. ASSUME NEW u \in Users, quotaPc[u] \in Unowned PROVE amount[u] = Zero
  BY <1>e DEF EmptyHanded
<1>3. ASSUME NEW u \in Users, Guard(u) PROVE EmptyHanded' /\ Counted'
  <2>1. quotaPc[u] = "idle" /\ amount[u] = Zero /\ taken[u] = {}
    BY <1>3, <1>e, <1>t DEF Guard, Unowned
  <2> QED
    BY <1>3, <2>1, <1>n DEF Guard, QuotaGoto
<1>4. ASSUME NEW u \in Users, AcquireQueued(u) PROVE EmptyHanded' /\ Counted'
  <2>1. quotaPc[u] = "queue" /\ amount[u] = Zero /\ taken[u] = {}
    BY <1>4, <1>e, <1>t DEF AcquireQueued, Unowned
  <2> QED
    BY <1>4, <2>1, <1>n DEF AcquireQueued, QuotaGoto
<1>5. ASSUME NEW u \in Users, RetryDispatch(u) PROVE EmptyHanded' /\ Counted'
  <2>1. quotaPc[u] = "retried" /\ amount[u] = Zero /\ taken[u] = {}
    BY <1>5, <1>e, <1>t DEF RetryDispatch, Unowned
  <2> QED
    BY <1>5, <2>1, <1>n DEF RetryDispatch, QuotaGoto
<1>6. ASSUME NEW u \in Users, PushWaiter(u) PROVE EmptyHanded' /\ Counted'
  <2>1. quotaPc[u] = "push" /\ amount[u] = Zero /\ taken[u] = {} /\ quotaLock = u
    BY <1>6, <1>e, <1>l, <1>t DEF PushWaiter, Unowned
  <2> QED
    BY <1>6, <2>1, <1>n DEF PushWaiter, QuotaGoto
<1>7. ASSUME NEW u \in Users, QuotaResume(u) PROVE EmptyHanded' /\ Counted'
  <2>1. /\ quotaPc[u] = "ready" /\ quotaPc' = [quotaPc EXCEPT ![u] = "held"]
        /\ amount' = [amount EXCEPT ![u] = Request[u]]
        /\ UNCHANGED <<quantities, quotaHandles, taken, giving>>
    BY <1>7 DEF QuotaResume, QuotaGoto
  <2>2. /\ quotaPc'[u] = "held" /\ amount'[u] = Request[u]
        /\ \A v \in Users \ {u} : quotaPc'[v] = quotaPc[v] /\ amount'[v] = amount[v]
    BY <1>a, <2>1 DEF QuotaTypes
  <2>3. taken[u] = {} /\ amount[u] = Zero
    BY <1>e, <1>t, <2>1 DEF Unowned
  <2>4. \A k \in 1 .. Kinds : Request[u][k] \in Nat
    BY <1>r DEF Amounts
  <2>5. ASSUME NEW k \in 1 .. Kinds PROVE Out(u, k)' = Out(u, k)
    <3>1. Out(u, k) = 0 + 0 + Request[u][k] + 0
      BY <2>1, <2>3 DEF Out, Zero
    <3>2. Out(u, k)' = Request[u][k] + 0 + 0 + 0
      BY <2>1, <2>2, <2>3 DEF Out
    <3> QED
      BY <2>4, <3>1, <3>2
  <2> QED
    BY <2>1, <2>2, <2>5, <1>m DEF Unowned
<1>8. ASSUME NEW u \in Users, ReleaseResource(u) PROVE EmptyHanded' /\ Counted'
  <2>1. /\ quotaPc[u] = "held" /\ quotaPc' = [quotaPc EXCEPT ![u] = "give"]
        /\ UNCHANGED <<quantities, quotaLock, quotaHandles, phase>>
    BY <1>8 DEF ReleaseResource, QuotaGoto
  <2>2. PICK delta :
           /\ delta \in Amounts /\ \A k \in 1 .. Kinds : delta[k] <= amount[u][k]
           /\ amount' = [amount EXCEPT ![u] = Minus(@, delta)]
           /\ giving' = [giving EXCEPT ![u] = delta]
           /\ taken' = [taken EXCEPT ![u] = Positive(delta)]
    BY <1>8, <1>a, DeltaTyped DEF QuotaTypes
  <2>3. /\ quotaPc'[u] = "give" /\ amount'[u] = Minus(amount[u], delta) /\ giving'[u] = delta
        /\ taken'[u] = Positive(delta)
        /\ \A v \in Users \ {u} : /\ quotaPc'[v] = quotaPc[v] /\ taken'[v] = taken[v]
                                  /\ amount'[v] = amount[v] /\ giving'[v] = giving[v]
    BY <1>a, <2>1, <2>2 DEF QuotaTypes
  <2>4. taken[u] = {}
    BY <1>t, <2>1
  <2>5. amount[u] \in Amounts
    BY <1>a DEF QuotaTypes
  <2>6. ASSUME NEW k \in 1 .. Kinds PROVE Out(u, k)' = Out(u, k)
    <3>1. amount[u][k] \in Nat /\ delta[k] \in Nat
      BY <2>2, <2>5 DEF Amounts
    <3>2. Out(u, k) = amount[u][k] + 0 + 0 + 0
      BY <2>1, <2>4 DEF Out
    <3>3. Out(u, k)' = amount[u][k] - delta[k] + (IF delta[k] # 0 THEN delta[k] ELSE 0) + 0 + 0
      BY <2>3 DEF Out, Minus, Positive
    <3> QED
      BY <3>1, <3>2, <3>3
  <2> QED
    BY <2>1, <2>3, <2>6, <1>m DEF Unowned
<1>9. ASSUME NEW u \in Users, ReleaseKind(u) PROVE EmptyHanded' /\ Counted'
  <2>1. /\ quotaPc[u] = "give"
        /\ UNCHANGED <<quotaLock, quotaHandles, quotaPc, phase, amount, giving>>
    BY <1>9 DEF ReleaseKind
  <2>2. PICK k \in NextOf(taken[u]) :
           /\ quantities' = [quantities EXCEPT ![k] = @ + giving[u][k]]
           /\ taken' = [taken EXCEPT ![u] = @ \ {k}]
    BY <1>9 DEF ReleaseKind
  <2>3. /\ k \in 1 .. Kinds /\ k \in taken[u] /\ quantities \in Amounts
        /\ giving[u] \in Amounts /\ amount[u] \in Amounts
    BY <1>a DEF NextOf, QuotaTypes
  <2>4. /\ quantities'[k] = quantities[k] + giving[u][k]
        /\ \A j \in 1 .. Kinds \ {k} : quantities'[j] = quantities[j]
        /\ taken'[u] = taken[u] \ {k} /\ \A v \in Users \ {u} : taken'[v] = taken[v]
    BY <1>a, <2>2, <2>3 DEF QuotaTypes, Amounts
  <2>5. ASSUME NEW j \in 1 .. Kinds PROVE quantities'[j] + Out(u, j)' = quantities[j] + Out(u, j)
    <3>1. giving[u][j] \in Nat /\ amount[u][j] \in Nat /\ quantities[j] \in Nat
      BY <2>3 DEF Amounts
    <3>2. /\ Out(u, j) = amount[u][j] + (IF j \in taken[u] THEN giving[u][j] ELSE 0) + 0 + 0
          /\ Out(u, j)' = amount[u][j] + (IF j \in taken'[u] THEN giving[u][j] ELSE 0) + 0 + 0
      BY <2>1 DEF Out
    <3> QED
      BY <2>3, <2>4, <3>1, <3>2
  <2> QED
    BY <2>1, <2>4, <2>5, <1>m DEF Unowned
\* release() returns, to a resource that may be empty.
<1>s. ASSUME NEW u \in Users, quotaPc[u] \in {"give", "stop"}, taken[u] = {},
             quotaPc' = [quotaPc EXCEPT ![u] = Released(u)],
             UNCHANGED <<quantities, quotaHandles, taken, amount, giving>>
      PROVE  EmptyHanded' /\ Counted'
  <2>1. Released(u) \in {"idle", "held"} /\ (Released(u) \in Unowned => amount[u] = Zero)
    BY DEF Released, Unowned
  <2> QED
    BY <1>s, <2>1, <1>n
<1>10. ASSUME NEW u \in Users, ReleaseLook(u) PROVE EmptyHanded' /\ Counted'
  <2>1. /\ quotaPc[u] = "give" /\ taken[u] = {}
        /\ UNCHANGED <<quantities, quotaHandles, phase, taken, amount, giving>>
    BY <1>10 DEF ReleaseLook
  <2>2. CASE quotaPc' = [quotaPc EXCEPT ![u] = "wake"]
    BY <2>1, <2>2, <1>n DEF Unowned
  <2>3. CASE quotaPc' = [quotaPc EXCEPT ![u] = Released(u)]
    BY <2>1, <2>3, <1>s
  <2> QED
    BY <1>10, <2>2, <2>3 DEF ReleaseLook, QuotaGoto
<1>11. ASSUME NEW u \in Users, WakeTop(u) PROVE EmptyHanded' /\ Counted'
  <2>1. /\ quotaPc[u] = "pop" /\ quotaHandles' = Tail(quotaHandles)
        /\ UNCHANGED <<quantities, phase, taken, amount, giving>>
    BY <1>11 DEF WakeTop
  <2>2. PICK h \in Users : h = Head(quotaHandles) /\ h # u /\ quotaPc[h] = "waiting"
    BY <1>a, <2>1, TopWaits
  <2>3. /\ quotaPc'[u] = "give" /\ quotaPc'[h] = "ready"
        /\ \A v \in Users \ {u, h} : quotaPc'[v] = quotaPc[v]
    BY <1>11, <1>a, <2>2 DEF WakeTop, QuotaTypes
  <2>4. quotaLock = u /\ taken[u] = {} /\ taken[h] = {} /\ amount[h] = Zero
    BY <1>e, <1>l, <1>t, <2>1, <2>2 DEF Unowned
  <2>5. EmptyHanded'
    BY <2>1, <2>3, <2>4 DEF EmptyHanded, Unowned
  <2>6. ASSUME NEW v \in Users \ {u, h}, NEW k \in 1 .. Kinds PROVE Out(v, k)' = Out(v, k)
    <3>1. QuotaUser(v)
      BY <1>a
    <3>2. quotaPc[v] \notin {"wake", "pop"}
      BY <2>4, <3>1 DEF QuotaUser
    <3> QED
      BY <2>1, <2>3, <3>2, OutSame
  <2>7. ASSUME NEW k \in 1 .. Kinds PROVE Out(u, k)' + Out(h, k)' = Out(u, k) + Out(h, k)
    <3>1. /\ Out(u, k) = amount[u][k] + 0 + 0 + Request[h][k]
          /\ Out(u, k)' = amount[u][k] + 0 + 0 + 0
      BY <2>1, <2>2, <2>3, <2>4 DEF Out
    <3>2. Out(h, k) = 0 + 0 + 0 + 0 /\ Out(h, k)' = 0 + 0 + Request[h][k] + 0
      BY <2>1, <2>2, <2>3, <2>4 DEF Out, Zero
    <3>3. amount[u] \in Amounts /\ Request[h] \in Amounts
      BY <1>a, <1>r DEF QuotaTypes
    <3>4. amount[u][k] \in Nat /\ Request[h][k] \in Nat
      BY <3>3 DEF Amounts
    <3> QED
      BY <3>1, <3>2, <3>4
  <2> QED
    BY <1>b, <2>1, <2>2, <2>5, <2>6, <2>7, CountShifts
<1>12. ASSUME NEW u \in Users, WakeStop(u) PROVE EmptyHanded' /\ Counted'
  BY <1>12, <1>t, <1>s DEF WakeStop, QuotaGoto
<1>13. ASSUME NEW u \in Users, NEW w \in Users, Merge(u, w) PROVE EmptyHanded' /\ Counted'
  <2>1. /\ u # w /\ quotaPc[u] = "held" /\ quotaPc[w] = "held"
        /\ amount' = [amount EXCEPT ![u] = Plus(@, amount[w]), ![w] = Zero]
        /\ quotaPc' = [quotaPc EXCEPT ![w] = "idle"]
        /\ UNCHANGED <<quantities, quotaLock, quotaHandles, phase, taken, giving>>
    BY <1>13 DEF Merge, QuotaGoto
  <2>2. /\ quotaPc'[w] = "idle" /\ amount'[w] = Zero /\ amount'[u] = Plus(amount[u], amount[w])
        /\ \A v \in Users \ {w} : quotaPc'[v] = quotaPc[v]
        /\ \A v \in Users \ {u, w} : amount'[v] = amount[v]
    BY <1>a, <2>1 DEF QuotaTypes
  <2>3. taken[u] = {} /\ taken[w] = {}
    BY <1>t, <2>1
  <2>4. EmptyHanded'
    BY <2>1, <2>2 DEF EmptyHanded, Unowned
  <2>5. ASSUME NEW v \in Users \ {u, w}, NEW k \in 1 .. Kinds PROVE Out(v, k)' = Out(v, k)
    BY <2>1, <2>2, OutSame
  <2>6. ASSUME NEW k \in 1 .. Kinds PROVE Out(u, k)' + Out(w, k)' = Out(u, k) + Out(w, k)
    <3>1. Out(u, k) = amount[u][k] + 0 + 0 + 0 /\ Out(w, k) = amount[w][k] + 0 + 0 + 0
      BY <2>1, <2>3 DEF Out
    <3>2. Out(u, k)' = amount[u][k] + amount[w][k] + 0 + 0 + 0 /\ Out(w, k)' = 0 + 0 + 0 + 0
      BY <2>1, <2>2, <2>3 DEF Out, Plus, Zero
    <3>3. amount[u] \in Amounts /\ amount[w] \in Amounts
      BY <1>a DEF QuotaTypes
    <3>4. amount[u][k] \in Nat /\ amount[w][k] \in Nat
      BY <3>3 DEF Amounts
    <3> QED
      BY <3>1, <3>2, <3>4
  <2> QED
    BY <1>b, <2>1, <2>4, <2>5, <2>6, CountShifts
<1>14. CASE UNCHANGED quotaVars
  <2>1. UNCHANGED <<quantities, quotaHandles, quotaPc, taken, amount, giving>>
    BY <1>14 DEF quotaVars
  <2>2. ASSUME NEW v \in Users, NEW k \in 1 .. Kinds PROVE Out(v, k)' = Out(v, k)
    BY <2>1, OutSame
  <2>3. \A k \in 1 .. Kinds : UnitsOut(k)' = UnitsOut(k)
    BY <2>2 DEF UnitsOut
  <2> QED
    BY <2>1, <2>3 DEF EmptyHanded, Counted
<1> QED
  BY <1>1, <1>2, <1>3, <1>4, <1>5, <1>6, <1>7, <1>8, <1>9, <1>10, <1>11, <1>12, <1>13, <1>14
     DEF QuotaNext, QuotaStep

-----------------------------------------------------------------------------
(* iris_dispatcher_t                                                         *)

\* Nodes that allocate() has made.
Made == Routines \cup {Junctions[i] : i \in 1 .. junctions}
\* The slots that name v.
Refs(v) == {s \in Nodes \X (1 .. Slots) : nextTasks[s[1]][s[2]] = v}
NotFreed == {n \in Made : freed[n] = 0}

Waiting(n) == execPc[n][1] = "none"
Over(n) == \E k \in {1, 2} : execPc[n][k] \in {"next", "end"}

GraphPCs == {"none", "queued", "load", "return", "mark", "next", "end"}

GraphTypes ==
    /\ lockCount \in [Nodes -> Nat]
    /\ nextTasks \in [Nodes -> [1 .. Slots -> Nodes \cup {Null}]]
    /\ ordered \in 0 .. Len(Edges) /\ orderFrom \in Nodes \cup {Null}
    /\ junctions \in 0 .. Len(Junctions)
    /\ undispatched \subseteq Routines /\ deferred \subseteq Routines
    /\ execPc \in [Nodes -> [{1, 2} -> GraphPCs]]
    /\ freed \in [Nodes -> Nat] /\ pendingCount \in Nat /\ completed \in Nat

\* The graph is built before anything is dispatched; a junction to come is blank.
GraphBuilt ==
    /\ ordered < Len(Edges) => \A n \in Nodes : Waiting(n)
    /\ ordered < Len(Edges) => undispatched = Routines
    /\ \A n \in Nodes \ Made :
         /\ Waiting(n) /\ lockCount[n] = 1 /\ Refs(n) = {}
         /\ \A i \in 1 .. Slots : nextTasks[n][i] = Null

\* lock_count of a node that waits: the slots that name it and its own handle.
LocksCounted ==
    \A n \in Made : Waiting(n) =>
      lockCount[n] = Cardinality(Refs(n)) + (IF n \in undispatched THEN 1 ELSE 0)

\* What the two calls of execute() of a node have come to: the second one comes
\* after the first has returned, which it does only for a deferral.
Stage(n) ==
    \/ execPc[n][1] = "none" /\ execPc[n][2] = "none" /\ n \notin deferred
    \/ /\ execPc[n][1] \in {"queued", "mark"} /\ execPc[n][2] = "none"
       /\ n \notin deferred /\ lockCount[n] = 0
    \/ /\ execPc[n][1] = "load" /\ execPc[n][2] = "none"
       /\ lockCount[n] = IF n \in deferred THEN 1 ELSE 0
    \/ /\ execPc[n][1] = "return" /\ execPc[n][2] = "none"
       /\ n \in deferred /\ lockCount[n] = 1
    \/ /\ execPc[n][1] = "return" /\ execPc[n][2] \in {"load", "mark"}
       /\ n \notin deferred /\ lockCount[n] = 0
    \/ /\ \/ execPc[n][1] \in {"next", "end"} /\ execPc[n][2] = "none"
          \/ execPc[n][1] = "return" /\ execPc[n][2] \in {"next", "end"}
       /\ n \notin deferred /\ lockCount[n] = Forever

Staged ==
    \A n \in Nodes :
      /\ Stage(n)
      /\ ~Waiting(n) => n \notin undispatched /\ Refs(n) = {}

\* Each node is destroyed at the end of one execute(), with no successor left.
FreedAtEnd ==
    /\ \A n \in Nodes : freed[n] = IF \E k \in {1, 2} : execPc[n][k] = "end" THEN 1 ELSE 0
    /\ pendingCount = Cardinality(NotFreed)
    /\ completed > 0 => pendingCount = 0 /\ ordered = Len(Edges)

\* root[j]: the routine whose successors went into the junction j.
Rooted(root) ==
    /\ \A r \in Routines : root[r] = r
    /\ \A p \in Nodes : \A i \in 1 .. Slots :
         nextTasks[p][i] \in Nodes \ Routines => root[nextTasks[p][i]] = root[p]
    /\ \A j \in Nodes \ Routines : ~Waiting(j) => Over(root[j])
    /\ \A e \in 1 .. ordered :
         \/ Over(Edges[e][1])
         \/ \E p \in Nodes : root[p] = Edges[e][1] /\ \E i \in 1 .. Slots : nextTasks[p][i] = Edges[e][2]
    /\ orderFrom # Null => /\ ordered < Len(Edges) /\ orderFrom \in Made
                           /\ root[orderFrom] = Edges[ordered + 1][1]

GraphInv ==
    /\ GraphTypes /\ GraphBuilt /\ LocksCounted /\ Staged /\ FreedAtEnd
    /\ \E root \in [Nodes -> Nodes] : Rooted(root)

LEMMA GraphFinite ==
  /\ IsFiniteSet(Nodes)
  /\ \A S : S \subseteq Nodes \X (1 .. Slots) => IsFiniteSet(S) /\ Cardinality(S) \in Nat
  /\ \A S : S \subseteq Nodes => IsFiniteSet(S) /\ Cardinality(S) \in Nat
<1> DEFINE J == {Junctions[i] : i \in DOMAIN Junctions}
<1>1. DOMAIN Junctions = 1 .. Len(Junctions) /\ Len(Junctions) \in Nat
  BY DispatcherAssumption
<1>2. IsFiniteSet(DOMAIN Junctions)
  BY <1>1, FS_Interval
<1>3. Junctions \in Surjection(DOMAIN Junctions, J)
  <2>1. Junctions = [i \in DOMAIN Junctions |-> Junctions[i]]
    BY DispatcherAssumption
  <2>2. Junctions \in [DOMAIN Junctions -> J]
    BY <2>1
  <2> QED
    BY <2>2 DEF Surjection
<1>4. IsFiniteSet(J)
  BY <1>2, <1>3, FS_Surjection
<1>5. IsFiniteSet(Nodes)
  <2> HIDE DEF J
  <2> QED
    BY <1>4, DispatcherAssumption, FS_Union DEF Nodes, J
<1>6. IsFiniteSet(1 .. Slots)
  BY DispatcherAssumption, FS_Interval
<1>7. IsFiniteSet(Nodes \X (1 .. Slots))
  BY <1>5, <1>6, FS_Product
<1> QED
  BY <1>5, <1>7, FS_Subset, FS_CardinalityType

LEMMA GraphNodes ==
  /\ Routines \subseteq Nodes /\ Null \notin Nodes
  /\ \A e \in 1 .. Len(Edges) : Edges[e][1] \in Routines /\ Edges[e][2] \in Routines
  /\ Len(Edges) \in Nat /\ Len(Junctions) \in Nat /\ Slots \in Nat /\ 1 \in 1 .. Slots /\ 2 \in 1 .. Slots
  /\ \A i \in 1 .. Len(Junctions) : Junctions[i] \in Nodes \ Routines
<1>1. Edges \in Seq(Routines \X Routines) /\ Junctions \in Seq(Nodes \ Routines)
  BY DispatcherAssumption
<1>2. \A e \in 1 .. Len(Edges) : Edges[e] \in Routines \X Routines
  BY <1>1
<1>3. \A i \in 1 .. Len(Junctions) : Junctions[i] \in Nodes \ Routines
  BY <1>1
<1> QED
  BY <1>1, <1>2, <1>3, DispatcherAssumption DEF Nodes

\* A store into slot i of node n.
LEMMA SlotStored ==
  ASSUME NEW f \in [Nodes -> [1 .. Slots -> Nodes \cup {Null}]],
         NEW n \in Nodes, NEW i \in 1 .. Slots, NEW v \in Nodes \cup {Null},
         NEW g, g = [f EXCEPT ![n][i] = v]
  PROVE  /\ g \in [Nodes -> [1 .. Slots -> Nodes \cup {Null}]]
         /\ \A m \in Nodes, h \in 1 .. Slots : g[m][h] = IF m = n /\ h = i THEN v ELSE f[m][h]
<1>1. f[n] \in [1 .. Slots -> Nodes \cup {Null}]
  OBVIOUS
<1>2. PICK s : s = [f[n] EXCEPT ![i] = v]
  OBVIOUS
<1>3. /\ s \in [1 .. Slots -> Nodes \cup {Null}]
      /\ \A h \in 1 .. Slots : s[h] = IF h = i THEN v ELSE f[n][h]
  BY <1>1, <1>2
<1>4. g = [f EXCEPT ![n] = s]
  BY <1>2
<1>5. /\ g \in [Nodes -> [1 .. Slots -> Nodes \cup {Null}]]
      /\ g[n] = s /\ \A m \in Nodes \ {n} : g[m] = f[m]
  BY <1>3, <1>4
<1> QED
  BY <1>3, <1>5

LEMMA MadeNodes == GraphTypes => Made \subseteq Nodes /\ Routines \subseteq Made
  BY GraphNodes DEF GraphTypes, Made

LEMMA OrderedNodes ==
  ASSUME GraphTypes, NEW e \in 1 .. ordered
  PROVE  /\ e \in 1 .. Len(Edges) /\ Edges[e][1] \in Nodes
         /\ Edges[e][2] \in Nodes /\ Edges[e][2] # Null
<1>1. ordered \in 0 .. Len(Edges) /\ Len(Edges) \in Nat
  BY GraphNodes DEF GraphTypes
<1>2. e \in 1 .. Len(Edges)
  BY <1>1
<1> QED
  BY <1>2, GraphNodes

LEMMA GraphStarts == DispatcherInit => GraphInv
<1> SUFFICES ASSUME DispatcherInit PROVE GraphInv
  OBVIOUS
<1> USE DEF DispatcherInit
<1>1. \A n \in Nodes : Refs(n) = {}
  BY GraphNodes DEF Refs
<1>2. Made = Routines
  BY DEF Made
<1>3. NotFreed = Routines
  BY <1>2, GraphNodes DEF NotFreed
<1>4. Cardinality(Routines) \in Nat /\ Cardinality({}) = 0
  BY GraphFinite, GraphNodes, FS_EmptySet
<1>5. GraphTypes
  <2>1. nextTasks \in [Nodes -> [1 .. Slots -> Nodes \cup {Null}]]
    OBVIOUS
  <2>2. execPc \in [Nodes -> [{1, 2} -> GraphPCs]]
    BY DEF GraphPCs
  <2> QED
    BY <1>4, <2>1, <2>2, GraphNodes DEF GraphTypes
<1>6. GraphBuilt
  BY <1>1 DEF GraphBuilt, Waiting
<1>7. LocksCounted
  <2> SUFFICES ASSUME NEW n \in Routines PROVE lockCount[n] = Cardinality(Refs(n)) + 1
    BY <1>2 DEF LocksCounted
  <2>1. n \in Nodes
    BY GraphNodes
  <2>2. Cardinality(Refs(n)) = 0
    BY <1>1, <1>4, <2>1
  <2> QED
    BY <2>1, <2>2
<1>8. Staged
  BY DEF Staged, Stage, Waiting
<1>9. FreedAtEnd
  BY <1>3, <1>4 DEF FreedAtEnd
<1>10. Rooted([n \in Nodes |-> n])
  BY GraphNodes DEF Rooted, Waiting
<1> QED
  BY <1>5, <1>6, <1>7, <1>8, <1>9, <1>10 DEF GraphInv

\* A step of execute() of n that touches no slot.
LEMMA ExecKeeps ==
  ASSUME GraphInv, GraphTypes', NEW n \in Nodes, ~Waiting(n), ~Waiting(n)', Stage(n)',
         \A m \in Nodes \ {n} : /\ execPc'[m] = execPc[m] /\ lockCount'[m] = lockCount[m]
                                /\ m \in deferred' <=> m \in deferred,
         Over(n) => Over(n)', FreedAtEnd',
         UNCHANGED <<nextTasks, ordered, orderFrom, junctions, undispatched>>
  PROVE  GraphInv'
<1>1. /\ \A m \in Nodes : Waiting(m)' <=> Waiting(m)
      /\ \A m \in Nodes : Over(m) => Over(m)'
      /\ \A m \in Nodes : Waiting(m) => lockCount'[m] = lockCount[m]
  BY DEF Waiting, Over
<1>2. Made' = Made /\ \A m : Refs(m)' = Refs(m)
  BY DEF Made, Refs
<1>3. Made \subseteq Nodes
  BY MadeNodes DEF GraphInv
<1>4. GraphBuilt'
  BY <1>1, <1>2, <1>3 DEF GraphInv, GraphBuilt
<1>5. LocksCounted'
  BY <1>1, <1>2, <1>3 DEF GraphInv, LocksCounted
<1>6. Staged'
  <2>1. \A m \in Nodes \ {n} : Stage(m)'
    BY DEF GraphInv, Staged, Stage
  <2> QED
    BY <1>1, <1>2, <2>1 DEF GraphInv, Staged
<1>7. PICK root \in [Nodes -> Nodes] : Rooted(root)
  BY DEF GraphInv
<1>8. Rooted(root)'
  <2>1. \A e \in 1 .. ordered : Edges[e][1] \in Nodes
    BY OrderedNodes DEF GraphInv
  <2> QED
    BY <1>1, <1>2, <1>7, <2>1 DEF Rooted
<1> QED
  BY <1>4, <1>5, <1>6, <1>8 DEF GraphInv


LEMMA StartedMade ==
  ASSUME GraphInv, NEW n \in Nodes, ~Waiting(n)
  PROVE  n \in Made /\ ordered = Len(Edges) /\ n \notin undispatched
<1>1. ordered \in Nat /\ ordered <= Len(Edges) /\ Len(Edges) \in Nat
  BY GraphNodes DEF GraphInv, GraphTypes
<1> QED
  BY <1>1 DEF GraphInv, GraphBuilt, Staged

LEMMA CallRoutineKeeps ==
  ASSUME GraphInv, NEW n \in Nodes, CallRoutine(n)
  PROVE  GraphInv'
<1>1. /\ execPc[n][1] = "queued" /\ execPc[n][2] = "none" /\ n \notin deferred /\ lockCount[n] = 0
  BY DEF CallRoutine, GraphInv, Staged, Stage
<1>2. execPc' = [execPc EXCEPT ![n][1] = "load"]
  BY DEF CallRoutine, ExecGoto
<1>3. /\ lockCount' \in [Nodes -> Nat] /\ deferred' \subseteq Routines
      /\ lockCount'[n] = IF n \in deferred' THEN 1 ELSE 0
      /\ \A m \in Nodes \ {n} : lockCount'[m] = lockCount[m] /\ (m \in deferred' <=> m \in deferred)
  <2>0. lockCount \in [Nodes -> Nat] /\ deferred \subseteq Routines /\ Deferring \subseteq Routines
    BY DispatcherAssumption DEF GraphInv, GraphTypes
  <2>1. CASE n \in Deferring
    <3>1. lockCount' = [lockCount EXCEPT ![n] = 1] /\ deferred' = deferred \cup {n}
      BY <1>1, <2>0, <2>1 DEF CallRoutine, DSet
    <3> QED
      BY <2>0, <2>1, <3>1
  <2>2. CASE n \notin Deferring
    BY <1>1, <2>0, <2>2 DEF CallRoutine
  <2> QED
    BY <2>1, <2>2
<1>4. /\ execPc' \in [Nodes -> [{1, 2} -> GraphPCs]]
      /\ execPc'[n][1] = "load" /\ execPc'[n][2] = "none"
      /\ \A m \in Nodes \ {n} : execPc'[m] = execPc[m]
  BY <1>1, <1>2 DEF GraphInv, GraphTypes, GraphPCs
<1>5. UNCHANGED <<nextTasks, ordered, orderFrom, junctions, undispatched, freed, pendingCount, completed>>
  BY DEF CallRoutine
<1>6. GraphTypes'
  BY <1>3, <1>4, <1>5 DEF GraphInv, GraphTypes
<1>7. FreedAtEnd'
  <2>1. NotFreed' = NotFreed
    BY <1>5 DEF NotFreed, Made
  <2> QED
    BY <1>1, <1>4, <1>5, <2>1 DEF GraphInv, FreedAtEnd
<1>8. Stage(n)' /\ ~Waiting(n) /\ ~Waiting(n)' /\ ~Over(n)
  BY <1>1, <1>3, <1>4 DEF Stage, Waiting, Over
<1> QED
  BY <1>3, <1>4, <1>5, <1>6, <1>7, <1>8, ExecKeeps

LEMMA CoroutineEndsKeeps ==
  ASSUME LateCompletion, GraphInv, NEW n \in Nodes, CoroutineEnds(n)
  PROVE  GraphInv'
<1>1. /\ execPc[n][1] = "return" /\ execPc[n][2] = "none" /\ n \in deferred /\ lockCount[n] = 1
  BY LateCompletion DEF CoroutineEnds, GraphInv, Staged, Stage
<1>2. execPc' = [execPc EXCEPT ![n][2] = "load"]
  BY <1>1 DEF CoroutineEnds, Unlock
<1>3. /\ lockCount' \in [Nodes -> Nat] /\ deferred' \subseteq Routines /\ n \notin deferred'
      /\ lockCount'[n] = 0
      /\ \A m \in Nodes \ {n} : lockCount'[m] = lockCount[m] /\ (m \in deferred' <=> m \in deferred)
  BY <1>1 DEF CoroutineEnds, Unlock, DSet, GraphInv, GraphTypes
<1>4. /\ execPc' \in [Nodes -> [{1, 2} -> GraphPCs]]
      /\ execPc'[n][1] = "return" /\ execPc'[n][2] = "load"
      /\ \A m \in Nodes \ {n} : execPc'[m] = execPc[m]
  BY <1>1, <1>2 DEF GraphInv, GraphTypes, GraphPCs
<1>5. UNCHANGED <<nextTasks, ordered, orderFrom, junctions, undispatched, freed, pendingCount, completed>>
  BY DEF CoroutineEnds
<1>6. GraphTypes'
  BY <1>3, <1>4, <1>5 DEF GraphInv, GraphTypes
<1>7. FreedAtEnd'
  <2>1. NotFreed' = NotFreed
    BY <1>5 DEF NotFreed, Made
  <2> QED
    BY <1>1, <1>4, <1>5, <2>1 DEF GraphInv, FreedAtEnd
<1>8. Stage(n)' /\ ~Waiting(n) /\ ~Waiting(n)' /\ ~Over(n)
  BY <1>1, <1>3, <1>4 DEF Stage, Waiting, Over
<1> QED
  BY <1>3, <1>4, <1>5, <1>6, <1>7, <1>8, ExecKeeps

\* LoadLock and MarkOver: execute() k of n goes on, and may store into lock_count.
LEMMA ExecStepKeeps ==
  ASSUME GraphInv, NEW n \in Nodes, NEW k \in {1, 2},
         LoadLock(n, k) \/ MarkOver(n, k)
  PROVE  GraphInv'
<1>1. PICK l \in {"return", "mark", "next"} :
        /\ execPc' = [execPc EXCEPT ![n][k] = l]
        /\ \/ l = "return" /\ execPc[n][k] = "load" /\ lockCount[n] # 0 /\ lockCount' = lockCount
           \/ l = "mark" /\ execPc[n][k] = "load" /\ lockCount[n] = 0 /\ lockCount' = lockCount
           \/ l = "next" /\ execPc[n][k] = "mark" /\ lockCount' = [lockCount EXCEPT ![n] = Forever]
  BY DEF LoadLock, MarkOver, ExecGoto, DSet
<1>2. UNCHANGED <<nextTasks, ordered, orderFrom, junctions, undispatched, deferred, freed,
                  pendingCount, completed>>
  BY DEF LoadLock, MarkOver
<1>3. /\ execPc' \in [Nodes -> [{1, 2} -> GraphPCs]]
      /\ execPc'[n][k] = l /\ \A h \in {1, 2} \ {k} : execPc'[n][h] = execPc[n][h]
      /\ \A m \in Nodes \ {n} : execPc'[m] = execPc[m]
  BY <1>1 DEF GraphInv, GraphTypes, GraphPCs
<1>4. /\ lockCount' \in [Nodes -> Nat] /\ \A m \in Nodes \ {n} : lockCount'[m] = lockCount[m]
      /\ lockCount'[n] = IF l = "next" THEN Forever ELSE lockCount[n]
  BY <1>1 DEF GraphInv, GraphTypes, Forever
<1>5. GraphTypes'
  BY <1>2, <1>3, <1>4 DEF GraphInv, GraphTypes
<1>6. Stage(n)
  BY DEF GraphInv, Staged
<1>7. Stage(n)' /\ ~Waiting(n) /\ ~Waiting(n)' /\ ~Over(n)
  <2>1. CASE k = 1
    BY <1>1, <1>2, <1>3, <1>4, <1>6, <2>1 DEF Stage, Waiting, Over
  <2>2. CASE k = 2
    BY <1>1, <1>2, <1>3, <1>4, <1>6, <2>2 DEF Stage, Waiting, Over
  <2> QED
    BY <2>1, <2>2
<1>8. FreedAtEnd'
  <2>1. NotFreed' = NotFreed
    BY <1>2 DEF NotFreed, Made
  <2>2. \A m \in Nodes : (\E h \in {1, 2} : execPc'[m][h] = "end") <=> (\E h \in {1, 2} : execPc[m][h] = "end")
    BY <1>1, <1>3
  <2> QED
    BY <1>2, <2>1, <2>2 DEF GraphInv, FreedAtEnd
<1> QED
  BY <1>2, <1>3, <1>4, <1>5, <1>7, <1>8, ExecKeeps

LEMMA FreeNodeKeeps ==
  ASSUME GraphInv, NEW n \in Nodes, NEW k \in {1, 2}, FreeNode(n, k)
  PROVE  GraphInv'
<1>1. /\ execPc[n][k] = "next" /\ execPc' = [execPc EXCEPT ![n][k] = "end"]
      /\ freed' = [freed EXCEPT ![n] = freed[n] + 1] /\ pendingCount' = pendingCount - 1
      /\ completed' = IF pendingCount = 1 THEN completed + 1 ELSE completed
  BY DEF FreeNode, ExecGoto, DSet
<1>2. UNCHANGED <<lockCount, nextTasks, ordered, orderFrom, junctions, undispatched, deferred>>
  BY DEF FreeNode
<1>3. Stage(n)
  BY DEF GraphInv, Staged
<1>4. /\ execPc' \in [Nodes -> [{1, 2} -> GraphPCs]]
      /\ execPc'[n][k] = "end" /\ \A h \in {1, 2} \ {k} : execPc'[n][h] = execPc[n][h]
      /\ \A m \in Nodes \ {n} : execPc'[m] = execPc[m]
  BY <1>1 DEF GraphInv, GraphTypes, GraphPCs
<1>5. Stage(n)' /\ ~Waiting(n) /\ ~Waiting(n)' /\ Over(n)' /\ \A h \in {1, 2} : execPc[n][h] # "end"
  <2>1. CASE k = 1
    BY <1>1, <1>2, <1>3, <1>4, <2>1 DEF Stage, Waiting, Over
  <2>2. CASE k = 2
    BY <1>1, <1>2, <1>3, <1>4, <2>2 DEF Stage, Waiting, Over
  <2> QED
    BY <2>1, <2>2
<1>6. n \in NotFreed /\ ordered = Len(Edges) /\ freed[n] = 0
  BY <1>5, StartedMade DEF NotFreed, GraphInv, FreedAtEnd
<1>7. freed' \in [Nodes -> Nat] /\ freed'[n] = 1 /\ \A m \in Nodes \ {n} : freed'[m] = freed[m]
  BY <1>1, <1>6 DEF GraphInv, GraphTypes
<1>8. Made' = Made /\ Made \subseteq Nodes
  BY <1>2, MadeNodes DEF Made, GraphInv
<1>9. NotFreed' = NotFreed \ {n} /\ NotFreed \subseteq Nodes
  BY <1>6, <1>7, <1>8 DEF NotFreed
<1>10. /\ IsFiniteSet(NotFreed) /\ Cardinality(NotFreed) \in Nat /\ Cardinality(NotFreed) # 0
       /\ Cardinality(NotFreed') = Cardinality(NotFreed) - 1
  <2>1. IsFiniteSet(NotFreed) /\ Cardinality(NotFreed) \in Nat
    BY <1>9, GraphFinite
  <2>2. Cardinality(NotFreed) # 0
    BY <1>6, <2>1, FS_EmptySet
  <2> QED
    BY <1>6, <1>9, <2>1, <2>2, FS_RemoveElement
<1>11. pendingCount = Cardinality(NotFreed) /\ completed = 0
  <2>1. pendingCount = Cardinality(NotFreed) /\ (completed > 0 => pendingCount = 0)
    BY DEF GraphInv, FreedAtEnd
  <2>2. completed \in Nat
    BY DEF GraphInv, GraphTypes
  <2> QED
    BY <1>10, <2>1, <2>2
<1>12. GraphTypes'
  <2>1. pendingCount' \in Nat /\ completed' \in Nat
    BY <1>1, <1>10, <1>11
  <2> QED
    BY <1>2, <1>4, <1>7, <2>1 DEF GraphInv, GraphTypes
<1>13. FreedAtEnd'
  <2>1. \A m \in Nodes \ {n} :
          (\E h \in {1, 2} : execPc'[m][h] = "end") <=> (\E h \in {1, 2} : execPc[m][h] = "end")
    BY <1>4
  <2>2. ASSUME NEW m \in Nodes
        PROVE  freed'[m] = IF \E h \in {1, 2} : execPc'[m][h] = "end" THEN 1 ELSE 0
    <3>1. CASE m = n
      BY <1>4, <1>7, <3>1
    <3>2. CASE m # n
      <4>1. freed[m] = IF \E h \in {1, 2} : execPc[m][h] = "end" THEN 1 ELSE 0
        BY DEF GraphInv, FreedAtEnd
      <4> QED
        BY <1>7, <2>1, <3>2, <4>1
    <3> QED
      BY <3>1, <3>2
  <2> QED
    BY <1>1, <1>2, <1>6, <1>10, <1>11, <2>2 DEF FreedAtEnd
<1> QED
  BY <1>2, <1>4, <1>5, <1>12, <1>13, ExecKeeps

\* Whoever is named by a slot, or has its handle, still waits.
LEMMA NamedWait ==
  ASSUME GraphInv, NEW n \in Nodes, Refs(n) # {} \/ n \in undispatched
  PROVE  /\ Waiting(n) /\ n \in Made /\ execPc[n][2] = "none" /\ n \notin deferred
         /\ lockCount[n] = Cardinality(Refs(n)) + (IF n \in undispatched THEN 1 ELSE 0)
<1>1. Waiting(n) /\ Stage(n)
  BY DEF GraphInv, Staged
<1>2. n \in Made
  BY MadeNodes DEF GraphInv, GraphTypes, GraphBuilt
<1> QED
  BY <1>1, <1>2 DEF Stage, Waiting, GraphInv, LocksCounted

\* dispatch(): v has a lock less, for the handle or the slot that is given up.
LEMMA UnlockKeeps ==
  ASSUME GraphInv, NEW v \in Nodes, Unlock(v, 1), Refs(v) # {} \/ v \in undispatched,
         ordered = Len(Edges),
         UNCHANGED <<ordered, orderFrom, junctions, deferred, freed, pendingCount, completed>>,
         nextTasks' \in [Nodes -> [1 .. Slots -> Nodes \cup {Null}]],
         undispatched' \subseteq undispatched,
         \A m \in Nodes \ {v} : Refs(m)' = Refs(m) /\ (m \in undispatched' <=> m \in undispatched),
         \A n \in Nodes, i \in 1 .. Slots : nextTasks'[n][i] \in {Null, nextTasks[n][i]},
         lockCount[v] - 1 = Cardinality(Refs(v)') + (IF v \in undispatched' THEN 1 ELSE 0),
         NEW root \in [Nodes -> Nodes], Rooted(root),
         v \in Nodes \ Routines => Over(root[v]),
         \A n \in Nodes, i \in 1 .. Slots : nextTasks'[n][i] = nextTasks[n][i] \/ Over(root[n])
  PROVE  GraphInv'
<1>1. /\ Waiting(v) /\ v \in Made /\ execPc[v][2] = "none" /\ v \notin deferred
      /\ lockCount[v] = Cardinality(Refs(v)) + (IF v \in undispatched THEN 1 ELSE 0)
  BY NamedWait
<1>2. Refs(v)' \subseteq Nodes \X (1 .. Slots)
  BY DEF Refs
<1>3. IsFiniteSet(Refs(v)') /\ Cardinality(Refs(v)') \in Nat
  BY <1>2, GraphFinite
<1>4. lockCount[v] \in Nat /\ lockCount[v] >= 1
  BY <1>3 DEF GraphInv, GraphTypes
<1>5. /\ lockCount' \in [Nodes -> Nat] /\ lockCount'[v] = lockCount[v] - 1
      /\ \A m \in Nodes \ {v} : lockCount'[m] = lockCount[m]
  BY <1>4 DEF Unlock, DSet, GraphInv, GraphTypes
<1>6. /\ execPc' \in [Nodes -> [{1, 2} -> GraphPCs]]
      /\ \A m \in Nodes \ {v} : execPc'[m] = execPc[m]
      /\ lockCount[v] # 1 => execPc'[v] = execPc[v]
      /\ lockCount[v] = 1 => execPc'[v][1] \in {"queued", "load"} /\ execPc'[v][2] = "none"
  <2>0. execPc \in [Nodes -> [{1, 2} -> GraphPCs]]
    BY DEF GraphInv, GraphTypes
  <2>1. CASE lockCount[v] # 1
    BY <2>0, <2>1 DEF Unlock
  <2>2. CASE lockCount[v] = 1
    <3>1. PICK l \in {"queued", "load"} : execPc' = [execPc EXCEPT ![v][1] = l]
      BY <2>2 DEF Unlock
    <3>2. {"queued", "load"} \subseteq GraphPCs
      BY DEF GraphPCs
    <3> QED
      BY <1>1, <2>0, <2>2, <3>1, <3>2
  <2> QED
    BY <2>1, <2>2
<1>7. GraphTypes'
  BY <1>5, <1>6 DEF GraphInv, GraphTypes
<1>8. Made' = Made /\ Made \subseteq Nodes
  BY MadeNodes DEF Made, GraphInv
<1>9. /\ \A m \in Nodes \ {v} : (Waiting(m)' <=> Waiting(m)) /\ (Over(m)' <=> Over(m))
      /\ ~Over(v)
  BY <1>1, <1>6 DEF Waiting, Over
<1>10. GraphBuilt'
  <2>1. \A n \in Nodes \ Made : n # v
    BY <1>1
  <2>2. \A n \in Nodes \ Made, i \in 1 .. Slots : nextTasks'[n][i] = Null
    BY DEF GraphInv, GraphBuilt
  <2>3. ~(ordered' < Len(Edges))
    BY GraphNodes
  <2> QED
    BY <1>5, <1>8, <1>9, <2>1, <2>2, <2>3 DEF GraphInv, GraphBuilt
<1>11. LocksCounted'
  <2> SUFFICES ASSUME NEW n \in Made, Waiting(n)'
               PROVE  lockCount'[n] = Cardinality(Refs(n)') + (IF n \in undispatched' THEN 1 ELSE 0)
    BY <1>8 DEF LocksCounted
  <2>1. CASE n = v
    BY <1>5, <2>1
  <2>2. CASE n # v
    BY <1>5, <1>8, <1>9, <2>2 DEF GraphInv, LocksCounted
  <2> QED
    BY <2>1, <2>2
<1>12. Staged'
  <2> SUFFICES ASSUME NEW n \in Nodes
               PROVE  Stage(n)' /\ (~Waiting(n)' => n \notin undispatched' /\ Refs(n)' = {})
    BY DEF Staged
  <2>1. CASE n = v /\ lockCount[v] = 1
    <3>1. v \notin undispatched' /\ Cardinality(Refs(v)') = 0
      BY <1>3, <2>1
    <3>2. Refs(v)' = {}
      BY <1>3, <3>1, FS_EmptySet
    <3>3. Stage(v)'
      BY <1>1, <1>5, <1>6, <2>1 DEF Stage
    <3> QED
      BY <2>1, <3>1, <3>2, <3>3
  <2>2. CASE n = v /\ lockCount[v] # 1
    BY <1>1, <1>6, <2>2 DEF Stage, Waiting
  <2>3. CASE n # v
    <3>1. Stage(n)'
      <4>1. /\ execPc'[n] = execPc[n] /\ lockCount'[n] = lockCount[n]
            /\ n \in deferred' <=> n \in deferred
        BY <1>5, <1>6, <2>3
      <4>2. Stage(n)
        BY DEF GraphInv, Staged
      <4> QED
        BY <4>1, <4>2 DEF Stage
    <3> QED
      BY <1>9, <2>3, <3>1 DEF GraphInv, Staged
  <2> QED
    BY <2>1, <2>2, <2>3
<1>13. FreedAtEnd'
  <2>1. NotFreed' = NotFreed
    BY <1>8 DEF NotFreed
  <2>2. \A m \in Nodes : (\E h \in {1, 2} : execPc'[m][h] = "end") <=> (\E h \in {1, 2} : execPc[m][h] = "end")
    BY <1>1, <1>6 DEF Waiting
  <2> QED
    BY <2>1, <2>2 DEF GraphInv, FreedAtEnd
<1>14. \A m \in Nodes : Over(m) => Over(m)'
  BY <1>9
<1>15. Rooted(root)'
  <2>1. ASSUME NEW p \in Nodes, NEW i \in 1 .. Slots, nextTasks'[p][i] \in Nodes \ Routines
        PROVE  root[nextTasks'[p][i]] = root[p]
    <3>1. nextTasks'[p][i] = nextTasks[p][i]
      BY <2>1, GraphNodes
    <3> QED
      BY <2>1, <3>1 DEF Rooted
  <2>2. \A j \in Nodes \ Routines : ~Waiting(j)' => Over(root[j])'
    BY <1>9, <1>14 DEF Rooted
  <2>3. ASSUME NEW e \in 1 .. ordered
        PROVE  \/ Over(Edges[e][1])'
               \/ \E p \in Nodes : /\ root[p] = Edges[e][1]
                                   /\ \E i \in 1 .. Slots : nextTasks'[p][i] = Edges[e][2]
    <3>1. Edges[e][1] \in Nodes
      BY OrderedNodes DEF GraphInv
    <3> QED
      BY <1>14, <3>1 DEF Rooted
  <2>4. orderFrom' = Null
    BY GraphNodes DEF Rooted
  <2> QED
    BY <2>1, <2>2, <2>3, <2>4 DEF Rooted
<1> QED
  BY <1>7, <1>10, <1>11, <1>12, <1>13, <1>15 DEF GraphInv

LEMMA DispatchHandleKeeps ==
  ASSUME GraphInv, NEW n \in Nodes, DispatchHandle(n)
  PROVE  GraphInv'
<1>1. /\ ordered = Len(Edges) /\ n \in undispatched /\ n \in Routines
      /\ undispatched' = undispatched \ {n} /\ Unlock(n, 1)
      /\ UNCHANGED <<nextTasks, ordered, orderFrom, junctions, deferred, freed, pendingCount, completed>>
  BY DEF DispatchHandle, GraphInv, GraphTypes
<1>2. \A m : Refs(m)' = Refs(m)
  BY <1>1 DEF Refs
<1>3. Refs(n) \subseteq Nodes \X (1 .. Slots)
  BY DEF Refs
<1>4. Cardinality(Refs(n)) \in Nat
  BY <1>3, GraphFinite
<1>5. lockCount[n] = Cardinality(Refs(n)) + 1
  BY <1>1, NamedWait
<1>6. lockCount[n] - 1 = Cardinality(Refs(n)') + (IF n \in undispatched' THEN 1 ELSE 0)
  BY <1>1, <1>2, <1>4, <1>5
<1>7. nextTasks' \in [Nodes -> [1 .. Slots -> Nodes \cup {Null}]]
  BY <1>1 DEF GraphInv, GraphTypes
<1>8. PICK root \in [Nodes -> Nodes] : Rooted(root)
  BY DEF GraphInv
<1> QED
  BY <1>1, <1>2, <1>6, <1>7, <1>8, UnlockKeeps

LEMMA DispatchNextKeeps ==
  ASSUME GraphInv, NEW n \in Nodes, NEW k \in {1, 2}, DispatchNext(n, k)
  PROVE  GraphInv'
<1>1. PICK i \in 1 .. Slots :
        /\ execPc[n][k] = "next" /\ nextTasks[n][i] # Null /\ Unlock(nextTasks[n][i], 1)
        /\ nextTasks' = [nextTasks EXCEPT ![n][i] = Null]
  BY DEF DispatchNext
<1>2. UNCHANGED <<ordered, orderFrom, junctions, undispatched, deferred, freed, pendingCount, completed>>
  BY DEF DispatchNext
<1>3. nextTasks \in [Nodes -> [1 .. Slots -> Nodes \cup {Null}]]
  BY DEF GraphInv, GraphTypes
<1>4. PICK v \in Nodes : v = nextTasks[n][i]
  <2>1. nextTasks[n] \in [1 .. Slots -> Nodes \cup {Null}] /\ nextTasks[n][i] # Null
    BY <1>1, <1>3
  <2> QED
    BY <2>1
<1>5. <<n, i>> \in Refs(v)
  BY <1>4 DEF Refs
<1>6. ~Waiting(n) /\ Over(n)
  BY <1>1 DEF GraphInv, Staged, Stage, Waiting, Over
<1>7. ordered = Len(Edges)
  BY <1>6, StartedMade
<1>8. /\ nextTasks' \in [Nodes -> [1 .. Slots -> Nodes \cup {Null}]]
      /\ \A m \in Nodes, h \in 1 .. Slots :
           nextTasks'[m][h] = IF m = n /\ h = i THEN Null ELSE nextTasks[m][h]
  BY <1>1, <1>3, SlotStored
<1>9. \A m \in Nodes \ {v} : Refs(m)' = Refs(m)
  <2> SUFFICES ASSUME NEW m \in Nodes \ {v} PROVE Refs(m)' = Refs(m)
    OBVIOUS
  <2>1. \A s \in Nodes \X (1 .. Slots) :
          (nextTasks'[s[1]][s[2]] = m) <=> (nextTasks[s[1]][s[2]] = m)
    BY <1>4, <1>8, GraphNodes
  <2> QED
    BY <2>1 DEF Refs
<1>10. Refs(v)' = Refs(v) \ {<<n, i>>}
  <2>1. \A s \in Nodes \X (1 .. Slots) :
          (nextTasks'[s[1]][s[2]] = v) <=> (nextTasks[s[1]][s[2]] = v /\ s # <<n, i>>)
    BY <1>4, <1>8, GraphNodes
  <2> QED
    BY <2>1 DEF Refs
<1>11. /\ Cardinality(Refs(v)) \in Nat
       /\ Cardinality(Refs(v)') = Cardinality(Refs(v)) - 1
  <2>1. Refs(v) \subseteq Nodes \X (1 .. Slots)
    BY DEF Refs
  <2>2. IsFiniteSet(Refs(v)) /\ Cardinality(Refs(v)) \in Nat
    BY <2>1, GraphFinite
  <2> QED
    BY <1>5, <1>10, <2>2, FS_RemoveElement
<1>12. lockCount[v] = Cardinality(Refs(v)) + (IF v \in undispatched THEN 1 ELSE 0)
  BY <1>5, NamedWait
<1>13. lockCount[v] - 1 = Cardinality(Refs(v)') + (IF v \in undispatched' THEN 1 ELSE 0)
  BY <1>2, <1>11, <1>12
<1>14. PICK root \in [Nodes -> Nodes] : Rooted(root)
  BY DEF GraphInv
<1>15. Over(root[n])
  <2>1. CASE n \in Routines
    BY <1>6, <1>14, <2>1 DEF Rooted
  <2>2. CASE n \notin Routines
    BY <1>6, <1>14, <2>2 DEF Rooted
  <2> QED
    BY <2>1, <2>2
<1>16. v \in Nodes \ Routines => Over(root[v])
  BY <1>4, <1>14, <1>15 DEF Rooted
<1>17. \A m \in Nodes, h \in 1 .. Slots :
         /\ nextTasks'[m][h] \in {Null, nextTasks[m][h]}
         /\ nextTasks'[m][h] = nextTasks[m][h] \/ Over(root[m])
  BY <1>8, <1>15
<1>18. /\ Unlock(v, 1) /\ (Refs(v) # {} \/ v \in undispatched) /\ undispatched' \subseteq undispatched
       /\ \A m \in Nodes \ {v} : Refs(m)' = Refs(m) /\ (m \in undispatched' <=> m \in undispatched)
  BY <1>1, <1>2, <1>4, <1>5, <1>9
<1> QED
  BY <1>2, <1>7, <1>8, <1>13, <1>14, <1>16, <1>17, <1>18, UnlockKeeps

LEMMA OrderDescendKeeps == ASSUME GraphInv, OrderDescend PROVE GraphInv'
<1>1. /\ ordered < Len(Edges) /\ Full(From) /\ IsJunction(nextTasks[From][1])
      /\ orderFrom' = nextTasks[From][1]
      /\ UNCHANGED <<lockCount, nextTasks, ordered, junctions, pendingCount, undispatched,
                     execPc, deferred, freed, completed>>
  BY DEF OrderDescend, OrderRest
<1>2. PICK root \in [Nodes -> Nodes] : Rooted(root)
  BY DEF GraphInv
<1>3. ordered + 1 \in 1 .. Len(Edges)
  BY <1>1, GraphNodes DEF GraphInv, GraphTypes
<1>4. From \in Nodes /\ root[From] = Edges[ordered + 1][1]
  BY <1>2, <1>3, GraphNodes, MadeNodes DEF From, Rooted, GraphInv, GraphTypes
<1>5. nextTasks[From][1] \in Nodes \ Routines
  BY <1>1, <1>4, GraphNodes DEF Full, IsJunction, GraphInv, GraphTypes
<1>6. PICK j \in Nodes \ Routines : j = nextTasks[From][1]
  BY <1>5
<1>7. <<From, 1>> \in Refs(j)
  BY <1>4, <1>6, GraphNodes DEF Refs
<1>8. j \in Made
  BY <1>7 DEF GraphInv, GraphBuilt
<1>9. root[j] = Edges[ordered + 1][1]
  BY <1>2, <1>4, <1>6, GraphNodes DEF Rooted
<1>10. Made' = Made /\ \A m : Refs(m)' = Refs(m)
  BY <1>1 DEF Made, Refs
<1>11. GraphTypes'
  BY <1>1, <1>6 DEF GraphInv, GraphTypes
<1>12. GraphBuilt' /\ LocksCounted'
  BY <1>1, <1>10 DEF GraphInv, GraphBuilt, LocksCounted, Waiting
<1>13. Staged' /\ FreedAtEnd'
  BY <1>1, <1>10 DEF GraphInv, Staged, Stage, Waiting, FreedAtEnd, NotFreed
<1>14. Rooted(root)'
  BY <1>1, <1>2, <1>6, <1>8, <1>9, <1>10 DEF Rooted, Waiting, Over
<1> QED
  BY <1>11, <1>12, <1>13, <1>14 DEF GraphInv

\* While order() is called: nobody has started, and the call adds a lock of `to'.
LEMMA OrderFacts ==
  ASSUME GraphInv, ordered < Len(Edges), NEW root \in [Nodes -> Nodes], Rooted(root)
  PROVE  /\ ordered + 1 \in 1 .. Len(Edges)
         /\ From \in Nodes /\ From \in Made /\ root[From] = Edges[ordered + 1][1]
         /\ To \in Routines /\ To \in Nodes /\ To \in Made /\ To = Edges[ordered + 1][2]
         /\ undispatched = Routines
         /\ \A n \in Nodes : Waiting(n) /\ execPc[n][2] = "none" /\ n \notin deferred
<1>1. ordered + 1 \in 1 .. Len(Edges)
  BY GraphNodes DEF GraphInv, GraphTypes
<1>2. /\ Edges[ordered + 1][1] \in Routines /\ Edges[ordered + 1][2] \in Routines
      /\ Routines \subseteq Made /\ Made \subseteq Nodes
  BY <1>1, GraphNodes, MadeNodes DEF GraphInv
<1>3. From \in Made /\ root[From] = Edges[ordered + 1][1]
  BY <1>2 DEF From, Rooted
<1>4. undispatched = Routines /\ \A n \in Nodes : Waiting(n) /\ Stage(n)
  BY DEF GraphInv, GraphBuilt, Staged
<1> QED
  BY <1>1, <1>2, <1>3, <1>4 DEF To, Stage, Waiting

LEMMA OrderStageKeeps ==
  ASSUME GraphInv, ordered < Len(Edges), UNCHANGED <<execPc, deferred>>
  PROVE  Staged' /\ \A n \in Nodes : Waiting(n)' /\ Waiting(n)
<1>1. \A n \in Nodes : Waiting(n) /\ Stage(n)
  BY DEF GraphInv, GraphBuilt, Staged
<1> QED
  BY <1>1 DEF Staged, Stage, Waiting

LEMMA OrderSlotKeeps == ASSUME GraphInv, OrderSlot PROVE GraphInv'
<1>1. PICK i \in 1 .. Slots :
        nextTasks[From][i] = Null /\ nextTasks' = [nextTasks EXCEPT ![From][i] = To]
  BY DEF OrderSlot
<1>2. /\ ordered < Len(Edges) /\ lockCount' = [lockCount EXCEPT ![To] = lockCount[To] + 1]
      /\ ordered' = ordered + 1 /\ orderFrom' = Null
      /\ UNCHANGED <<junctions, pendingCount, undispatched, execPc, deferred, freed, completed>>
  BY DEF OrderSlot, DSet, OrderRest
<1>3. PICK root \in [Nodes -> Nodes] : Rooted(root)
  BY DEF GraphInv
<1>4. PICK f \in Nodes : f = From /\ f \in Made /\ root[f] = Edges[ordered + 1][1]
  BY <1>2, <1>3, OrderFacts
<1>5. PICK t \in Nodes : t = To /\ t \in Routines /\ t \in Made /\ t = Edges[ordered + 1][2]
  BY <1>2, <1>3, OrderFacts
<1>6. ordered \in Nat /\ ordered + 1 \in 1 .. Len(Edges) /\ ordered' \in 0 .. Len(Edges)
  BY <1>2, <1>3, OrderFacts, GraphNodes DEF GraphInv, GraphTypes
<1>7. /\ nextTasks' \in [Nodes -> [1 .. Slots -> Nodes \cup {Null}]]
      /\ \A m \in Nodes, h \in 1 .. Slots :
           nextTasks'[m][h] = IF m = f /\ h = i THEN t ELSE nextTasks[m][h]
  <2>1. /\ nextTasks \in [Nodes -> [1 .. Slots -> Nodes \cup {Null}]]
        /\ nextTasks' = [nextTasks EXCEPT ![f][i] = t]
    BY <1>1, <1>4, <1>5 DEF GraphInv, GraphTypes
  <2> QED
    BY <2>1, SlotStored
<1>8. /\ lockCount' \in [Nodes -> Nat]
      /\ \A m \in Nodes : lockCount'[m] = IF m = t THEN lockCount[m] + 1 ELSE lockCount[m]
  <2>1. lockCount \in [Nodes -> Nat] /\ lockCount' = [lockCount EXCEPT ![t] = lockCount[t] + 1]
    BY <1>2, <1>5 DEF GraphInv, GraphTypes
  <2> QED
    BY <2>1
<1>9. Made' = Made /\ Made \subseteq Nodes
  BY <1>2, MadeNodes DEF Made, GraphInv
<1>10. \A m \in Nodes \ {t} : Refs(m)' = Refs(m)
  <2> SUFFICES ASSUME NEW m \in Nodes \ {t} PROVE Refs(m)' = Refs(m)
    OBVIOUS
  <2>1. \A s \in Nodes \X (1 .. Slots) :
          (nextTasks'[s[1]][s[2]] = m) <=> (nextTasks[s[1]][s[2]] = m)
    BY <1>1, <1>4, <1>7, GraphNodes
  <2> QED
    BY <2>1 DEF Refs
<1>11. Refs(t)' = Refs(t) \cup {<<f, i>>} /\ <<f, i>> \notin Refs(t)
  <2>1. \A s \in Nodes \X (1 .. Slots) :
          (nextTasks'[s[1]][s[2]] = t) <=> (nextTasks[s[1]][s[2]] = t \/ s = <<f, i>>)
    BY <1>7
  <2>2. nextTasks[f][i] # t
    BY <1>1, <1>4, GraphNodes
  <2> QED
    BY <2>1, <2>2 DEF Refs
<1>12. Cardinality(Refs(t)) \in Nat /\ Cardinality(Refs(t)') = Cardinality(Refs(t)) + 1
  <2>1. Refs(t) \subseteq Nodes \X (1 .. Slots)
    BY DEF Refs
  <2>2. IsFiniteSet(Refs(t)) /\ Cardinality(Refs(t)) \in Nat
    BY <2>1, GraphFinite
  <2> QED
    BY <1>11, <2>2, FS_AddElement
<1>13. Staged' /\ \A n \in Nodes : Waiting(n)' /\ Waiting(n)
  BY <1>2, OrderStageKeeps
<1>14. GraphTypes'
  BY <1>2, <1>6, <1>7, <1>8 DEF GraphInv, GraphTypes
<1>15. GraphBuilt'
  <2>1. \A n \in Nodes \ Made : n # f /\ n # t
    BY <1>4, <1>5
  <2>2. ASSUME NEW n \in Nodes \ Made
        PROVE  /\ lockCount'[n] = 1 /\ Refs(n)' = {}
               /\ \A h \in 1 .. Slots : nextTasks'[n][h] = Null
    <3>1. /\ lockCount[n] = 1 /\ Refs(n) = {}
          /\ \A h \in 1 .. Slots : nextTasks[n][h] = Null
      BY DEF GraphInv, GraphBuilt
    <3> QED
      BY <1>7, <1>8, <1>10, <2>1, <3>1
  <2>3. undispatched' = Routines
    BY <1>2 DEF GraphInv, GraphBuilt
  <2> QED
    BY <1>9, <1>13, <2>2, <2>3 DEF GraphBuilt
<1>16. LocksCounted'
  <2> SUFFICES ASSUME NEW n \in Made
               PROVE  lockCount'[n] = Cardinality(Refs(n)') + (IF n \in undispatched THEN 1 ELSE 0)
    BY <1>2, <1>9 DEF LocksCounted
  <2>1. n \in Nodes /\ lockCount[n] = Cardinality(Refs(n)) + (IF n \in undispatched THEN 1 ELSE 0)
    BY <1>9, <1>13 DEF GraphInv, LocksCounted
  <2>2. CASE n = t
    BY <1>8, <1>12, <2>1, <2>2
  <2>3. CASE n # t
    BY <1>8, <1>10, <2>1, <2>3
  <2> QED
    BY <2>2, <2>3
<1>17. FreedAtEnd'
  <2>1. NotFreed' = NotFreed
    BY <1>2, <1>9 DEF NotFreed
  <2>2. completed = 0
    BY <1>2 DEF GraphInv, FreedAtEnd, GraphTypes
  <2> QED
    BY <1>2, <2>1, <2>2 DEF GraphInv, FreedAtEnd
<1>18. Rooted(root)'
  <2>1. \A p \in Nodes : \A h \in 1 .. Slots :
          nextTasks'[p][h] \in Nodes \ Routines => root[nextTasks'[p][h]] = root[p]
    BY <1>3, <1>5, <1>7 DEF Rooted
  <2>2. ASSUME NEW e \in 1 .. (ordered + 1)
        PROVE  \/ Over(Edges[e][1])'
               \/ \E p \in Nodes : /\ root[p] = Edges[e][1]
                                   /\ \E h \in 1 .. Slots : nextTasks'[p][h] = Edges[e][2]
    <3>1. CASE e = ordered + 1
      BY <1>4, <1>5, <1>7, <3>1
    <3>2. CASE e # ordered + 1
      <4>1. e \in 1 .. ordered /\ e \in 1 .. Len(Edges)
        BY <1>6, <3>2, GraphNodes
      <4>2. Edges[e][1] \in Nodes /\ Edges[e][2] # Null
        BY <4>1, GraphNodes
      <4>3. ~Over(Edges[e][1])
        BY <1>2, <1>3, <4>2, OrderFacts DEF Over, Waiting
      <4>4. PICK p \in Nodes, h \in 1 .. Slots :
              root[p] = Edges[e][1] /\ nextTasks[p][h] = Edges[e][2]
        BY <1>3, <4>1, <4>3 DEF Rooted
      <4>5. nextTasks'[p][h] = Edges[e][2]
        BY <1>1, <1>4, <1>7, <4>2, <4>4
      <4> QED
        BY <4>4, <4>5
    <3> QED
      BY <3>1, <3>2
  <2> QED
    BY <1>2, <1>3, <1>13, <2>1, <2>2 DEF Rooted
<1> QED
  BY <1>13, <1>14, <1>15, <1>16, <1>17, <1>18 DEF GraphInv

LEMMA OrderJunctionKeeps == ASSUME GraphInv, OrderJunction PROVE GraphInv'
<1>0. PICK j : j = Junctions[junctions + 1]
  OBVIOUS
<1>1. /\ ordered < Len(Edges) /\ Full(From) /\ ~IsJunction(nextTasks[From][1])
      /\ junctions < Len(Junctions)
      /\ nextTasks' = [nextTasks EXCEPT ![j][1] = nextTasks[From][1], ![j][2] = To, ![From][1] = j]
      /\ lockCount' = [lockCount EXCEPT ![To] = lockCount[To] + 1]
      /\ junctions' = junctions + 1 /\ pendingCount' = pendingCount + 1
      /\ ordered' = ordered + 1 /\ orderFrom' = Null
      /\ UNCHANGED <<undispatched, execPc, deferred, freed, completed>>
  BY <1>0 DEF OrderJunction, DSet, OrderRest
<1>2. PICK root \in [Nodes -> Nodes] : Rooted(root)
  BY DEF GraphInv
<1>3. PICK f \in Nodes : f = From /\ f \in Made /\ root[f] = Edges[ordered + 1][1]
  BY <1>1, <1>2, OrderFacts
<1>4. PICK t \in Nodes : t = To /\ t \in Routines /\ t \in Made /\ t = Edges[ordered + 1][2]
  BY <1>1, <1>2, OrderFacts
<1>5. PICK u \in Nodes : u = nextTasks[f][1] /\ u \in Routines
  BY <1>1, <1>3, GraphNodes DEF IsJunction
<1>6. /\ ordered \in Nat /\ ordered + 1 \in 1 .. Len(Edges) /\ ordered' \in 0 .. Len(Edges)
      /\ junctions \in Nat /\ junctions + 1 \in 1 .. Len(Junctions)
      /\ junctions' \in 0 .. Len(Junctions)
  <2>1. ordered \in 0 .. Len(Edges) /\ junctions \in 0 .. Len(Junctions)
    BY DEF GraphInv, GraphTypes
  <2> QED
    BY <1>1, <2>1, GraphNodes
<1>7. /\ j \in Nodes \ Routines /\ j \notin Made /\ Made' = Made \cup {j}
      /\ Made \subseteq Nodes /\ Routines \subseteq Made
  <2>1. j \in Nodes \ Routines
    BY <1>0, <1>6, GraphNodes
  <2>2. ASSUME NEW i \in 1 .. junctions PROVE j # Junctions[i]
    <3>1. i \in DOMAIN Junctions /\ junctions + 1 \in DOMAIN Junctions /\ i # junctions + 1
      BY <1>6, DispatcherAssumption
    <3> QED
      BY <1>0, <3>1, DispatcherAssumption
  <2>3. 1 .. junctions' = (1 .. junctions) \cup {junctions + 1}
    BY <1>1, <1>6
  <2>4. Made' = Made \cup {j}
    BY <1>0, <2>3 DEF Made
  <2> QED
    BY <2>1, <2>2, <2>4, MadeNodes DEF Made, GraphInv
<1>8. /\ Refs(j) = {} /\ lockCount[j] = 1 /\ \A h \in 1 .. Slots : nextTasks[j][h] = Null
  BY <1>7 DEF GraphInv, GraphBuilt
<1>9. j # f /\ j # t /\ j # u
  BY <1>3, <1>4, <1>5, <1>7
<1>10. /\ nextTasks' \in [Nodes -> [1 .. Slots -> Nodes \cup {Null}]]
       /\ \A m \in Nodes, h \in 1 .. Slots :
            nextTasks'[m][h] = IF m = j /\ h = 1 THEN u ELSE IF m = j /\ h = 2 THEN t
                               ELSE IF m = f /\ h = 1 THEN j ELSE nextTasks[m][h]
  <2>1. /\ nextTasks \in [Nodes -> [1 .. Slots -> Nodes \cup {Null}]]
        /\ nextTasks' = [nextTasks EXCEPT ![j][1] = u, ![j][2] = t, ![f][1] = j]
    BY <1>1, <1>3, <1>4, <1>5 DEF GraphInv, GraphTypes
  <2>2. PICK g1 : g1 = [nextTasks EXCEPT ![j][1] = u]
    OBVIOUS
  <2>3. /\ g1 \in [Nodes -> [1 .. Slots -> Nodes \cup {Null}]]
        /\ \A m \in Nodes, h \in 1 .. Slots :
             g1[m][h] = IF m = j /\ h = 1 THEN u ELSE nextTasks[m][h]
    BY <1>7, <2>1, <2>2, SlotStored, GraphNodes
  <2>4. PICK g2 : g2 = [g1 EXCEPT ![j][2] = t]
    OBVIOUS
  <2>5. /\ g2 \in [Nodes -> [1 .. Slots -> Nodes \cup {Null}]]
        /\ \A m \in Nodes, h \in 1 .. Slots : g2[m][h] = IF m = j /\ h = 2 THEN t ELSE g1[m][h]
    BY <1>7, <2>3, <2>4, SlotStored, GraphNodes
  <2>6. nextTasks' = [g2 EXCEPT ![f][1] = j]
    BY <2>1, <2>2, <2>4
  <2>7. /\ nextTasks' \in [Nodes -> [1 .. Slots -> Nodes \cup {Null}]]
        /\ \A m \in Nodes, h \in 1 .. Slots : nextTasks'[m][h] = IF m = f /\ h = 1 THEN j ELSE g2[m][h]
    BY <1>7, <2>5, <2>6, SlotStored, GraphNodes
  <2> QED
    BY <1>9, <2>3, <2>5, <2>7
<1>11. /\ lockCount' \in [Nodes -> Nat]
       /\ \A m \in Nodes : lockCount'[m] = IF m = t THEN lockCount[m] + 1 ELSE lockCount[m]
  <2>1. lockCount \in [Nodes -> Nat] /\ lockCount' = [lockCount EXCEPT ![t] = lockCount[t] + 1]
    BY <1>1, <1>4 DEF GraphInv, GraphTypes
  <2> QED
    BY <2>1
<1> DEFINE Moved(m) == IF m = u THEN (Refs(m) \ {<<f, 1>>}) \cup {<<j, 1>>} ELSE Refs(m)
<1>12. ASSUME NEW m \in Nodes \ {j}
       PROVE  Refs(m)' = IF m = t THEN Moved(m) \cup {<<j, 2>>} ELSE Moved(m)
  <2>1. ASSUME NEW s \in Nodes \X (1 .. Slots)
        PROVE  (nextTasks'[s[1]][s[2]] = m) <=>
                 \/ nextTasks[s[1]][s[2]] = m /\ s # <<f, 1>>
                 \/ m = u /\ s = <<j, 1>>
                 \/ m = t /\ s = <<j, 2>>
    BY <1>3, <1>5, <1>7, <1>8, <1>9, <1>10, GraphNodes
  <2>2. m # u => <<f, 1>> \notin Refs(m)
    BY <1>5 DEF Refs
  <2>3. <<j, 1>> \in Nodes \X (1 .. Slots) /\ <<j, 2>> \in Nodes \X (1 .. Slots)
    BY <1>7, GraphNodes
  <2> QED
    BY <2>1, <2>2, <2>3 DEF Refs
<1>13. Refs(j)' = {<<f, 1>>}
  <2>1. \A s \in Nodes \X (1 .. Slots) : (nextTasks'[s[1]][s[2]] = j) <=> s = <<f, 1>>
    BY <1>8, <1>9, <1>10 DEF Refs
  <2>2. <<f, 1>> \in Nodes \X (1 .. Slots)
    BY GraphNodes
  <2> QED
    BY <2>1, <2>2 DEF Refs
<1>14. ASSUME NEW m \in Nodes \ {j}
       PROVE  /\ Cardinality(Refs(m)) \in Nat
              /\ Cardinality(Refs(m)') = Cardinality(Refs(m)) + (IF m = t THEN 1 ELSE 0)
  <2>1. Refs(m) \subseteq Nodes \X (1 .. Slots)
    BY DEF Refs
  <2>2. IsFiniteSet(Refs(m)) /\ Cardinality(Refs(m)) \in Nat
    BY <2>1, GraphFinite
  <2>3. <<j, 1>> \notin Refs(m) /\ <<j, 2>> \notin Refs(m) /\ <<j, 1>> # <<j, 2>>
    BY <1>8, GraphNodes DEF Refs
  <2>4. IsFiniteSet(Moved(m)) /\ Cardinality(Moved(m)) = Cardinality(Refs(m))
    <3>1. CASE m = u
      <4>1. <<f, 1>> \in Refs(m)
        BY <1>5, <3>1, GraphNodes DEF Refs
      <4>2. /\ IsFiniteSet(Refs(m) \ {<<f, 1>>})
            /\ Cardinality(Refs(m) \ {<<f, 1>>}) = Cardinality(Refs(m)) - 1
        BY <2>2, <4>1, FS_RemoveElement
      <4>3. <<j, 1>> \notin Refs(m) \ {<<f, 1>>}
        BY <2>3
      <4>4. /\ IsFiniteSet((Refs(m) \ {<<f, 1>>}) \cup {<<j, 1>>})
            /\ Cardinality((Refs(m) \ {<<f, 1>>}) \cup {<<j, 1>>}) = Cardinality(Refs(m) \ {<<f, 1>>}) + 1
        BY <4>2, <4>3, FS_AddElement
      <4> QED
        BY <2>2, <3>1, <4>2, <4>4
    <3>2. CASE m # u
      BY <2>2, <3>2
    <3> QED
      BY <3>1, <3>2
  <2>5. <<j, 2>> \notin Moved(m)
    BY <2>3
  <2> HIDE DEF Moved
  <2> QED
    BY <1>12, <2>2, <2>4, <2>5, FS_AddElement
<1>15. Staged' /\ \A n \in Nodes : Waiting(n)' /\ Waiting(n)
  BY <1>1, OrderStageKeeps
<1>16. GraphTypes'
  <2>1. pendingCount' \in Nat
    BY <1>1 DEF GraphInv, GraphTypes
  <2> QED
    BY <1>1, <1>6, <1>10, <1>11, <2>1 DEF GraphInv, GraphTypes
<1>17. GraphBuilt'
  <2>1. ASSUME NEW n \in Nodes \ Made'
        PROVE  /\ lockCount'[n] = 1 /\ Refs(n)' = {}
               /\ \A h \in 1 .. Slots : nextTasks'[n][h] = Null
    <3>1. n \in Nodes \ Made /\ n # f /\ n # t /\ n # u /\ n # j
      BY <1>3, <1>4, <1>5, <1>7
    <3>2. /\ lockCount[n] = 1 /\ Refs(n) = {}
          /\ \A h \in 1 .. Slots : nextTasks[n][h] = Null
      BY <3>1 DEF GraphInv, GraphBuilt
    <3>3. Refs(n)' = {}
      BY <1>12, <3>1, <3>2
    <3> QED
      BY <1>10, <1>11, <3>1, <3>2, <3>3
  <2>2. undispatched' = Routines
    BY <1>1 DEF GraphInv, GraphBuilt
  <2> QED
    BY <1>15, <2>1, <2>2 DEF GraphBuilt
<1>18. LocksCounted'
  <2> SUFFICES ASSUME NEW n \in Made'
               PROVE  lockCount'[n] = Cardinality(Refs(n)') + (IF n \in undispatched THEN 1 ELSE 0)
    BY <1>1 DEF LocksCounted
  <2>1. CASE n = j
    <3>1. j \notin undispatched
      BY <1>7 DEF GraphInv, GraphTypes
    <3>2. Cardinality(Refs(j)') = 1
      BY <1>13, FS_Singleton
    <3>3. lockCount'[j] = 1
      BY <1>7, <1>8, <1>9, <1>11
    <3> QED
      BY <2>1, <3>1, <3>2, <3>3
  <2>2. CASE n # j
    <3>1. n \in Made /\ n \in Nodes \ {j}
      BY <1>7, <2>2
    <3>2. lockCount[n] = Cardinality(Refs(n)) + (IF n \in undispatched THEN 1 ELSE 0)
      BY <1>15, <3>1 DEF GraphInv, LocksCounted
    <3> QED
      BY <1>11, <1>14, <3>1, <3>2
  <2> QED
    BY <2>1, <2>2
<1>19. FreedAtEnd'
  <2>1. freed[j] = 0
    BY <1>1, <1>2, <1>7, OrderFacts DEF GraphInv, FreedAtEnd, Waiting
  <2>2. NotFreed' = NotFreed \cup {j} /\ j \notin NotFreed /\ NotFreed \subseteq Nodes
    BY <1>1, <1>7, <2>1 DEF NotFreed
  <2>3. IsFiniteSet(NotFreed) /\ Cardinality(NotFreed) \in Nat
    BY <2>2, GraphFinite
  <2>4. Cardinality(NotFreed') = Cardinality(NotFreed) + 1
    BY <2>2, <2>3, FS_AddElement
  <2>5. ~(completed > 0)
    BY <1>1 DEF GraphInv, FreedAtEnd
  <2> QED
    BY <1>1, <2>4, <2>5 DEF GraphInv, FreedAtEnd
<1>20. PICK newRoot \in [Nodes -> Nodes] :
         newRoot[j] = root[f] /\ \A m \in Nodes \ {j} : newRoot[m] = root[m]
  <2>1. /\ [root EXCEPT ![j] = root[f]] \in [Nodes -> Nodes]
        /\ [root EXCEPT ![j] = root[f]][j] = root[f]
        /\ \A m \in Nodes \ {j} : [root EXCEPT ![j] = root[f]][m] = root[m]
    BY <1>7
  <2> QED
    BY <2>1
<1>21. Rooted(newRoot)'
  <2>1. \A r \in Routines : newRoot[r] = r
    BY <1>2, <1>7, <1>20 DEF Rooted
  <2>2. ASSUME NEW p \in Nodes, NEW h \in 1 .. Slots, nextTasks'[p][h] \in Nodes \ Routines
        PROVE  newRoot[nextTasks'[p][h]] = newRoot[p]
    <3>1. CASE p = j
      BY <1>4, <1>5, <1>8, <1>10, <2>2, <3>1, GraphNodes
    <3>2. CASE p = f /\ h = 1
      BY <1>9, <1>10, <1>20, <3>2
    <3>3. CASE p # j /\ ~(p = f /\ h = 1)
      <4>1. nextTasks'[p][h] = nextTasks[p][h]
        BY <1>10, <3>3
      <4>2. nextTasks[p][h] # j
        <5>1. <<p, h>> \notin Refs(j)
          BY <1>8
        <5> QED
          BY <5>1 DEF Refs
      <4>3. root[nextTasks[p][h]] = root[p]
        BY <1>2, <2>2, <4>1 DEF Rooted
      <4> QED
        BY <1>20, <2>2, <3>3, <4>1, <4>2, <4>3
    <3> QED
      BY <3>1, <3>2, <3>3
  <2>3. ASSUME NEW e \in 1 .. (ordered + 1)
        PROVE  \E p \in Nodes : /\ newRoot[p] = Edges[e][1]
                                /\ \E h \in 1 .. Slots : nextTasks'[p][h] = Edges[e][2]
    <3>1. CASE e = ordered + 1
      <4>1. newRoot[j] = Edges[e][1] /\ nextTasks'[j][2] = Edges[e][2]
        BY <1>3, <1>4, <1>7, <1>10, <1>20, <3>1, GraphNodes
      <4> QED
        BY <1>7, <4>1, GraphNodes
    <3>2. CASE e # ordered + 1
      <4>1. e \in 1 .. ordered /\ e \in 1 .. Len(Edges)
        BY <1>6, <3>2, GraphNodes
      <4>2. Edges[e][1] \in Nodes /\ Edges[e][2] \in Nodes /\ Edges[e][2] # Null
        BY <4>1, GraphNodes
      <4>3. ~Over(Edges[e][1])
        BY <1>1, <1>2, <4>2, OrderFacts DEF Over, Waiting
      <4>4. PICK p \in Nodes, h \in 1 .. Slots :
              root[p] = Edges[e][1] /\ nextTasks[p][h] = Edges[e][2]
        BY <1>2, <4>1, <4>3 DEF Rooted
      <4>5. p # j
        BY <1>8, <4>2, <4>4
      <4>6. CASE p = f /\ h = 1
        <5>1. newRoot[j] = Edges[e][1] /\ nextTasks'[j][1] = Edges[e][2]
          BY <1>5, <1>7, <1>10, <1>20, <4>4, <4>6, GraphNodes
        <5> QED
          BY <1>7, <5>1, GraphNodes
      <4>7. CASE ~(p = f /\ h = 1)
        <5>1. newRoot[p] = Edges[e][1] /\ nextTasks'[p][h] = Edges[e][2]
          BY <1>10, <1>20, <4>4, <4>5, <4>7
        <5> QED
          BY <5>1
      <4> QED
        BY <4>6, <4>7
    <3> QED
      BY <3>1, <3>2
  <2> QED
    BY <1>1, <1>15, <2>1, <2>2, <2>3 DEF Rooted
<1> QED
  BY <1>15, <1>16, <1>17, <1>18, <1>19, <1>20, <1>21 DEF GraphInv

LEMMA GraphKeeps ==
  ASSUME LateCompletion
  PROVE  GraphInv /\ [DispatcherNext]_dispatcherVars => GraphInv'
<1> SUFFICES ASSUME GraphInv, [DispatcherNext]_dispatcherVars PROVE GraphInv'
  OBVIOUS
<1>1. CASE OrderSlot      BY <1>1, OrderSlotKeeps
<1>2. CASE OrderDescend   BY <1>2, OrderDescendKeeps
<1>3. CASE OrderJunction  BY <1>3, OrderJunctionKeeps
<1>4. ASSUME NEW n \in Nodes, DispatchHandle(n) \/ CallRoutine(n) \/ CoroutineEnds(n)
      PROVE  GraphInv'
  BY <1>4, LateCompletion, DispatchHandleKeeps, CallRoutineKeeps, CoroutineEndsKeeps
<1>5. ASSUME NEW n \in Nodes, NEW k \in {1, 2},
             LoadLock(n, k) \/ MarkOver(n, k) \/ DispatchNext(n, k) \/ FreeNode(n, k)
      PROVE  GraphInv'
  BY <1>5, ExecStepKeeps, DispatchNextKeeps, FreeNodeKeeps
<1>6. CASE UNCHANGED dispatcherVars
  <2>1. UNCHANGED <<lockCount, nextTasks, ordered, orderFrom, junctions, undispatched,
                    execPc, deferred, freed, pendingCount, completed>>
    BY <1>6 DEF dispatcherVars
  <2>2. Made' = Made /\ \A m : Refs(m)' = Refs(m)
    BY <2>1 DEF Made, Refs
  <2>3. GraphTypes' /\ GraphBuilt' /\ LocksCounted'
    BY <2>1, <2>2 DEF GraphInv, GraphTypes, GraphBuilt, LocksCounted, Waiting
  <2>4. Staged' /\ FreedAtEnd'
    BY <2>1, <2>2 DEF GraphInv, Staged, Stage, Waiting, FreedAtEnd, NotFreed
  <2>5. PICK root \in [Nodes -> Nodes] : Rooted(root)
    BY DEF GraphInv
  <2>6. Rooted(root)'
    BY <2>1, <2>2, <2>5 DEF Rooted, Waiting, Over
  <2> QED
    BY <2>3, <2>4, <2>6 DEF GraphInv
<1> QED
  BY <1>1, <1>2, <1>3, <1>4, <1>5, <1>6 DEF DispatcherNext

LEMMA GraphRight == GraphInv => GraphInOrder
<1> SUFFICES ASSUME GraphInv PROVE GraphInOrder
  OBVIOUS
<1>1. RunsInOrder
  <2> SUFFICES ASSUME ordered = Len(Edges), NEW e \in 1 .. Len(Edges),
                      execPc[Edges[e][2]][1] # "none"
               PROVE  lockCount[Edges[e][1]] >= Forever - 1 /\ Edges[e][1] \notin deferred
    BY DispatcherAssumption DEF RunsInOrder
  <2>1. PICK u, v \in Nodes : u = Edges[e][1] /\ v = Edges[e][2]
    BY GraphNodes
  <2>2. Refs(v) = {}
    BY <2>1 DEF GraphInv, Staged, Waiting
  <2>3. PICK root \in [Nodes -> Nodes] : Rooted(root)
    BY DEF GraphInv
  <2>4. ~\E p \in Nodes, i \in 1 .. Slots : nextTasks[p][i] = v
    <3>1. ASSUME NEW p \in Nodes, NEW i \in 1 .. Slots, nextTasks[p][i] = v PROVE FALSE
      <4>1. <<p, i>> \in Refs(v)
        BY <3>1 DEF Refs
      <4> QED
        BY <2>2, <4>1
    <3> QED
      BY <3>1
  <2>5. Over(u)
    BY <2>1, <2>3, <2>4 DEF Rooted
  <2>6. lockCount[u] = Forever /\ u \notin deferred
    BY <2>5 DEF GraphInv, Staged, Stage, Over
  <2> QED
    BY <2>1, <2>6 DEF Forever
<1>2. NodesFreedOnce
  <2>1. \A n \in Nodes : freed[n] <= 1
    BY DEF GraphInv, FreedAtEnd
  <2>2. ASSUME completed > 0, NEW n \in Routines PROVE freed[n] = 1
    <3>1. n \in Made /\ n \in Nodes /\ NotFreed \subseteq Nodes
      BY MadeNodes DEF GraphInv, NotFreed
    <3>2. IsFiniteSet(NotFreed) /\ Cardinality(NotFreed) = 0
      BY <2>2, <3>1, GraphFinite DEF GraphInv, FreedAtEnd
    <3>3. freed[n] # 0
      BY <3>1, <3>2, FS_EmptySet DEF NotFreed
    <3> QED
      BY <3>1, <3>3 DEF GraphInv, FreedAtEnd
  <2> QED
    BY <2>1, <2>2 DEF NodesFreedOnce
<1> QED
  BY <1>1, <1>2 DEF GraphInOrder

-----------------------------------------------------------------------------
(* The composition                                                           *)

\* A step of the composition is a step of every part, or a stutter of it.
LEMMA PartSteps ==
  ASSUME [CoNext]_allVars
  PROVE  /\ [EventNext]_eventVars /\ [PipeNext]_pipeVars /\ [QuotaNext]_quotaVars
         /\ [AwaitableNext]_awaitableVars /\ [CoroutineNext]_coroutineVars
         /\ [SwitchNext]_switchVars /\ [SelectNext]_selectVars
         /\ [DispatcherNext]_dispatcherVars
<1> USE DEF syncVars, coVars
<1>1. CASE InEvent(EventNext)            BY <1>1 DEF InEvent
<1>2. CASE InPipe(PipeNext)              BY <1>2 DEF InPipe
<1>3. CASE InBarrier(BarrierNext)        BY <1>3 DEF InBarrier
<1>4. CASE InQuota(QuotaNext)            BY <1>4 DEF InQuota
<1>5. CASE InAwaitable(AwaitableNext)    BY <1>5 DEF InAwaitable
<1>6. CASE InCoroutine(CoroutineNext)    BY <1>6 DEF InCoroutine
<1>7. CASE InSwitch(SwitchNext)          BY <1>7 DEF InSwitch
<1>8. CASE InSelect(SelectNext)          BY <1>8 DEF InSelect
<1>9. CASE InDispatcher(DispatcherNext)  BY <1>9 DEF InDispatcher
<1>10. CASE UNCHANGED allVars            BY <1>10 DEF allVars
<1> QED
  BY <1>1, <1>2, <1>3, <1>4, <1>5, <1>6, <1>7, <1>8, <1>9, <1>10 DEF CoNext

(***************************************************************************)
(* For any number of coroutines and any capacity: nobody stays in the list *)
(* of an iris_event_t that is signaled, because await_suspend() tests the  *)
(* flag again under the lock that set() swaps the list with; and, when all *)
(* ask for the same amount, nobody stays in the list of an                 *)
(* iris_quota_queue_t whose quota is there, although an acquire() that     *)
(* fails half way hides quota from the others for a moment.                *)
(***************************************************************************)
THEOREM WakeupsKept == ASSUME SameRequests PROVE CoSpec => []NoWakeupMissed
<1>1. CoInit => EventInv /\ QuotaInv
  BY EventStarts, QuotaStarts DEF CoInit
<1>2. EventInv /\ QuotaInv /\ [CoNext]_allVars => (EventInv /\ QuotaInv)'
  BY EventKeeps, QuotaKeeps, PartSteps, SameRequests
<1>3. EventInv /\ QuotaInv => NoWakeupMissed
  BY EventRight, QuotaRight DEF NoWakeupMissed
<1> QED
  BY <1>1, <1>2, <1>3, PTL DEF CoSpec

(***************************************************************************)
(* For any number of coroutines and kinds, any capacity and any requests,  *)
(* the same or not: iris_quota_t's atomics and what the coroutines have    *)
(* out always add up to the capacity, although an acquire() takes and      *)
(* returns kind by kind while others look, partial releases and merges     *)
(* move amounts, and release() takes quota for a coroutine that has not    *)
(* been resumed yet.                                                       *)
(***************************************************************************)
THEOREM QuotaKept == CoSpec => []QuotaConserved
<1>1. CoInit => QuotaShape /\ EmptyHanded /\ Counted
  BY QuotaStarts, CountStarts DEF CoInit, QuotaInv
<1>2. QuotaShape /\ EmptyHanded /\ Counted /\ [CoNext]_allVars
        => (QuotaShape /\ EmptyHanded /\ Counted)'
  BY ShapeKept, CountKept, PartSteps
<1>3. QuotaShape /\ EmptyHanded /\ Counted => QuotaConserved
  BY DEF Counted, QuotaConserved
<1> QED
  BY <1>1, <1>2, <1>3, PTL DEF CoSpec

(***************************************************************************)
(* top() of iris_pipe_t's list never meets an empty list; a coroutine that *)
(* dispatches before it awaits from a warp (or runs the function at once)  *)
(* never destroys an awaitable somebody still uses; a frame is not         *)
(* destroyed with return_value() in it.                                    *)
(***************************************************************************)
THEOREM NothingLeft == ASSUME SafelyDispatched PROVE CoSpec => []NothingDangles
<1>1. CoInit => PipeInv /\ AwaitInv /\ FrameInv
  BY PipeStarts, AwaitStarts, FrameStarts DEF CoInit
<1>2. PipeInv /\ AwaitInv /\ FrameInv /\ [CoNext]_allVars => (PipeInv /\ AwaitInv /\ FrameInv)'
  BY PipeKeeps, AwaitKeeps, FrameKeeps, PartSteps
<1>3. PipeInv /\ AwaitInv /\ FrameInv => NothingDangles
  BY PipeRight, AwaitableOutlives, FrameRight, SafelyDispatched DEF NothingDangles
<1> QED
  BY <1>1, <1>2, <1>3, PTL DEF CoSpec

(***************************************************************************)
(* However dispatch(), await_suspend() and the target warp interleave, the *)
(* awaited function is called at most once, and has been when co_await     *)
(* returns; its coroutine is resumed at most once, and never left          *)
(* suspended by an awaitable that has ended.                               *)
(***************************************************************************)
THEOREM ResultsAwaited == CoSpec => []AwaitsResult
<1>1. CoInit => AwaitInv
  BY AwaitStarts DEF CoInit
<1>2. AwaitInv /\ [CoNext]_allVars => AwaitInv'
  BY AwaitKeeps, PartSteps
<1> QED
  BY <1>1, <1>2, AwaitRight, PTL DEF CoSpec

(***************************************************************************)
(* For any number of warps and coroutines: iris_switch() puts a coroutine  *)
(* on the warps it asked for and on no warp somebody else is on, and       *)
(* iris_select() resumes it once, on one warp of its list.                 *)
(***************************************************************************)
THEOREM MovesExclusive == CoSpec => []MovedOnce
<1>1. CoInit => SwitchInv /\ SelectInv
  BY SwitchStarts, SelectStarts DEF CoInit
<1>2. SwitchInv /\ SelectInv /\ [CoNext]_allVars => (SwitchInv /\ SelectInv)'
  BY SwitchKeeps, SelectKeeps, PartSteps
<1>3. SwitchInv /\ SelectInv => MovedOnce
  BY SwitchRight, SelectRight DEF MovedOnce
<1> QED
  BY <1>1, <1>2, <1>3, PTL DEF CoSpec

(***************************************************************************)
(* For any graph of routines and any number of slots, when a deferring     *)
(* routine's coroutine ends after execute() has looked at lock_count: a    *)
(* routine of iris_dispatcher_t runs only when all those ordered before it *)
(* are over, although order() moved successors behind junctions; every     *)
(* node is destroyed at most once and dispatcher_complete() comes after    *)
(* the last one.                                                           *)
(***************************************************************************)
THEOREM GraphKept == ASSUME LateCompletion PROVE CoSpec => []GraphInOrder
<1>1. CoInit => GraphInv
  BY GraphStarts DEF CoInit
<1>2. GraphInv /\ [CoNext]_allVars => GraphInv'
  BY GraphKeeps, PartSteps, LateCompletion
<1> QED
  BY <1>1, <1>2, GraphRight, PTL DEF CoSpec

=============================================================================
