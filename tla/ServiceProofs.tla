--------------------------- MODULE ServiceProofs ---------------------------
(***************************************************************************)
(* The services of ngx_lua_cpp_t for any number of coroutines, threads,    *)
(* consumers, jobs and calls.  As in CoroutineProofs each service has its  *)
(* own inductive invariant and a step of MCServices is a step of one       *)
(* service and a stutter of the others.                                    *)
(***************************************************************************)
EXTENDS MCServices, TLAPS, SequenceTheorems, FiniteSetTheorems

-----------------------------------------------------------------------------
(* Lifecycle                                                                 *)

\* stop() goes on only when the coroutines have left what it is about to take
\* away: the threads, then the pool, then main_warp.
LifeInv ==
    /\ task \in [Tasks -> {"none", "queued", "thread", "posted", "end"}]
    /\ home \in [Tasks -> Nat] /\ warpMade \in Nat /\ threads \in Nat
    /\ pool = "running" => lifeMain = "idle"
    /\ pool = "terminated" <=> lifeMain \in {"join", "poll"}
    /\ lifeMain \in {"idle", "join", "poll", "drain"}
    /\ pool \in {"none", "running", "terminated"}
    /\ HomeOutlives /\ StopLeavesNothing
    /\ lifeMain = "poll" => \A c \in Tasks : task[c] # "thread"
    /\ lifeMain = "drain" => \A c \in Tasks : task[c] \notin {"thread", "queued"}
    /\ lifeMain \in {"poll", "drain"} => threads = 0

LEMMA LifeStarts == LifecycleInit => LifeInv
<1> SUFFICES ASSUME LifecycleInit PROVE LifeInv
  OBVIOUS
<1> QED
  BY LifecycleAssumption DEF LifecycleInit, LifeInv, HomeOutlives, StopLeavesNothing

\* A coroutine that leaves main_warp, or goes on in it, leaves nothing in a pool
\* that is not there.
LEMMA LeaveKeeps ==
  ASSUME LifeInv, NEW c \in Tasks, NextTrip(c) \/ LeaveFor(c)
  PROVE  /\ task' \in [Tasks -> {"none", "queued", "thread", "posted", "end"}]
         /\ \A d \in Tasks \ {c} : task'[d] = task[d]
         /\ task'[c] = "end" \/ (pool # "none" /\ task'[c] = "queued")
<1>1. CASE Over(c)
  BY <1>1 DEF Over, TaskGoto, LifeInv
<1>2. CASE pool # "none" /\ TaskGoto(c, "queued")
  BY <1>2 DEF TaskGoto, LifeInv
<1> QED
  BY <1>1, <1>2 DEF NextTrip, LeaveFor, LifeInv

LEMMA LifeKeeps == LifeInv /\ [LifecycleNext]_lifeVars => LifeInv'
<1> SUFFICES ASSUME LifeInv, [LifecycleNext]_lifeVars PROVE LifeInv'
  OBVIOUS
<1> USE DEF LifeInv, HomeOutlives, StopLeavesNothing
<1>1. ASSUME NEW c \in Tasks, CallTask(c) PROVE LifeInv'
  BY <1>1, LeaveKeeps DEF CallTask
<1>2. ASSUME NEW c \in Tasks, Fetch(c) PROVE LifeInv'
  BY <1>2 DEF Fetch, TaskGoto
<1>3. ASSUME NEW c \in Tasks, GoHome(c) PROVE LifeInv'
  BY <1>3 DEF GoHome, TaskGoto
<1>4. ASSUME NEW c \in Tasks, PollWarp(c) PROVE LifeInv'
  BY <1>4, LeaveKeeps DEF PollWarp
<1>5. ASSUME NEW c \in Tasks, PollWorker(c) PROVE LifeInv'
  BY <1>5, LeaveKeeps DEF PollWorker
<1>6. ASSUME NEW n \in ThreadCounts, Start(n) PROVE LifeInv'
  BY <1>6, LifecycleAssumption DEF Start
<1>7. CASE SetAsyncWorker
  BY <1>7 DEF SetAsyncWorker
<1>8. CASE Terminate
  BY <1>8 DEF Terminate
<1>9. CASE ThreadsJoined
  BY <1>9 DEF ThreadsJoined
<1>10. CASE PolledOut
  BY <1>10 DEF PolledOut
<1>11. CASE ResetMainWarp
  BY <1>11 DEF ResetMainWarp
<1>12. CASE UNCHANGED lifeVars
  BY <1>12 DEF lifeVars
<1> QED
  BY <1>1, <1>2, <1>3, <1>4, <1>5, <1>6, <1>7, <1>8, <1>9, <1>10, <1>11, <1>12 DEF LifecycleNext

-----------------------------------------------------------------------------
(* Lua's yield and resume through nginx's queue                              *)

\* The nodes between the head and the head: placeholders of this pass, and the
\* events of coroutines resumed by C++.
Digging == {c \in LuaCos : \E i \in 1 .. Len(pendingCtxs) : pendingCtxs[i] = c}
InRing == Digging \cup {c \in LuaCos : luaPc[c] = "resumed"}

Ring(S, next, prev) ==
    /\ next \in [QNodes -> QNodes] /\ prev \in [QNodes -> QNodes]
    /\ QHead \in S /\ S \subseteq QNodes
    /\ \A x \in S : /\ next[prev[x]] = x /\ prev[next[x]] = x
                    /\ next[x] \in S /\ prev[x] \in S

YieldTypes ==
    /\ phase \in {"handlers", "dig", "poll", "posted"}
    /\ posted \in [LuaCos -> BOOLEAN] /\ delayed \in [LuaCos -> BOOLEAN]
    /\ pendingCtxs \in Seq(LuaCos)
    /\ luaPc \in [LuaCos -> {"run", "yielded", "resumed"}] /\ cppOver \subseteq LuaCos
    /\ registry \in [LuaCos -> Nat] /\ luaCalls \in [LuaCos -> Nat]

\* A placeholder is dug out before its coroutine can be resumed, and until then
\* its event is one that nginx must not run in this pass.
YieldCo(c) ==
    /\ posted[c] <=> luaPc[c] # "run"
    /\ c \in Digging => luaPc[c] = "yielded"
    /\ c \in cppOver => luaPc[c] = "yielded"
    /\ c \in Digging /\ phase \in {"handlers", "posted"} => delayed[c]
    /\ luaPc[c] # "run" => luaCalls[c] > 0
    /\ luaPc[c] = "resumed" => registry[c] = luaCalls[c]
    /\ luaPc[c] # "resumed" => registry[c] = 0

PendingOnce ==
    \A i, j \in 1 .. Len(pendingCtxs) : pendingCtxs[i] = pendingCtxs[j] => i = j

YieldInv ==
    /\ YieldTypes /\ Ring(InRing \cup {QHead}, qNext, qPrev) /\ PendingOnce
    /\ \A c \in LuaCos : YieldCo(c)
    /\ phase = "poll" => pendingCtxs = <<>>

\* What every mode of ngx_queue_insert_tail() and ngx_queue_remove() promises.
LEMMA InsertKeeps ==
  ASSUME NEW S, Ring(S, qNext, qPrev), NEW x \in QNodes \ S, QueueInsertTail(x)
  PROVE  Ring(S \cup {x}, qNext', qPrev')
  BY DEF Ring, QueueInsertTail

LEMMA RemoveKeeps ==
  ASSUME NEW S, Ring(S, qNext, qPrev), NEW x \in S \ {QHead}, QueueRemove(x)
  PROVE  Ring(S \ {x}, qNext', qPrev')
  BY DEF Ring, QueueRemove, Unlinked

LEMMA YieldStarts == YieldInit => YieldInv
<1> SUFFICES ASSUME YieldInit PROVE YieldInv
  OBVIOUS
<1>1. Digging = {} /\ InRing = {}
  BY DEF Digging, InRing, YieldInit
<1>2. Ring({QHead}, qNext, qPrev)
  BY DEF Ring, YieldInit, QNodes
<1>3. YieldTypes
  BY DEF YieldInit, YieldTypes
<1>4. PendingOnce
  BY DEF YieldInit, PendingOnce
<1>5. \A c \in LuaCos : YieldCo(c)
  BY <1>1 DEF YieldInit, YieldCo
<1>6. Ring(InRing \cup {QHead}, qNext, qPrev)
  BY <1>1, <1>2
<1>7. phase # "poll"
  BY DEF YieldInit
<1> QED
  BY <1>3, <1>4, <1>5, <1>6, <1>7 DEF YieldInv

LEMMA YieldKeeps == ~StopAtOnce /\ YieldInv /\ [YieldNext]_yieldVars => YieldInv'
<1> SUFFICES ASSUME ~StopAtOnce, YieldInv, [YieldNext]_yieldVars PROVE YieldInv'
  OBVIOUS
<1>a. /\ YieldTypes /\ Ring(InRing \cup {QHead}, qNext, qPrev) /\ PendingOnce
      /\ \A c \in LuaCos : YieldCo(c)
      /\ phase = "poll" => pendingCtxs = <<>>
  BY DEF YieldInv
<1>1. ASSUME NEW c \in LuaCos, LuaYield(c) PROVE YieldInv'
  <2>1. /\ phase \in {"handlers", "posted"} /\ luaPc[c] = "run" /\ ~posted[c]
        /\ QueueInsertTail(c) /\ pendingCtxs' = Append(pendingCtxs, c)
        /\ posted' = [posted EXCEPT ![c] = TRUE] /\ delayed' = [delayed EXCEPT ![c] = TRUE]
        /\ luaPc' = [luaPc EXCEPT ![c] = "yielded"]
        /\ luaCalls' = [luaCalls EXCEPT ![c] = @ + 1]
        /\ phase' = phase /\ cppOver' = cppOver /\ registry' = registry
    BY <1>1, <1>a DEF LuaYield, NgxSleep, YieldCo
  <2>2. c \notin InRing /\ c \notin Digging /\ c \notin cppOver
    BY <1>a, <2>1 DEF InRing, YieldCo
  <2>3. /\ pendingCtxs' \in Seq(LuaCos) /\ Len(pendingCtxs') = Len(pendingCtxs) + 1
        /\ \A i \in 1 .. Len(pendingCtxs) : pendingCtxs'[i] = pendingCtxs[i]
        /\ pendingCtxs'[Len(pendingCtxs) + 1] = c
        /\ Len(pendingCtxs) \in Nat
    BY <1>a, <2>1 DEF YieldTypes
  <2>d. Digging' = Digging \cup {c}
    BY <2>3 DEF Digging
  <2>4. InRing' = InRing \cup {c}
    BY <1>a, <2>1, <2>d DEF InRing, YieldTypes
  <2>5. Ring((InRing \cup {QHead})', qNext', qPrev')
    <3>1. c \in QNodes \ (InRing \cup {QHead})
      BY <2>2, YieldAssumption DEF QNodes
    <3>2. Ring((InRing \cup {QHead}) \cup {c}, qNext', qPrev')
      BY <1>a, <2>1, <3>1, InsertKeeps
    <3> QED
      BY <2>4, <3>2
  <2>6. PendingOnce'
    BY <1>a, <2>2, <2>3 DEF PendingOnce, Digging
  <2>7. YieldTypes'
    BY <1>a, <2>1, <2>3 DEF YieldTypes
  <2>8. \A d \in LuaCos : YieldCo(d)'
    BY <1>a, <2>1, <2>2, <2>d DEF YieldCo, YieldTypes
  <2> QED
    BY <2>1, <2>5, <2>6, <2>7, <2>8 DEF YieldInv
<1>2. ASSUME NEW c \in LuaCos, CppEnds(c) PROVE YieldInv'
  <2>1. Digging' = Digging /\ InRing' = InRing
    BY <1>2 DEF CppEnds, Digging, InRing
  <2>2. \A d \in LuaCos : YieldCo(d)'
    BY <1>2, <1>a, <2>1 DEF CppEnds, YieldCo
  <2>3. YieldTypes' /\ PendingOnce'
    BY <1>2, <1>a DEF CppEnds, YieldTypes, PendingOnce
  <2> QED
    BY <1>2, <1>a, <2>1, <2>2, <2>3 DEF CppEnds, YieldInv
<1>3. ASSUME NEW c \in LuaCos, CppResume(c) PROVE YieldInv'
  <2>1. /\ phase = "poll" /\ pendingCtxs = <<>> /\ luaPc[c] = "yielded"
        /\ pendingCtxs' = pendingCtxs /\ phase' = phase
    BY <1>3, <1>a DEF CppResume, YieldCo
  <2>2. Digging = {} /\ Digging' = {}
    BY <2>1 DEF Digging
  <2>3. InRing' = InRing \cup {c} /\ c \notin InRing
    BY <1>3, <1>a, <2>1, <2>2 DEF CppResume, InRing, YieldTypes
  <2>4. Ring((InRing \cup {QHead})', qNext', qPrev')
    <3>1. c \in QNodes \ (InRing \cup {QHead})
      BY <2>3, YieldAssumption DEF QNodes
    <3>2. Ring((InRing \cup {QHead}) \cup {c}, qNext', qPrev')
      BY <1>3, <1>a, <3>1, InsertKeeps DEF CppResume
    <3> QED
      BY <2>3, <3>2
  <2>5. YieldTypes' /\ PendingOnce'
    BY <1>3, <1>a DEF CppResume, YieldTypes, PendingOnce
  <2>6. \A d \in LuaCos : YieldCo(d)'
    BY <1>3, <1>a, <2>1, <2>2 DEF CppResume, YieldCo, YieldTypes
  <2> QED
    BY <2>1, <2>4, <2>5, <2>6 DEF YieldInv
<1>4. CASE DigOut /\ pendingCtxs = <<>>
  <2>1. Digging' = Digging /\ InRing' = InRing
    BY <1>4 DEF DigOut, Digging, InRing
  <2>2. YieldTypes' /\ PendingOnce'
    BY <1>4, <1>a DEF DigOut, YieldTypes, PendingOnce
  <2>3. \A d \in LuaCos : YieldCo(d)'
    BY <1>4, <1>a, <2>1 DEF DigOut, YieldCo
  <2> QED
    BY <1>4, <1>a, <2>1, <2>2, <2>3 DEF DigOut, YieldInv
<1>5. CASE DigOut /\ pendingCtxs # <<>>
  <2>1. PICK c \in LuaCos : c = Head(pendingCtxs) /\ c = pendingCtxs[1]
    BY <1>5, <1>a DEF YieldTypes
  <2>2. /\ QueueRemove(c) /\ pendingCtxs' = Tail(pendingCtxs) /\ phase = "dig"
        /\ phase' = phase /\ posted' = posted /\ delayed' = delayed /\ luaPc' = luaPc
        /\ cppOver' = cppOver /\ registry' = registry /\ luaCalls' = luaCalls
    BY <1>5, <2>1 DEF DigOut
  <2>3. /\ pendingCtxs' \in Seq(LuaCos) /\ Len(pendingCtxs') = Len(pendingCtxs) - 1
        /\ \A i \in 1 .. Len(pendingCtxs') : pendingCtxs'[i] = pendingCtxs[i + 1]
        /\ Len(pendingCtxs) \in Nat /\ Len(pendingCtxs) > 0
    BY <1>5, <1>a, <2>2 DEF YieldTypes
  <2>4. Digging' = Digging \ {c} /\ c \in Digging
    <3>1. \A i \in 1 .. Len(pendingCtxs) : pendingCtxs[i] = c => i = 1
      BY <1>a, <2>1, <2>3 DEF PendingOnce
    <3>3. ASSUME NEW d \in Digging' PROVE d \in Digging /\ d # c
      <4>1. PICK i \in 1 .. Len(pendingCtxs') : pendingCtxs'[i] = d
        BY <3>3 DEF Digging
      <4>2. i + 1 \in 1 .. Len(pendingCtxs) /\ i + 1 # 1 /\ pendingCtxs[i + 1] = d
        BY <2>3, <4>1
      <4> QED
        BY <3>1, <3>3, <4>2 DEF Digging
    <3>4. ASSUME NEW d \in Digging, d # c PROVE d \in Digging'
      <4>1. PICK i \in 1 .. Len(pendingCtxs) : pendingCtxs[i] = d
        BY DEF Digging
      <4>2. i # 1
        BY <2>1, <3>4, <4>1
      <4>3. i - 1 \in 1 .. Len(pendingCtxs') /\ (i - 1) + 1 = i
        BY <2>3, <4>2
      <4>4. pendingCtxs'[i - 1] = d
        BY <2>3, <4>1, <4>3
      <4> QED
        BY <4>3, <4>4 DEF Digging
    <3>5. c \in Digging
      BY <2>1, <2>3 DEF Digging
    <3> QED
      BY <3>3, <3>4, <3>5
  <2>5. InRing' = InRing \ {c} /\ c \in InRing
    BY <1>a, <2>2, <2>4 DEF InRing, YieldCo
  <2>6. Ring((InRing \cup {QHead})', qNext', qPrev')
    <3>1. c \in (InRing \cup {QHead}) \ {QHead}
      BY <2>5, YieldAssumption
    <3>2. Ring((InRing \cup {QHead}) \ {c}, qNext', qPrev')
      BY <1>a, <2>2, <3>1, RemoveKeeps
    <3> QED
      BY <2>5, <3>1, <3>2
  <2>7. PendingOnce'
    <3>1. ASSUME NEW i \in 1 .. Len(pendingCtxs'), NEW j \in 1 .. Len(pendingCtxs'),
                 pendingCtxs'[i] = pendingCtxs'[j]
          PROVE  i = j
      <4>1. i + 1 \in 1 .. Len(pendingCtxs) /\ j + 1 \in 1 .. Len(pendingCtxs)
        BY <2>3
      <4>2. i + 1 = j + 1
        BY <1>a, <2>3, <3>1, <4>1 DEF PendingOnce
      <4> QED
        BY <4>2
    <3> QED
      BY <3>1 DEF PendingOnce
  <2>8. YieldTypes'
    BY <1>a, <2>2, <2>3 DEF YieldTypes
  <2>9. \A d \in LuaCos : YieldCo(d)'
    BY <1>a, <2>2, <2>4 DEF YieldCo
  <2> QED
    BY <2>2, <2>6, <2>7, <2>8, <2>9 DEF YieldInv
<1>6. CASE RunPosted
  <2>1. PICK c \in LuaCos : c = qNext[QHead] /\ c \in InRing
    BY <1>6, <1>a DEF RunPosted, Ring, QNodes
  <2>2. phase = "posted" /\ ~delayed[c] /\ c \notin Digging
    BY <1>6, <1>a, <2>1 DEF RunPosted, YieldCo
  <2>3. luaPc[c] = "resumed" /\ registry[c] # 0
    <3>1. luaPc[c] = "resumed"
      BY <2>1, <2>2 DEF InRing
    <3>2. registry[c] = luaCalls[c] /\ luaCalls[c] > 0 /\ luaCalls[c] \in Nat
      BY <1>a, <3>1 DEF YieldCo, YieldTypes
    <3> QED
      BY <3>1, <3>2
  <2>4. /\ QueueRemove(c) /\ posted' = [posted EXCEPT ![c] = FALSE]
        /\ luaPc' = [luaPc EXCEPT ![c] = "run"] /\ registry' = [registry EXCEPT ![c] = 0]
        /\ delayed' = delayed /\ pendingCtxs' = pendingCtxs /\ phase' = phase
        /\ cppOver' = cppOver /\ luaCalls' = luaCalls
    BY <1>6, <2>1, <2>3 DEF RunPosted
  <2>5. Digging' = Digging
    BY <2>4 DEF Digging
  <2>d. InRing' = InRing \ {c}
    BY <1>a, <2>2, <2>4, <2>5 DEF InRing, YieldTypes
  <2>6. Ring((InRing \cup {QHead})', qNext', qPrev')
    <3>1. c \in (InRing \cup {QHead}) \ {QHead}
      BY <2>1, YieldAssumption
    <3>2. Ring((InRing \cup {QHead}) \ {c}, qNext', qPrev')
      BY <1>a, <2>4, <3>1, RemoveKeeps
    <3> QED
      BY <2>d, <3>1, <3>2
  <2>7. YieldTypes' /\ PendingOnce'
    BY <1>a, <2>4 DEF YieldTypes, PendingOnce
  <2>8. \A d \in LuaCos : YieldCo(d)'
    BY <1>a, <2>2, <2>3, <2>4, <2>5 DEF YieldCo, YieldTypes
  <2> QED
    BY <2>2, <2>4, <2>6, <2>7, <2>8 DEF YieldInv
<1>7. CASE Pass
  <2>1. Digging' = Digging /\ InRing' = InRing
    BY <1>7 DEF Pass, Digging, InRing
  <2>2. /\ qNext' = qNext /\ qPrev' = qPrev /\ posted' = posted /\ pendingCtxs' = pendingCtxs
        /\ luaPc' = luaPc /\ cppOver' = cppOver /\ registry' = registry /\ luaCalls' = luaCalls
    BY <1>7 DEF Pass
  <2>3. /\ phase' \in {"handlers", "dig", "posted"} /\ delayed' \in [LuaCos -> BOOLEAN]
        /\ phase' = "dig" \/ (delayed' = delayed /\ phase' = "posted" /\ phase = "handlers")
                          \/ (delayed' = delayed /\ phase' = "handlers" /\ phase = "poll")
    BY <1>7, <1>a DEF Pass, NextPhase, YieldTypes
  <2>4. phase = "poll" => Digging = {}
    BY <1>a DEF Digging
  <2>5. YieldTypes' /\ PendingOnce'
    BY <1>a, <2>2, <2>3 DEF YieldTypes, PendingOnce
  <2>6. \A d \in LuaCos : YieldCo(d)'
    BY <1>a, <2>1, <2>2, <2>3, <2>4 DEF YieldCo
  <2> QED
    BY <1>a, <2>1, <2>2, <2>3, <2>5, <2>6 DEF YieldInv
<1>8. CASE UNCHANGED yieldVars
  <2>1. Digging' = Digging /\ InRing' = InRing
    BY <1>8 DEF yieldVars, Digging, InRing
  <2>2. YieldTypes' /\ PendingOnce'
    BY <1>8, <1>a DEF yieldVars, YieldTypes, PendingOnce
  <2>3. \A d \in LuaCos : YieldCo(d)'
    BY <1>8, <1>a, <2>1 DEF yieldVars, YieldCo
  <2> QED
    BY <1>8, <1>a, <2>1, <2>2, <2>3 DEF yieldVars, YieldInv
<1> QED
  BY <1>1, <1>2, <1>3, <1>4, <1>5, <1>6, <1>7, <1>8 DEF YieldNext

LEMMA YieldRight == YieldInv => YieldsPaired
<1> SUFFICES ASSUME YieldInv PROVE YieldsPaired
  OBVIOUS
<1>1. QueueWellFormed
  <2>1. {c \in LuaCos : \E i \in DOMAIN pendingCtxs : pendingCtxs[i] = c}
           \cup {c \in LuaCos : luaPc[c] = "resumed"} = InRing
    BY DEF InRing, Digging, YieldInv, YieldTypes
  <2>2. Ring(InRing \cup {QHead}, qNext, qPrev) /\ QHead \notin LuaCos
    BY YieldAssumption DEF YieldInv
  <2> QED
    BY <2>1, <2>2 DEF Ring, QueueWellFormed
<1>2. ResumedByCpp
  <2>1. ASSUME NEW c \in LuaCos PROVE luaPc[c] # "error" /\ registry[c] \in {0, luaCalls[c]}
    BY DEF YieldInv, YieldTypes, YieldCo
  <2> QED
    BY <2>1 DEF ResumedByCpp
<1> QED
  BY <1>1, <1>2 DEF YieldsPaired

-----------------------------------------------------------------------------
(* The event bus                                                             *)

JobStatuses == {"queued", "running", "failed", "done"}
Payloads == {"any"} \cup (Numbers \X JobStatuses \X Nat)
BusEvents == [id : Nat, payload : Payloads]

Ascending(s) == \A i, j \in 1 .. Len(s) : i < j => s[i].id < s[j].id
Below(s, id) == \A i \in 1 .. Len(s) : s[i].id <= id

\* The queue of a topic is the end of what was published to it, all of it or the
\* last BusBound events.
Kept(q, all) ==
    /\ Len(q) <= BusBound /\ Len(q) <= Len(all)
    /\ Len(q) < BusBound => Len(q) = Len(all)
    /\ \A i \in 1 .. Len(q) : q[i] = all[i + (Len(all) - Len(q))]

\* What a consumer that has come to id was given or was too late for.
LaterOnes(all, i, id) == {j \in 1 .. Len(all) : i < j /\ all[j].id <= id}
Served(got, all, id) ==
    /\ Ascending(got) /\ Below(got, id)
    /\ \A k \in 1 .. Len(got) : \E i \in 1 .. Len(all) : got[k] = all[i]
    /\ \A i \in 1 .. Len(all) : all[i].id <= id =>
         \/ \E k \in 1 .. Len(got) : got[k] = all[i]
         \/ Cardinality(LaterOnes(all, i, id)) >= BusBound

BusTypes ==
    /\ nextId \in Nat \ {0}
    /\ topics \in [Topics -> Seq(BusEvents)] /\ published \in [Topics -> Seq(BusEvents)]
    /\ cursor \in [Feeds -> Nat] /\ fed \in [Feeds -> Seq(BusEvents)]

TopicInv(t) ==
    Kept(topics[t], published[t]) /\ Ascending(published[t]) /\ Below(published[t], nextId - 1)

FeedInv(c) == cursor[c] < nextId /\ Served(fed[c], published[FeedTopic[c]], cursor[c])

BusInv == BusTypes /\ (\A t \in Topics : TopicInv(t)) /\ (\A c \in Feeds : FeedInv(c))

\* The queue of pub(), with its bound.
LEMMA KeptAppend ==
  ASSUME NEW q \in Seq(BusEvents), NEW all \in Seq(BusEvents), Kept(q, all), NEW e \in BusEvents,
         NEW r, r = IF Len(Append(q, e)) > BusBound THEN Tail(Append(q, e)) ELSE Append(q, e)
  PROVE  r \in Seq(BusEvents) /\ Kept(r, Append(all, e))
<1> DEFINE m == Append(q, e)
<1>1. /\ m \in Seq(BusEvents) /\ Len(m) = Len(q) + 1 /\ m[Len(q) + 1] = e
      /\ \A i \in 1 .. Len(q) : m[i] = q[i]
      /\ Append(all, e) \in Seq(BusEvents) /\ Len(Append(all, e)) = Len(all) + 1
      /\ \A i \in 1 .. Len(all) : Append(all, e)[i] = all[i]
      /\ Append(all, e)[Len(all) + 1] = e
      /\ Len(q) \in Nat /\ Len(all) \in Nat /\ BusBound \in Nat \ {0}
  BY BusAssumption
<1>2. \A i \in 1 .. Len(m) : m[i] = Append(all, e)[i + (Len(all) - Len(q))]
  <2>1. ASSUME NEW i \in 1 .. Len(q) PROVE m[i] = Append(all, e)[i + (Len(all) - Len(q))]
    <3>1. i + (Len(all) - Len(q)) \in 1 .. Len(all)
      BY <1>1 DEF Kept
    <3> HIDE DEF m
    <3> QED
      BY <1>1, <3>1 DEF Kept
  <2>2. m[Len(q) + 1] = Append(all, e)[(Len(q) + 1) + (Len(all) - Len(q))]
    BY <1>1
  <2>3. \A i \in 1 .. Len(m) : i \in 1 .. Len(q) \/ i = Len(q) + 1
    BY <1>1
  <2> HIDE DEF m
  <2> QED
    BY <2>1, <2>2, <2>3
<1>3. CASE Len(m) <= BusBound
  <2>1. r = m
    BY <1>1, <1>3
  <2> DEFINE all2 == Append(all, e)
  <2> HIDE DEF m, all2
  <2>2. Len(all2) - Len(m) = Len(all) - Len(q) /\ Len(m) <= Len(all2)
        /\ (Len(m) < BusBound => Len(m) = Len(all2))
    BY <1>1 DEF Kept, all2
  <2>3. \A i \in 1 .. Len(m) : m[i] = all2[i + (Len(all2) - Len(m))]
    BY <1>2, <2>2 DEF all2
  <2>4. Kept(m, all2)
    BY <1>3, <2>2, <2>3 DEF Kept
  <2> QED
    BY <1>1, <2>1, <2>4 DEF all2
<1>4. CASE Len(m) > BusBound
  <2>1. r = Tail(m)
    BY <1>1, <1>4
  <2>2. Len(q) = BusBound
    BY <1>1, <1>4 DEF Kept
  <2> HIDE DEF m
  <2>3. /\ r \in Seq(BusEvents) /\ Len(r) = BusBound
        /\ \A i \in 1 .. BusBound : r[i] = m[i + 1]
    BY <1>1, <2>1, <2>2
  <2>4. \A i \in 1 .. BusBound :
          i + 1 \in 1 .. Len(m) /\ (i + 1) + (Len(all) - Len(q)) = i + ((Len(all) + 1) - BusBound)
    BY <1>1, <2>2
  <2>5. \A i \in 1 .. BusBound : r[i] = Append(all, e)[i + ((Len(all) + 1) - BusBound)]
    BY <1>2, <2>3, <2>4
  <2>6. BusBound <= Len(all) + 1
    BY <1>1, <2>2 DEF Kept
  <2> DEFINE all2 == Append(all, e)
  <2> HIDE DEF all2
  <2>7. Len(all2) = Len(all) + 1
    BY <1>1 DEF all2
  <2>8. \A i \in 1 .. Len(r) : r[i] = all2[i + (Len(all2) - Len(r))]
    BY <2>3, <2>5, <2>7 DEF all2
  <2>l. Len(r) <= BusBound /\ Len(r) <= Len(all2) /\ ~(Len(r) < BusBound)
    <3>1. BusBound \in Nat /\ Len(all) \in Nat
      BY <1>1
    <3> QED
      BY <2>3, <2>6, <2>7, <3>1
  <2>9. Kept(r, all2)
    BY <2>8, <2>l DEF Kept
  <2> QED
    BY <2>3, <2>9 DEF all2
<1> QED
  BY <1>1, <1>3, <1>4

\* What poll() copies is the end of the queue behind the cursor.
LEMMA NewerIsTail ==
  ASSUME NEW q \in Seq(BusEvents), Ascending(q), NEW id \in Nat
  PROVE  \E k \in 0 .. Len(q) : /\ Newer(q, id) = SubSeq(q, k + 1, Len(q))
                                /\ \A i \in 1 .. k : q[i].id <= id
                                /\ \A i \in (k + 1) .. Len(q) : q[i].id > id
<1> DEFINE S == {i \in 1 .. Len(q) : q[i].id <= id}
           k == Cardinality(S)
<1>1. Len(q) \in Nat /\ \A i \in 1 .. Len(q) : q[i].id \in Nat
  <2>1. \A i \in 1 .. Len(q) : q[i] \in BusEvents
    OBVIOUS
  <2> QED
    BY <2>1 DEF BusEvents
<1>2. IsFiniteSet(S) /\ k \in 0 .. Len(q)
  <2>1. IsFiniteSet(1 .. Len(q)) /\ Cardinality(1 .. Len(q)) = Len(q)
    BY <1>1, FS_Interval
  <2>2. S \in SUBSET (1 .. Len(q))
    OBVIOUS
  <2>3. IsFiniteSet(S) /\ Cardinality(S) <= Len(q)
    BY <2>1, <2>2, FS_Subset
  <2> QED
    BY <1>1, <2>3, FS_CardinalityType
<1>3. ASSUME NEW i \in S PROVE i \in 1 .. k
  <2>1. i \in 1 .. Len(q) /\ q[i].id <= id
    OBVIOUS
  <2>2. ASSUME NEW j \in 1 .. i PROVE j \in S
    <3>1. j \in 1 .. Len(q) /\ (j = i \/ j < i)
      BY <1>1, <2>1
    <3>2. q[j].id <= q[i].id
      BY <1>1, <2>1, <3>1 DEF Ascending
    <3> QED
      BY <1>1, <2>1, <3>1, <3>2
  <2>3. 1 .. i \in SUBSET S
    BY <2>2
  <2>4. Cardinality(1 .. i) = i
    BY <2>1, <1>1, FS_Interval
  <2>5. i <= k
    BY <1>2, <2>3, <2>4, FS_Subset
  <2> QED
    BY <1>1, <1>2, <2>1, <2>5
<1>4. S = 1 .. k
  <2>1. IsFiniteSet(1 .. k) /\ Cardinality(1 .. k) = k
    BY <1>1, <1>2, FS_Interval
  <2>2. S \in SUBSET (1 .. k)
    BY <1>3
  <2> QED
    BY <2>1, <2>2, FS_Subset
<1>5. Newer(q, id) = SubSeq(q, k + 1, Len(q))
  <2>1. {i \in DOMAIN q : q[i].id <= id} = S
    OBVIOUS
  <2> QED
    BY <2>1 DEF Newer
<1>6. \A i \in 1 .. k : q[i].id <= id
  BY <1>4
<1>7. \A i \in (k + 1) .. Len(q) : q[i].id > id
  <2>1. ASSUME NEW i \in (k + 1) .. Len(q) PROVE q[i].id > id
    <3>1. i \in 1 .. Len(q) /\ i \notin 1 .. k
      BY <1>1, <1>2
    <3> QED
      BY <1>1, <1>4, <3>1
  <2> QED
    BY <2>1
<1> HIDE DEF k
<1> QED
  BY <1>2, <1>5, <1>6, <1>7

\* pub()
LEMMA PubKeeps ==
  ASSUME BusInv, NEW t \in Topics, NEW payload \in Payloads, Pub(t, payload)
  PROVE  BusInv'
<1> DEFINE e == [id |-> nextId, payload |-> payload]
<1>a. BusTypes /\ (\A x \in Topics : TopicInv(x)) /\ (\A c \in Feeds : FeedInv(c))
  BY DEF BusInv
<1>b. e \in BusEvents /\ e.id = nextId /\ nextId \in Nat \ {0}
  BY <1>a DEF BusEvents, BusTypes
<1> HIDE DEF e
<1>1. /\ nextId' = nextId + 1 /\ cursor' = cursor /\ fed' = fed
      /\ topics' = [topics EXCEPT ![t] = IF Len(Append(topics[t], e)) > BusBound
                                         THEN Tail(Append(topics[t], e)) ELSE Append(topics[t], e)]
      /\ published' = [published EXCEPT ![t] = Append(@, e)]
  BY DEF Pub, e
<1>2. topics[t] \in Seq(BusEvents) /\ published[t] \in Seq(BusEvents) /\ TopicInv(t)
  BY <1>a DEF BusTypes
<1>3. topics'[t] = (IF Len(Append(topics[t], e)) > BusBound
                    THEN Tail(Append(topics[t], e)) ELSE Append(topics[t], e))
      /\ published'[t] = Append(published[t], e)
  BY <1>1, <1>a DEF BusTypes
<1>4. topics'[t] \in Seq(BusEvents) /\ Kept(topics'[t], published'[t])
  BY <1>2, <1>3, <1>b, KeptAppend DEF TopicInv
<1>5. \A x \in Topics \ {t} : topics'[x] = topics[x] /\ published'[x] = published[x]
  BY <1>1, <1>a DEF BusTypes
<1>6. /\ published'[t] \in Seq(BusEvents) /\ Len(published'[t]) = Len(published[t]) + 1
      /\ \A i \in 1 .. Len(published[t]) : published'[t][i] = published[t][i]
      /\ published'[t][Len(published[t]) + 1] = e
      /\ Len(published[t]) \in Nat
  BY <1>2, <1>3, <1>b
<1>7. BusTypes'
  <2>1. topics' \in [Topics -> Seq(BusEvents)] /\ published' \in [Topics -> Seq(BusEvents)]
    BY <1>1, <1>3, <1>4, <1>6, <1>a DEF BusTypes
  <2> QED
    BY <1>1, <1>a, <2>1 DEF BusTypes
<1>8. ASSUME NEW x \in Topics, NEW i \in 1 .. Len(published[x])
      PROVE  published[x][i].id \in Nat /\ published[x][i].id < nextId
  <2>1. published[x][i] \in BusEvents
    BY <1>a DEF BusTypes
  <2>2. published[x][i].id \in Nat
    BY <2>1 DEF BusEvents
  <2> QED
    BY <1>a, <1>b, <2>2 DEF TopicInv, Below
<1>9. ASSUME NEW x \in Topics PROVE TopicInv(x)'
  <2>1. CASE x # t
    <3>1. topics'[x] = topics[x] /\ published'[x] = published[x]
      BY <1>5, <2>1
    <3>2. Below(published'[x], nextId' - 1)
      BY <1>1, <1>8, <1>b, <3>1 DEF Below
    <3> QED
      BY <1>a, <3>1, <3>2 DEF TopicInv
  <2>2. CASE x = t
    <3>1. \A i \in 1 .. Len(published'[t]) :
             i \in 1 .. Len(published[t]) \/ i = Len(published[t]) + 1
      BY <1>6
    <3>2. Below(published'[t], nextId' - 1)
      BY <1>1, <1>6, <1>8, <1>b, <3>1 DEF Below
    <3>3. Ascending(published'[t])
      <4>1. ASSUME NEW i \in 1 .. Len(published'[t]), NEW j \in 1 .. Len(published'[t]), i < j
            PROVE  published'[t][i].id < published'[t][j].id
        <5>1. i \in 1 .. Len(published[t])
          BY <1>6, <4>1
        <5>2. CASE j \in 1 .. Len(published[t])
          BY <1>2, <1>6, <4>1, <5>1, <5>2 DEF TopicInv, Ascending
        <5>3. CASE j = Len(published[t]) + 1
          BY <1>6, <1>8, <1>b, <5>1, <5>3
        <5> QED
          BY <3>1, <5>2, <5>3
      <4> QED
        BY <4>1 DEF Ascending
    <3> QED
      BY <1>4, <2>2, <3>2, <3>3 DEF TopicInv
  <2> QED
    BY <2>1, <2>2
<1>10. ASSUME NEW c \in Feeds PROVE FeedInv(c)'
  <2>1. cursor'[c] = cursor[c] /\ fed'[c] = fed[c] /\ cursor[c] < nextId /\ cursor[c] \in Nat
    BY <1>1, <1>a DEF FeedInv, BusTypes
  <2>2. CASE FeedTopic[c] # t
    <3>1. published'[FeedTopic[c]] = published[FeedTopic[c]]
      BY <1>5, <2>2, BusAssumption
    <3> QED
      BY <1>1, <1>a, <1>b, <2>1, <3>1 DEF FeedInv
  <2>3. CASE FeedTopic[c] = t
    <3>1. Served(fed[c], published[t], cursor[c])
      BY <1>a, <2>3 DEF FeedInv
    <3>2. e.id > cursor[c]
      BY <1>b, <2>1
    <3>3. \A i \in 1 .. Len(published'[t]) :
             i \in 1 .. Len(published[t]) \/ (i = Len(published[t]) + 1)
      BY <1>6
    <3>4. \A i \in 1 .. Len(published[t]) : i \in 1 .. Len(published'[t])
      BY <1>6
    <3>5. \A i \in 1 .. Len(published[t]) :
             LaterOnes(published'[t], i, cursor[c]) = LaterOnes(published[t], i, cursor[c])
      BY <1>6, <2>1, <3>2, <3>3, <3>4, <1>b DEF LaterOnes
    <3>6. \A k \in 1 .. Len(fed[c]) : \E i \in 1 .. Len(published'[t]) :
             fed[c][k] = published'[t][i]
      BY <1>6, <3>1, <3>4 DEF Served
    <3>7. ASSUME NEW i \in 1 .. Len(published'[t]), published'[t][i].id <= cursor[c]
          PROVE  \/ \E k \in 1 .. Len(fed[c]) : fed[c][k] = published'[t][i]
                 \/ Cardinality(LaterOnes(published'[t], i, cursor[c])) >= BusBound
      <4>1. i \in 1 .. Len(published[t])
        BY <1>6, <1>b, <2>1, <3>2, <3>3, <3>7
      <4> QED
        BY <1>6, <3>1, <3>5, <3>7, <4>1 DEF Served
    <3>8. Served(fed[c], published'[t], cursor[c])
      BY <3>1, <3>6, <3>7 DEF Served
    <3> QED
      BY <1>1, <1>b, <2>1, <2>3, <3>8 DEF FeedInv
  <2> QED
    BY <2>2, <2>3
<1> QED
  BY <1>7, <1>9, <1>10 DEF BusInv

\* poll()
LEMMA EventsKeeps ==
  ASSUME BusInv, NEW c \in Feeds, Events(c)
  PROVE  BusInv'
<1> DEFINE t == FeedTopic[c]
           q == topics[t]
           all == published[t]
           got == fed[c]
           out == Newer(q, cursor[c])
<1>a. BusTypes /\ (\A x \in Topics : TopicInv(x)) /\ (\A d \in Feeds : FeedInv(d))
  BY DEF BusInv
<1>b. /\ t \in Topics /\ q \in Seq(BusEvents) /\ all \in Seq(BusEvents) /\ got \in Seq(BusEvents)
      /\ Kept(q, all) /\ Ascending(all) /\ Below(all, nextId - 1)
      /\ cursor[c] \in Nat /\ cursor[c] < nextId /\ Served(got, all, cursor[c])
      /\ nextId \in Nat
  BY <1>a, BusAssumption DEF BusTypes, TopicInv, FeedInv
<1>1. /\ out # <<>> /\ nextId' = nextId /\ topics' = topics /\ published' = published
      /\ fed' = [fed EXCEPT ![c] = got \o out]
      /\ cursor' = [cursor EXCEPT ![c] = out[Len(out)].id]
  BY DEF Events
<1> DEFINE L == Len(all) - Len(q)
<1> HIDE DEF t, q, all, got, out
<1>2. /\ Len(q) \in Nat /\ Len(all) \in Nat /\ L \in Nat /\ Len(got) \in Nat
      /\ \A i \in 1 .. Len(q) : i + L \in 1 .. Len(all) /\ q[i] = all[i + L]
  BY <1>b DEF Kept
<1>3. \A i \in 1 .. Len(all) : all[i].id \in Nat /\ all[i].id < nextId /\ all[i] \in BusEvents
  <2>1. \A i \in 1 .. Len(all) : all[i] \in BusEvents
    BY <1>b
  <2>2. \A i \in 1 .. Len(all) : all[i].id \in Nat
    BY <2>1 DEF BusEvents
  <2>3. \A i \in 1 .. Len(all) : all[i].id <= nextId - 1
    BY <1>b DEF Below
  <2> QED
    BY <1>b, <2>1, <2>2, <2>3
<1> HIDE DEF L
<1>4. Ascending(q)
  <2>1. ASSUME NEW i \in 1 .. Len(q), NEW j \in 1 .. Len(q), i < j PROVE q[i].id < q[j].id
    <3>1. i + L < j + L
      BY <1>2, <2>1
    <3> QED
      BY <1>2, <1>b, <3>1 DEF Ascending
  <2> QED
    BY <2>1 DEF Ascending
<1>5. PICK k \in 0 .. Len(q) : /\ out = SubSeq(q, k + 1, Len(q))
                               /\ \A i \in 1 .. k : q[i].id <= cursor[c]
                               /\ \A i \in (k + 1) .. Len(q) : q[i].id > cursor[c]
  BY <1>4, <1>b, NewerIsTail DEF out
<1>6. /\ out \in Seq(BusEvents) /\ Len(out) = Len(q) - k /\ k < Len(q)
      /\ \A i \in 1 .. Len(out) : i + k \in (k + 1) .. Len(q) /\ out[i] = q[i + k]
  <2>1. out \in Seq(BusEvents) /\ Len(out) = Len(q) - k
    BY <1>5, <1>2, <1>b
  <2>2. k # Len(q)
    BY <1>1, <1>2, <2>1
  <2>3. ASSUME NEW i \in 1 .. Len(out)
        PROVE  i + k \in (k + 1) .. Len(q) /\ out[i] = q[i + k]
    <3>1. i + k \in (k + 1) .. Len(q) /\ (k + 1) + i - 1 = i + k
      BY <1>2, <2>1
    <3>2. i \in 1 .. (Len(q) - (k + 1) + 1)
      BY <1>2, <2>1
    <3>3. SubSeq(q, k + 1, Len(q))[i] = q[(k + 1) + i - 1]
      BY <1>b, <1>2, <3>2
    <3> QED
      BY <1>5, <3>1, <3>3
  <2> QED
    BY <1>2, <2>1, <2>2, <2>3
<1> DEFINE new == out[Len(out)].id
<1>7. /\ \A i \in 1 .. Len(out) : (i + k) + L \in 1 .. Len(all) /\ out[i] = all[(i + k) + L]
      /\ \A i \in 1 .. Len(out) : out[i].id > cursor[c]
      /\ new = all[Len(all)].id /\ Len(all) > 0
  <2>1. \A i \in 1 .. Len(out) : i + k \in 1 .. Len(q) /\ out[i] = q[i + k]
    BY <1>6, <1>2
  <2>2. \A i \in 1 .. Len(out) : (i + k) + L \in 1 .. Len(all) /\ out[i] = all[(i + k) + L]
    BY <1>2, <2>1
  <2>3. \A i \in 1 .. Len(out) : out[i].id > cursor[c]
    BY <1>5, <1>6
  <2>4. Len(out) \in 1 .. Len(out) /\ (Len(out) + k) + L = Len(all)
    BY <1>2, <1>6 DEF L
  <2>e. out[Len(out)] = all[(Len(out) + k) + L] /\ (Len(out) + k) + L \in 1 .. Len(all)
    BY <2>2, <2>4
  <2>5. out[Len(out)] = all[Len(all)] /\ Len(all) > 0
    <3>1. out[Len(out)] = all[Len(all)]
      BY <2>4, <2>e
    <3>2. Len(all) > 0
      BY <1>2, <2>4, <2>e
    <3> QED
      BY <3>1, <3>2
  <2> QED
    BY <2>2, <2>3, <2>5
<1> HIDE DEF new
<1>8. /\ \A i \in 1 .. Len(all) : all[i].id <= new
      /\ new \in Nat /\ new < nextId /\ new > cursor[c]
  <2>1. Len(all) \in 1 .. Len(all)
    BY <1>2, <1>7
  <2>2. new \in Nat /\ new < nextId
    BY <1>3, <1>7, <2>1
  <2>3. ASSUME NEW i \in 1 .. Len(all) PROVE all[i].id <= new
    <3>1. CASE i = Len(all)
      BY <1>7, <2>2, <3>1
    <3>2. CASE i < Len(all)
      <4>1. all[i].id < all[Len(all)].id
        BY <1>b, <2>1, <3>2 DEF Ascending
      <4> QED
        BY <1>3, <1>7, <2>2, <4>1
    <3> QED
      BY <1>2, <3>1, <3>2
  <2>4. new > cursor[c]
    <3>1. Len(out) \in 1 .. Len(out)
      BY <1>2, <1>6
    <3> QED
      BY <1>7, <3>1 DEF new
  <2> QED
    BY <2>2, <2>3, <2>4
<1> DEFINE both == got \o out
<1>9. /\ both \in Seq(BusEvents) /\ Len(both) = Len(got) + Len(out)
      /\ \A i \in 1 .. Len(got) : both[i] = got[i]
      /\ \A i \in 1 .. Len(out) : both[Len(got) + i] = out[i]
      /\ \A i \in 1 .. Len(both) : \/ i \in 1 .. Len(got)
                                   \/ i - Len(got) \in 1 .. Len(out) /\ both[i] = out[i - Len(got)]
  <2>0. /\ both \in Seq(BusEvents) /\ Len(both) = Len(got) + Len(out)
        /\ \A i \in 1 .. Len(got) + Len(out) :
             both[i] = IF i <= Len(got) THEN got[i] ELSE out[i - Len(got)]
    BY <1>6, <1>b, ConcatProperties
  <2>l. Len(out) \in Nat
    BY <1>2, <1>6
  <2>1. /\ both \in Seq(BusEvents) /\ Len(both) = Len(got) + Len(out)
        /\ \A i \in 1 .. Len(got) : both[i] = got[i]
    <3> HIDE DEF both
    <3> QED
      BY <1>2, <2>0, <2>l
  <2>2. ASSUME NEW i \in 1 .. Len(both), i \notin 1 .. Len(got)
        PROVE  i - Len(got) \in 1 .. Len(out) /\ both[i] = out[i - Len(got)]
    <3> HIDE DEF both
    <3> QED
      BY <1>2, <2>0, <2>2, <2>l
  <2>3. ASSUME NEW i \in 1 .. Len(out) PROVE both[Len(got) + i] = out[i]
    <3>1. /\ Len(got) + i \in 1 .. Len(both) /\ Len(got) + i \notin 1 .. Len(got)
          /\ (Len(got) + i) - Len(got) = i
      BY <1>2, <1>6, <2>1
    <3> QED
      BY <2>2, <3>1
  <2> HIDE DEF both
  <2> QED
    BY <2>1, <2>2, <2>3
<1> HIDE DEF both
<1>10. \A i \in 1 .. Len(got) : got[i].id <= cursor[c] /\ got[i].id \in Nat
  <2>1. \A i \in 1 .. Len(got) : got[i] \in BusEvents
    BY <1>b
  <2>2. \A i \in 1 .. Len(got) : got[i].id \in Nat
    BY <2>1 DEF BusEvents
  <2> QED
    BY <1>b, <2>2 DEF Served, Below
<1>11. \A i \in 1 .. Len(out) : out[i].id \in Nat /\ out[i].id <= new
  BY <1>3, <1>7, <1>8
<1>12. Ascending(both)
  <2>1. ASSUME NEW i \in 1 .. Len(both), NEW j \in 1 .. Len(both), i < j
        PROVE  both[i].id < both[j].id
    <3>1. CASE i \in 1 .. Len(got) /\ j \in 1 .. Len(got)
      BY <1>9, <1>b, <2>1, <3>1 DEF Served, Ascending
    <3>2. CASE i \in 1 .. Len(got) /\ j - Len(got) \in 1 .. Len(out) /\ both[j] = out[j - Len(got)]
      <4>1. both[i].id <= cursor[c] /\ both[i].id \in Nat
        BY <1>9, <1>10, <3>2
      <4>2. both[j].id > cursor[c] /\ both[j].id \in Nat
        BY <1>7, <1>11, <3>2
      <4> QED
        BY <1>b, <4>1, <4>2
    <3>3. CASE /\ i - Len(got) \in 1 .. Len(out) /\ both[i] = out[i - Len(got)]
               /\ j - Len(got) \in 1 .. Len(out) /\ both[j] = out[j - Len(got)]
      <4>1. ((i - Len(got)) + k) + L < ((j - Len(got)) + k) + L
        BY <1>2, <1>6, <2>1
      <4> QED
        BY <1>7, <1>b, <3>3, <4>1 DEF Ascending
    <3>4. CASE i - Len(got) \in 1 .. Len(out) /\ j \in 1 .. Len(got)
      BY <1>2, <2>1, <3>4
    <3> QED
      BY <1>9, <3>1, <3>2, <3>3, <3>4
  <2> QED
    BY <2>1 DEF Ascending
<1>13. Below(both, new)
  <2>1. ASSUME NEW i \in 1 .. Len(both) PROVE both[i].id <= new
    <3>1. CASE i \in 1 .. Len(got)
      <4>1. both[i].id <= cursor[c] /\ both[i].id \in Nat
        BY <1>9, <1>10, <3>1
      <4> QED
        BY <1>8, <1>b, <4>1
    <3>2. CASE i - Len(got) \in 1 .. Len(out) /\ both[i] = out[i - Len(got)]
      BY <1>11, <3>2
    <3> QED
      BY <1>9, <3>1, <3>2
  <2> QED
    BY <2>1 DEF Below
<1>14. \A i \in 1 .. Len(both) : \E j \in 1 .. Len(all) : both[i] = all[j]
  <2>1. ASSUME NEW i \in 1 .. Len(both) PROVE \E j \in 1 .. Len(all) : both[i] = all[j]
    <3>1. CASE i \in 1 .. Len(got)
      BY <1>9, <1>b, <3>1 DEF Served
    <3>2. CASE i - Len(got) \in 1 .. Len(out) /\ both[i] = out[i - Len(got)]
      BY <1>7, <3>2
    <3> QED
      BY <1>9, <3>1, <3>2
  <2> QED
    BY <2>1
<1>15. ASSUME NEW i \in 1 .. Len(all)
       PROVE  \/ \E j \in 1 .. Len(both) : both[j] = all[i]
              \/ Cardinality(LaterOnes(all, i, new)) >= BusBound
  <2>f. /\ IsFiniteSet(LaterOnes(all, i, new)) /\ Cardinality(LaterOnes(all, i, new)) \in Nat
    <3>1. IsFiniteSet(1 .. Len(all)) /\ LaterOnes(all, i, new) \in SUBSET (1 .. Len(all))
      BY <1>2, FS_Interval DEF LaterOnes
    <3> QED
      BY <3>1, FS_Subset, FS_CardinalityType
  <2>1. CASE all[i].id <= cursor[c]
    <3>1. LaterOnes(all, i, cursor[c]) \in SUBSET LaterOnes(all, i, new)
      BY <1>8, <1>b, <1>3 DEF LaterOnes
    <3>2. CASE \E j \in 1 .. Len(got) : got[j] = all[i]
      <4>1. PICK j \in 1 .. Len(got) : got[j] = all[i]
        BY <3>2
      <4>2. j \in 1 .. Len(both) /\ both[j] = all[i]
        BY <1>2, <1>6, <1>9, <4>1
      <4> QED
        BY <4>2
    <3>3. CASE Cardinality(LaterOnes(all, i, cursor[c])) >= BusBound
      <4>1. Cardinality(LaterOnes(all, i, cursor[c])) <= Cardinality(LaterOnes(all, i, new))
        BY <2>f, <3>1, FS_Subset
      <4>2. Cardinality(LaterOnes(all, i, cursor[c])) \in Nat
        BY <2>f, <3>1, FS_Subset, FS_CardinalityType
      <4> QED
        BY <2>f, <3>3, <4>1, <4>2, BusAssumption
    <3> QED
      BY <1>b, <2>1, <3>2, <3>3 DEF Served
  <2>2. CASE all[i].id > cursor[c] /\ i > L
    <3>1. i - L \in 1 .. Len(q) /\ (i - L) + L = i
      BY <1>2, <2>2 DEF L
    <3>2. q[i - L] = all[i]
      BY <1>2, <3>1
    <3>3. i - L \notin 1 .. k
      BY <1>5, <1>3, <1>b, <2>2, <3>2
    <3>4. (i - L) - k \in 1 .. Len(out) /\ ((i - L) - k) + k = i - L
      BY <1>2, <1>6, <3>1, <3>3
    <3>5. out[(i - L) - k] = all[i]
      BY <1>6, <3>2, <3>4
    <3>6. Len(got) + ((i - L) - k) \in 1 .. Len(both)
      BY <1>2, <1>9, <3>4
    <3> QED
      BY <1>9, <3>4, <3>5, <3>6
  <2>3. CASE i <= L
    <3>1. Len(q) = BusBound /\ BusBound \in Nat \ {0}
      BY <1>2, <1>b, <2>3, BusAssumption DEF Kept, L
    <3>2. (L + 1) .. Len(all) \in SUBSET LaterOnes(all, i, new)
      BY <1>2, <1>8, <2>3 DEF LaterOnes
    <3>3. Cardinality((L + 1) .. Len(all)) = Len(q)
      <4>1. L + 1 \in Int /\ Len(all) \in Int /\ ~(L + 1 > Len(all))
            /\ Len(all) - (L + 1) + 1 = Len(q)
        BY <1>2, <3>1 DEF L
      <4>2. Cardinality((L + 1) .. Len(all)) = IF L + 1 > Len(all) THEN 0
                                               ELSE Len(all) - (L + 1) + 1
        BY <4>1, FS_Interval
      <4> QED
        BY <4>1, <4>2
    <3>4. Cardinality((L + 1) .. Len(all)) <= Cardinality(LaterOnes(all, i, new))
      BY <2>f, <3>2, FS_Subset
    <3> QED
      BY <2>f, <3>1, <3>3, <3>4
  <2> QED
    BY <1>2, <1>3, <1>b, <2>1, <2>2, <2>3
<1>16. Served(both, all, new)
  BY <1>12, <1>13, <1>14, <1>15 DEF Served
<1>17. fed'[c] = both /\ cursor'[c] = new
  BY <1>1, <1>a DEF BusTypes, both, new
<1>18. BusTypes'
  <2>1. fed' = [fed EXCEPT ![c] = both] /\ cursor' = [cursor EXCEPT ![c] = new]
    BY <1>1 DEF both, new
  <2> QED
    BY <1>1, <1>8, <1>9, <1>a, <2>1 DEF BusTypes
<1>19. \A x \in Topics : TopicInv(x)'
  BY <1>1, <1>a DEF TopicInv
<1>20. ASSUME NEW d \in Feeds PROVE FeedInv(d)'
  <2>1. CASE d = c
    BY <1>1, <1>8, <1>16, <1>17, <2>1 DEF FeedInv, all, t
  <2>2. CASE d # c
    <3>1. fed'[d] = fed[d] /\ cursor'[d] = cursor[d]
      BY <1>1, <1>a, <2>2 DEF BusTypes
    <3> QED
      BY <1>1, <1>a, <3>1 DEF FeedInv
  <2> QED
    BY <2>1, <2>2
<1> QED
  BY <1>18, <1>19, <1>20 DEF BusInv

-----------------------------------------------------------------------------
(* The job queue                                                             *)

\* The strings of the job ids sort as their numbers do: true as long as no
\* number has more than IdWidth digits.
IdsInOrder ==
    \A x, y \in 1 .. (FirstJob + Submits) : x < y => IdLess(x, y) /\ ~IdLess(y, x)

Reports == published["jobs"]
RankOf(e) == IF e.payload[2] = "running" THEN e.payload[3] ELSE Steps(e.payload[1]) + 1

JobTypes ==
    /\ jobCounter \in FirstJob .. (FirstJob + Submits)
    /\ jobPc \in [Numbers -> {"none", "pool", "report", "step", "main", "finish", "end"}]
    /\ jobStatus \in [Numbers -> {"none"} \cup JobStatuses] /\ jobProgress \in [Numbers -> Nat]

\* run_job() is at its step.
JobAt(n) ==
    /\ jobPc[n] = "none" <=> n > jobCounter
    /\ jobPc[n] \in {"none", "pool", "report"} => jobProgress[n] = 0
    /\ jobPc[n] \in {"step", "main"} => jobProgress[n] < Steps(n)
    /\ jobPc[n] \in {"finish", "end"} => jobProgress[n] = Steps(n)

\* What was reported is not ahead of what is recorded.
Told(e) ==
    LET n == e.payload[1] IN
    /\ e.payload \in Numbers \X JobStatuses \X Nat
    /\ jobPc[n] \notin {"none", "pool", "report"}
    /\ e.payload[2] = "running" => e.payload[3] <= jobProgress[n]
    /\ e.payload[2] # "running" => jobPc[n] = "end" /\ e.payload[2] = jobStatus[n]

ReportsRise ==
    \A i, j \in 1 .. Len(Reports) :
      i < j /\ Reports[i].payload[1] = Reports[j].payload[1] => RankOf(Reports[i]) < RankOf(Reports[j])

JobInv ==
    /\ BusInv /\ JobTypes /\ KeepsNewest /\ (\A n \in Numbers : JobAt(n))
    /\ (\A i \in 1 .. Len(Reports) : Told(Reports[i])) /\ ReportsRise

LEMMA StepsType == \A n \in Numbers : n \in Nat /\ Steps(n) \in Nat
<1> SUFFICES ASSUME NEW n \in Numbers PROVE n \in Nat /\ Steps(n) \in Nat
  OBVIOUS
<1>1. FirstJob \in Nat /\ Submits \in Nat /\ JobSteps \in [1 .. Submits -> Nat]
  BY JobAssumption
<1>2. n \in Nat /\ n - FirstJob \in 1 .. Submits
  BY <1>1 DEF Numbers
<1> QED
  BY <1>1, <1>2 DEF Steps

LEMMA LastOnesIs ==
  ASSUME NEW n \in Nat
  PROVE  LastOnes(n) = {m \in 1 .. n : m > n - JobsBound}
<1>1. JobsBound \in Nat \ {0}
  BY JobAssumption
<1>2. ASSUME NEW m \in LastOnes(n) PROVE m \in 1 .. n /\ m > n - JobsBound
  <2>1. PICK i \in 0 .. (JobsBound - 1) : i < n /\ m = n - i
    BY DEF LastOnes
  <2> QED
    BY <1>1, <2>1
<1>3. ASSUME NEW m \in 1 .. n, m > n - JobsBound PROVE m \in LastOnes(n)
  <2>1. n - m \in 0 .. (JobsBound - 1) /\ n - m < n /\ m = n - (n - m)
    BY <1>1, <1>3
  <2> QED
    BY <2>1 DEF LastOnes
<1> QED
  BY <1>2, <1>3

\* job_submit() with its bound.
LEMMA BoundedKeeps ==
  ASSUME IdsInOrder, NEW n \in Nat, n < FirstJob + Submits
  PROVE  Bounded(LastOnes(n) \cup {n + 1}) = LastOnes(n + 1)
<1>1. JobsBound \in Nat \ {0} /\ FirstJob + Submits \in Nat /\ n + 1 \in Nat
  BY JobAssumption
<1> DEFINE S == LastOnes(n) \cup {n + 1}
<1>l. /\ LastOnes(n) = {m \in 1 .. n : m > n - JobsBound}
      /\ LastOnes(n + 1) = {m \in 1 .. (n + 1) : m > (n + 1) - JobsBound}
  BY <1>1, LastOnesIs
<1>2. CASE n < JobsBound
  <2>a. \A m \in 1 .. n : m > n - JobsBound
    BY <1>1, <1>2
  <2>b. \A m \in 1 .. (n + 1) : m > (n + 1) - JobsBound
    BY <1>1, <1>2
  <2>c. \A m \in 1 .. (n + 1) : m \in 1 .. n \/ m = n + 1
    OBVIOUS
  <2>d. (1 .. n) \cup {n + 1} = 1 .. (n + 1)
    BY <2>c
  <2>1. S = 1 .. (n + 1) /\ LastOnes(n + 1) = 1 .. (n + 1)
    BY <1>l, <2>a, <2>b, <2>d
  <2>2. Cardinality(1 .. (n + 1)) = n + 1
    <3>1. Cardinality(1 .. (n + 1)) = IF 1 > n + 1 THEN 0 ELSE (n + 1) - 1 + 1
      BY <1>1, FS_Interval
    <3> QED
      BY <1>1, <3>1
  <2>3. ~(Cardinality(S) > JobsBound)
    <3> HIDE DEF S
    <3>1. Cardinality(S) = n + 1
      BY <2>1, <2>2
    <3> QED
      BY <1>1, <1>2, <3>1
  <2> QED
    BY <2>1, <2>3 DEF Bounded
<1>3. CASE n >= JobsBound
  <2> DEFINE lo == (n - JobsBound) + 1
  <2>1. lo \in Nat /\ lo >= 1 /\ lo <= n
    BY <1>1, <1>3
  <2>a. LastOnes(n) = lo .. n
    BY <1>1, <1>3, <1>l
  <2>b. LastOnes(n + 1) = (lo + 1) .. (n + 1)
    <3>1. ASSUME NEW m \in 1 .. (n + 1), m > (n + 1) - JobsBound PROVE m \in (lo + 1) .. (n + 1)
      BY <1>1, <3>1
    <3>2. ASSUME NEW m \in (lo + 1) .. (n + 1)
          PROVE  m \in 1 .. (n + 1) /\ m > (n + 1) - JobsBound
      BY <1>1, <2>1
    <3> QED
      BY <1>l, <3>1, <3>2
  <2>c. (lo .. n) \cup {n + 1} = lo .. (n + 1)
    <3> HIDE DEF lo
    <3> QED
      BY <2>1
  <2>2. S = lo .. (n + 1) /\ LastOnes(n + 1) = (lo + 1) .. (n + 1)
    BY <2>a, <2>b, <2>c
  <2>3. Cardinality(lo .. (n + 1)) = JobsBound + 1
    <3>1. lo \in Int /\ n + 1 \in Int /\ ~(lo > n + 1) /\ (n + 1) - lo + 1 = JobsBound + 1
      BY <1>1, <1>3
    <3> HIDE DEF lo
    <3>2. Cardinality(lo .. (n + 1)) = IF lo > n + 1 THEN 0 ELSE (n + 1) - lo + 1
      BY <3>1, FS_Interval
    <3> QED
      BY <3>1, <3>2
  <2>4. Cardinality(S) > JobsBound
    <3> HIDE DEF S, lo
    <3>1. Cardinality(S) = JobsBound + 1
      BY <2>2, <2>3
    <3> QED
      BY <1>1, <3>1
  <2>5. First(S) = lo
    <3> HIDE DEF S, lo
    <3>1. lo \in S /\ \A m \in S \ {lo} : lo < m /\ m \in 1 .. (FirstJob + Submits)
      BY <1>1, <2>1, <2>2
    <3>2. lo \in 1 .. (FirstJob + Submits)
      BY <1>1, <2>1
    <3>3. \A m \in S \ {lo} : IdLess(lo, m) /\ ~IdLess(m, lo)
      BY <3>1, <3>2 DEF IdsInOrder
    <3>4. \A x \in S : (\A m \in S \ {x} : IdLess(x, m)) => x = lo
      BY <3>1, <3>3
    <3> QED
      BY <3>1, <3>3, <3>4 DEF First
  <2>6. S \ {lo} = (lo + 1) .. (n + 1)
    BY <1>1, <2>1, <2>2
  <2> HIDE DEF S, lo
  <2>7. Bounded(S) = LastOnes(n + 1)
    BY <2>2, <2>4, <2>5, <2>6 DEF Bounded
  <2> QED
    BY <2>7 DEF S
<1> QED
  BY <1>1, <1>2, <1>3

LEMMA JobStarts == JobInit => JobInv
<1> SUFFICES ASSUME JobInit PROVE JobInv
  OBVIOUS
<1>1. BusTypes
  BY DEF JobInit, BusInit, BusTypes
<1>2. \A t \in Topics : Len(topics[t]) = 0 /\ Len(published[t]) = 0
  BY DEF JobInit, BusInit
<1>3. ASSUME NEW t \in Topics PROVE TopicInv(t)
  <2>1. Len(topics[t]) = 0 /\ Len(published[t]) = 0
    BY <1>2
  <2>2. Kept(topics[t], published[t])
    BY <2>1, BusAssumption DEF Kept
  <2>3. Ascending(published[t]) /\ Below(published[t], nextId - 1)
    BY <2>1 DEF Ascending, Below
  <2> QED
    BY <2>2, <2>3 DEF TopicInv
<1>4. \A c \in Feeds : Len(fed[c]) = 0 /\ cursor[c] = 0 /\ nextId = 1 /\ FeedTopic[c] \in Topics
  BY BusAssumption DEF JobInit, BusInit
<1>5. \A c \in Feeds : FeedInv(c)
  BY <1>2, <1>4 DEF FeedInv, Served, Ascending, Below
<1>6. FirstJob \in Nat /\ Submits \in Nat /\ "jobs" \in Topics
  BY JobAssumption
<1>7. JobTypes /\ KeepsNewest
  BY <1>6 DEF JobInit, JobTypes, KeepsNewest
<1>8. \A n \in Numbers : JobAt(n)
  BY <1>6 DEF JobInit, JobAt, Numbers
<1>9. Len(Reports) = 0
  BY <1>2, <1>6 DEF Reports
<1> QED
  BY <1>1, <1>3, <1>5, <1>7, <1>8, <1>9 DEF JobInv, BusInv, ReportsRise

\* One more report of job n, higher than those before.
LEMMA ReportRises ==
  ASSUME JobInv, NEW n \in Numbers, NEW status \in JobStatuses, NEW p \in Nat,
         Report(n, status, p),
         \A i \in 1 .. Len(Reports) : Reports[i].payload[1] = n =>
            RankOf(Reports[i]) < (IF status = "running" THEN p ELSE Steps(n) + 1)
  PROVE  /\ BusInv' /\ ReportsRise'
         /\ \A i \in 1 .. Len(Reports)' : \/ i \in 1 .. Len(Reports) /\ Reports'[i] = Reports[i]
                                          \/ Reports'[i].payload = <<n, status, p>>
<1> DEFINE e == [id |-> nextId, payload |-> <<n, status, p>>]
<1>a. BusInv /\ BusTypes /\ ReportsRise /\ "jobs" \in Topics
  BY JobAssumption DEF JobInv, BusInv
<1>1. Pub("jobs", <<n, status, p>>) /\ <<n, status, p>> \in Payloads
  BY DEF Report, Payloads
<1>2. BusInv'
  BY <1>a, <1>1, PubKeeps
<1>3. e \in BusEvents /\ e.payload = <<n, status, p>>
  BY <1>a, <1>1 DEF BusEvents, BusTypes
<1> HIDE DEF e
<1>4. Reports \in Seq(BusEvents) /\ Reports' = Append(Reports, e)
  BY <1>a, <1>1 DEF Pub, Reports, BusTypes, e
<1>5. /\ Len(Reports') = Len(Reports) + 1 /\ Len(Reports) \in Nat
      /\ \A i \in 1 .. Len(Reports) : Reports'[i] = Reports[i]
      /\ Reports'[Len(Reports) + 1] = e
  BY <1>3, <1>4
<1>6. \A i \in 1 .. Len(Reports') : i \in 1 .. Len(Reports) \/ i = Len(Reports) + 1
  BY <1>5
<1>7. RankOf(e) = IF status = "running" THEN p ELSE Steps(n) + 1
  BY <1>3 DEF RankOf
<1>9. ASSUME NEW i \in 1 .. Len(Reports'), NEW j \in 1 .. Len(Reports'), i < j,
             Reports'[i].payload[1] = Reports'[j].payload[1]
      PROVE  RankOf(Reports'[i]) < RankOf(Reports'[j])
  <2>1. i \in 1 .. Len(Reports)
    BY <1>5, <1>9
  <2>2. CASE j \in 1 .. Len(Reports)
    BY <1>a, <1>5, <1>9, <2>1, <2>2 DEF ReportsRise
  <2>3. CASE j = Len(Reports) + 1
    <3>1. Reports[i].payload[1] = n
      BY <1>3, <1>5, <1>9, <2>1, <2>3
    <3>2. RankOf(Reports[i]) < RankOf(e)
      BY <1>7, <2>1, <3>1
    <3> QED
      BY <1>5, <2>1, <2>3, <3>2
  <2> QED
    BY <1>6, <2>2, <2>3
<1>10. ReportsRise'
  BY <1>9 DEF ReportsRise, RankOf, Steps
<1>11. \A i \in 1 .. Len(Reports') : \/ i \in 1 .. Len(Reports) /\ Reports'[i] = Reports[i]
                                     \/ Reports'[i].payload = <<n, status, p>>
  BY <1>3, <1>5, <1>6
<1> QED
  BY <1>2, <1>10, <1>11

LEMMA BusStutter == ASSUME UNCHANGED busVars PROVE (BusInv => BusInv') /\ Reports' = Reports
<1>1. /\ nextId' = nextId /\ topics' = topics /\ cursor' = cursor /\ fed' = fed
      /\ published' = published
  BY DEF busVars
<1>2. BusTypes => BusTypes'
  BY <1>1 DEF BusTypes
<1>3. ASSUME NEW t \in Topics PROVE TopicInv(t) => TopicInv(t)'
  BY <1>1 DEF TopicInv
<1>4. ASSUME NEW c \in Feeds PROVE FeedInv(c) => FeedInv(c)'
  BY <1>1 DEF FeedInv
<1> QED
  BY <1>1, <1>2, <1>3, <1>4 DEF BusInv, Reports

\* Nobody reports: what was told stays true.
LEMMA SilentKeeps ==
  ASSUME JobInv, BusInv', Reports' = Reports, JobTypes', KeepsNewest',
         \A n \in Numbers : JobAt(n)',
         \A n \in Numbers : jobPc[n] \notin {"none", "pool", "report"} =>
           /\ jobPc'[n] \notin {"none", "pool", "report"} /\ jobStatus'[n] = jobStatus[n]
           /\ jobProgress'[n] = jobProgress[n] /\ (jobPc[n] = "end" => jobPc'[n] = "end")
  PROVE  JobInv'
<1>1. ASSUME NEW i \in 1 .. Len(Reports) PROVE Told(Reports[i])'
  <2>1. Told(Reports[i]) /\ Reports[i].payload[1] \in Numbers
    BY DEF JobInv, Told
  <2> QED
    BY <2>1 DEF Told
<1>2. ReportsRise'
  BY DEF JobInv, ReportsRise, RankOf, Steps
<1> QED
  BY <1>1, <1>2 DEF JobInv

LEMMA JobKeeps == IdsInOrder /\ JobInv /\ [JobNext]_<<jobVars, busVars>> => JobInv'
<1> SUFFICES ASSUME IdsInOrder, JobInv, [JobNext]_<<jobVars, busVars>> PROVE JobInv'
  OBVIOUS
<1>a. /\ BusInv /\ JobTypes /\ KeepsNewest /\ (\A n \in Numbers : JobAt(n))
      /\ (\A i \in 1 .. Len(Reports) : Told(Reports[i])) /\ ReportsRise
  BY DEF JobInv
<1>b. /\ FirstJob \in Nat /\ Submits \in Nat /\ \A n \in Numbers : n \in Nat /\ Steps(n) \in Nat
      /\ "jobs" \in Topics
  BY JobAssumption, StepsType
<1>c. \A n \in Numbers : jobProgress[n] \in Nat
  BY <1>a DEF JobTypes
\* The reports of a job that has not ended are of its steps so far.
<1>d. ASSUME NEW n \in Numbers, jobPc[n] # "end",
             NEW i \in 1 .. Len(Reports), Reports[i].payload[1] = n
      PROVE  /\ jobPc[n] \notin {"none", "pool", "report"}
             /\ RankOf(Reports[i]) <= jobProgress[n] /\ RankOf(Reports[i]) \in Nat
  <2>1. Told(Reports[i])
    BY <1>a
  <2>2. Reports[i].payload[2] = "running" /\ Reports[i].payload[3] \in Nat
    BY <1>d, <2>1 DEF Told
  <2> QED
    BY <1>d, <2>1, <2>2 DEF Told, RankOf
<1>1. CASE JobSubmit
  <2> DEFINE n == jobCounter + 1
  <2>1. /\ n \in Numbers /\ jobCounter' = n /\ jobs' = Bounded(jobs \cup {n})
        /\ jobStatus' = [jobStatus EXCEPT ![n] = "queued"]
        /\ jobPc' = [jobPc EXCEPT ![n] = "pool"] /\ jobProgress' = jobProgress
        /\ UNCHANGED busVars
    BY <1>1 DEF JobSubmit, JobGoto
  <2>2. jobCounter \in Nat /\ jobCounter < FirstJob + Submits /\ n > jobCounter
    BY <1>a, <1>b, <2>1 DEF JobTypes, Numbers
  <2>3. KeepsNewest'
    BY <1>a, <2>1, <2>2, BoundedKeeps DEF KeepsNewest
  <2> HIDE DEF n
  <2>4. jobPc[n] = "none"
    BY <1>a, <2>1, <2>2 DEF JobAt
  <2>5. JobTypes'
    BY <1>a, <1>b, <2>1 DEF JobTypes, JobStatuses, Numbers
  <2>6. ASSUME NEW m \in Numbers PROVE JobAt(m)'
    <3>1. CASE m = n
      BY <1>a, <1>b, <2>1, <2>4, <3>1 DEF JobAt, JobTypes
    <3>2. CASE m # n
      <4>1. jobPc'[m] = jobPc[m] /\ jobProgress'[m] = jobProgress[m]
        BY <1>a, <2>1, <3>2 DEF JobTypes
      <4>2. m > n <=> m > jobCounter
        BY <1>b, <2>2, <3>2 DEF n
      <4> QED
        BY <1>a, <2>1, <4>1, <4>2 DEF JobAt, Steps
    <3> QED
      BY <3>1, <3>2
  <2>7. BusInv' /\ Reports' = Reports
    BY <1>a, <2>1, BusStutter
  <2>8. \A m \in Numbers : m # n => jobPc'[m] = jobPc[m] /\ jobStatus'[m] = jobStatus[m]
    BY <1>a, <2>1 DEF JobTypes
  <2> QED
    BY <2>1, <2>3, <2>4, <2>5, <2>6, <2>7, <2>8, SilentKeeps
<1>2. ASSUME NEW n \in Numbers, JobRunning(n) PROVE JobInv'
  <2>1. /\ jobPc[n] = "pool" /\ jobPc' = [jobPc EXCEPT ![n] = "report"]
        /\ jobStatus' = [jobStatus EXCEPT ![n] = "running"]
        /\ jobCounter' = jobCounter /\ jobs' = jobs /\ jobProgress' = jobProgress
        /\ UNCHANGED busVars
    BY <1>2 DEF JobRunning, JobGoto
  <2>2. JobTypes' /\ KeepsNewest'
    BY <1>a, <2>1 DEF JobTypes, KeepsNewest, JobStatuses, LastOnes
  <2>3. \A m \in Numbers : JobAt(m)'
    BY <1>a, <2>1 DEF JobAt, JobTypes, Steps
  <2>4. BusInv' /\ Reports' = Reports
    BY <1>a, <2>1, BusStutter
  <2>5. \A m \in Numbers : m # n => jobPc'[m] = jobPc[m] /\ jobStatus'[m] = jobStatus[m]
    BY <1>a, <2>1 DEF JobTypes
  <2> QED
    BY <2>1, <2>2, <2>3, <2>4, <2>5, SilentKeeps
<1>3. ASSUME NEW n \in Numbers, JobCompute(n) PROVE JobInv'
  <2>1. /\ jobPc[n] = "step" /\ jobPc' = [jobPc EXCEPT ![n] = "main"] /\ jobStatus' = jobStatus
        /\ jobCounter' = jobCounter /\ jobs' = jobs /\ jobProgress' = jobProgress
        /\ UNCHANGED busVars
    BY <1>3 DEF JobCompute, JobGoto
  <2>2. JobTypes' /\ KeepsNewest'
    BY <1>a, <2>1 DEF JobTypes, KeepsNewest, LastOnes
  <2>3. \A m \in Numbers : JobAt(m)'
    BY <1>a, <2>1 DEF JobAt, JobTypes, Steps
  <2>4. BusInv' /\ Reports' = Reports
    BY <1>a, <2>1, BusStutter
  <2>5. jobPc'[n] = "main" /\ \A m \in Numbers : m # n => jobPc'[m] = jobPc[m]
    BY <1>a, <2>1 DEF JobTypes
  <2> QED
    BY <2>1, <2>2, <2>3, <2>4, <2>5, SilentKeeps
<1>4. ASSUME NEW n \in Numbers, JobReportRunning(n) PROVE JobInv'
  <2>1. /\ jobPc[n] = "report" /\ Report(n, "running", 0)
        /\ jobPc' = [jobPc EXCEPT ![n] = IF Steps(n) = 0 THEN "finish" ELSE "step"]
        /\ jobCounter' = jobCounter /\ jobs' = jobs /\ jobProgress' = jobProgress
        /\ jobStatus' = jobStatus
    BY <1>4 DEF JobReportRunning, JobGoto
  <2>2. \A i \in 1 .. Len(Reports) : Reports[i].payload[1] # n
    BY <1>d, <2>1
  <2>3. /\ BusInv' /\ ReportsRise'
        /\ \A i \in 1 .. Len(Reports)' : \/ i \in 1 .. Len(Reports) /\ Reports'[i] = Reports[i]
                                         \/ Reports'[i].payload = <<n, "running", 0>>
    BY <2>1, <2>2, ReportRises DEF JobStatuses
  <2>4. JobTypes' /\ KeepsNewest'
    BY <1>a, <2>1 DEF JobTypes, KeepsNewest, LastOnes
  <2>5. \A m \in Numbers : JobAt(m)'
    BY <1>a, <1>b, <2>1 DEF JobAt, JobTypes, Steps
  <2>6. jobPc'[n] \in {"finish", "step"} /\ \A m \in Numbers : m # n => jobPc'[m] = jobPc[m]
    BY <1>a, <2>1 DEF JobTypes
  <2>7. ASSUME NEW i \in 1 .. Len(Reports)' PROVE Told(Reports[i])'
    <3>1. CASE i \in 1 .. Len(Reports) /\ Reports'[i] = Reports[i]
      BY <1>a, <2>1, <2>2, <2>6, <3>1 DEF Told
    <3>2. CASE Reports'[i].payload = <<n, "running", 0>>
      BY <1>c, <2>1, <2>6, <3>2 DEF Told, JobStatuses
    <3> QED
      BY <2>3, <3>1, <3>2
  <2> QED
    BY <2>3, <2>4, <2>5, <2>7 DEF JobInv
<1>5. ASSUME NEW n \in Numbers, JobReportStep(n) PROVE JobInv'
  <2> DEFINE p == jobProgress[n] + 1
  <2>1. /\ jobPc[n] = "main" /\ jobProgress' = [jobProgress EXCEPT ![n] = p]
        /\ Report(n, "running", p)
        /\ jobPc' = [jobPc EXCEPT ![n] = IF p = Steps(n) THEN "finish" ELSE "step"]
        /\ jobCounter' = jobCounter /\ jobs' = jobs /\ jobStatus' = jobStatus
    BY <1>5 DEF JobReportStep, JobGoto
  <2>2. p \in Nat /\ p > jobProgress[n] /\ jobProgress[n] < Steps(n) /\ p <= Steps(n)
    BY <1>a, <1>b, <1>c, <2>1 DEF JobAt
  <2> HIDE DEF p
  <2>3. \A i \in 1 .. Len(Reports) : Reports[i].payload[1] = n => RankOf(Reports[i]) < p
    BY <1>c, <1>d, <2>1, <2>2
  <2>4. /\ BusInv' /\ ReportsRise'
        /\ \A i \in 1 .. Len(Reports)' : \/ i \in 1 .. Len(Reports) /\ Reports'[i] = Reports[i]
                                         \/ Reports'[i].payload = <<n, "running", p>>
    BY <2>1, <2>2, <2>3, ReportRises DEF JobStatuses
  <2>5. JobTypes' /\ KeepsNewest'
    BY <1>a, <2>1, <2>2 DEF JobTypes, KeepsNewest, LastOnes
  <2>6. /\ jobPc'[n] \in {"finish", "step"} /\ jobProgress'[n] = p
        /\ \A m \in Numbers : m # n => jobPc'[m] = jobPc[m] /\ jobProgress'[m] = jobProgress[m]
        /\ jobPc'[n] = "finish" <=> p = Steps(n)
    BY <1>a, <2>1 DEF JobTypes
  <2>7. ASSUME NEW m \in Numbers PROVE JobAt(m)'
    <3>1. CASE m = n
      BY <1>a, <1>b, <2>1, <2>2, <2>6, <3>1 DEF JobAt, Steps
    <3>2. CASE m # n
      BY <1>a, <2>1, <2>6, <3>2 DEF JobAt, Steps
    <3> QED
      BY <3>1, <3>2
  <2>8. ASSUME NEW i \in 1 .. Len(Reports)' PROVE Told(Reports[i])'
    <3>1. CASE i \in 1 .. Len(Reports) /\ Reports'[i] = Reports[i]
      <4>1. Told(Reports[i])
        BY <1>a, <3>1
      <4>2. CASE Reports[i].payload[1] # n
        BY <2>1, <2>6, <3>1, <4>1, <4>2 DEF Told
      <4>3. CASE Reports[i].payload[1] = n
        <5>1. Reports[i].payload[2] = "running" /\ Reports[i].payload[3] \in Nat
          BY <2>1, <4>1, <4>3 DEF Told
        <5>2. Reports[i].payload[3] <= p
          BY <1>c, <2>2, <4>1, <4>3, <5>1 DEF Told
        <5> QED
          BY <2>6, <3>1, <4>1, <4>3, <5>1, <5>2 DEF Told
      <4> QED
        BY <4>2, <4>3
    <3>2. CASE Reports'[i].payload = <<n, "running", p>>
      BY <2>2, <2>6, <3>2 DEF Told, JobStatuses
    <3> QED
      BY <2>4, <3>1, <3>2
  <2> QED
    BY <2>4, <2>5, <2>7, <2>8 DEF JobInv
<1>6. ASSUME NEW n \in Numbers, JobFinish(n) PROVE JobInv'
  <2> DEFINE over == IF Steps(n) = 0 THEN "failed" ELSE "done"
  <2>1. /\ jobPc[n] = "finish" /\ jobPc' = [jobPc EXCEPT ![n] = "end"]
        /\ jobStatus' = [jobStatus EXCEPT ![n] = over] /\ Report(n, over, Steps(n))
        /\ jobCounter' = jobCounter /\ jobs' = jobs /\ jobProgress' = jobProgress
    BY <1>6 DEF JobFinish, JobGoto
  <2>2. over \in {"failed", "done"} /\ Steps(n) \in Nat /\ jobProgress[n] = Steps(n)
    BY <1>a, <1>b, <2>1 DEF JobAt
  <2> HIDE DEF over
  <2>3. \A i \in 1 .. Len(Reports) : Reports[i].payload[1] = n => RankOf(Reports[i]) < Steps(n) + 1
    BY <1>d, <2>1, <2>2
  <2>4. /\ BusInv' /\ ReportsRise'
        /\ \A i \in 1 .. Len(Reports)' : \/ i \in 1 .. Len(Reports) /\ Reports'[i] = Reports[i]
                                         \/ Reports'[i].payload = <<n, over, Steps(n)>>
    BY <2>1, <2>2, <2>3, ReportRises DEF JobStatuses
  <2>5. JobTypes' /\ KeepsNewest'
    BY <1>a, <2>1, <2>2 DEF JobTypes, KeepsNewest, LastOnes, JobStatuses
  <2>6. /\ jobPc'[n] = "end" /\ jobStatus'[n] = over
        /\ \A m \in Numbers : m # n => jobPc'[m] = jobPc[m] /\ jobStatus'[m] = jobStatus[m]
    BY <1>a, <2>1 DEF JobTypes
  <2>7. ASSUME NEW m \in Numbers PROVE JobAt(m)'
    BY <1>a, <2>1, <2>6 DEF JobAt, Steps
  <2>8. ASSUME NEW i \in 1 .. Len(Reports)' PROVE Told(Reports[i])'
    <3>1. CASE i \in 1 .. Len(Reports) /\ Reports'[i] = Reports[i]
      <4>1. Told(Reports[i])
        BY <1>a, <3>1
      <4>2. CASE Reports[i].payload[1] # n
        BY <2>1, <2>6, <3>1, <4>1, <4>2 DEF Told
      <4>3. CASE Reports[i].payload[1] = n
        BY <2>1, <2>6, <3>1, <4>1, <4>3 DEF Told
      <4> QED
        BY <4>2, <4>3
    <3>2. CASE Reports'[i].payload = <<n, over, Steps(n)>>
      BY <2>2, <2>6, <3>2 DEF Told, JobStatuses
    <3> QED
      BY <2>4, <3>1, <3>2
  <2> QED
    BY <2>4, <2>5, <2>7, <2>8 DEF JobInv
<1>7. ASSUME UNCHANGED jobVars, BusInv', Reports' = Reports PROVE JobInv'
  <2>1. /\ jobCounter' = jobCounter /\ jobs' = jobs /\ jobPc' = jobPc
        /\ jobStatus' = jobStatus /\ jobProgress' = jobProgress
    BY <1>7 DEF jobVars
  <2>2. JobTypes' /\ KeepsNewest'
    BY <1>a, <2>1 DEF JobTypes, KeepsNewest, LastOnes
  <2>3. \A m \in Numbers : JobAt(m)'
    BY <1>a, <2>1 DEF JobAt, Steps
  <2> QED
    BY <1>7, <2>1, <2>2, <2>3, SilentKeeps
<1>8. ASSUME UNCHANGED jobVars, NEW c \in Feeds, Events(c) PROVE JobInv'
  <2>1. BusInv' /\ published' = published
    BY <1>8, <1>a, EventsKeeps DEF Events
  <2> QED
    BY <1>7, <1>8, <2>1 DEF Reports
<1>9. ASSUME UNCHANGED jobVars, NEW t \in Topics \ {"jobs"}, LuaPub(t) PROVE JobInv'
  <2>1. BusInv'
    BY <1>9, <1>a, PubKeeps DEF LuaPub, Payloads
  <2>2. Reports' = Reports
    BY <1>9, <1>a, <1>b DEF LuaPub, Pub, Reports, BusInv, BusTypes
  <2> QED
    BY <1>7, <1>9, <2>1, <2>2
<1>10. CASE UNCHANGED <<jobVars, busVars>>
  BY <1>7, <1>10, <1>a, BusStutter
<1> QED
  BY <1>1, <1>2, <1>3, <1>4, <1>5, <1>6, <1>8, <1>9, <1>10 DEF JobNext, JobStep

LEMMA JobRight == JobInv => FeedsSound
<1> SUFFICES ASSUME JobInv PROVE FeedsSound
  OBVIOUS
<1>a. BusInv /\ BusTypes /\ \A n \in Numbers : n \in Nat /\ Steps(n) \in Nat
  BY StepsType DEF JobInv, BusInv
<1>1. ASSUME NEW c \in Feeds
      PROVE  /\ Served(fed[c], published[FeedTopic[c]], cursor[c])
             /\ Ascending(published[FeedTopic[c]])
             /\ fed[c] \in Seq(BusEvents) /\ published[FeedTopic[c]] \in Seq(BusEvents)
  BY <1>a, BusAssumption DEF BusInv, FeedInv, TopicInv, BusTypes
<1>2. FeedComplete
  <2>1. ASSUME NEW c \in Feeds
        PROVE  /\ \A i, j \in DOMAIN fed[c] : i < j => fed[c][i].id < fed[c][j].id
               /\ \A i \in DOMAIN published[FeedTopic[c]] :
                    LET all == published[FeedTopic[c]] IN
                    all[i].id <= cursor[c] =>
                      \/ \E k \in DOMAIN fed[c] : fed[c][k] = all[i]
                      \/ Cardinality({j \in DOMAIN all : i < j /\ all[j].id <= cursor[c]}) >= BusBound
    <3> DEFINE all == published[FeedTopic[c]]
               got == fed[c]
    <3>1. DOMAIN all = 1 .. Len(all) /\ DOMAIN got = 1 .. Len(got)
      BY <1>1
    <3>2. Served(got, all, cursor[c])
      BY <1>1
    <3> HIDE DEF all, got
    <3>3. \A i : {j \in DOMAIN all : i < j /\ all[j].id <= cursor[c]} = LaterOnes(all, i, cursor[c])
      BY <3>1 DEF LaterOnes
    <3>4. \A i, j \in DOMAIN got : i < j => got[i].id < got[j].id
      BY <3>1, <3>2 DEF Served, Ascending
    <3>5. ASSUME NEW i \in DOMAIN all, all[i].id <= cursor[c]
          PROVE  \/ \E k \in DOMAIN got : got[k] = all[i]
                 \/ Cardinality({j \in DOMAIN all : i < j /\ all[j].id <= cursor[c]}) >= BusBound
      BY <3>1, <3>2, <3>3, <3>5 DEF Served
    <3> QED
      BY <3>4, <3>5 DEF all, got
  <2> QED
    BY <2>1 DEF FeedComplete
<1>3. JobFeedOrdered
  <2>1. ASSUME NEW c \in Feeds, FeedTopic[c] = "jobs"
        PROVE  /\ \A i, j \in DOMAIN fed[c] :
                    i < j /\ fed[c][i].payload[1] = fed[c][j].payload[1] =>
                      RankOf(fed[c][i]) < RankOf(fed[c][j])
               /\ \A i \in DOMAIN fed[c] : LET n == fed[c][i].payload[1] IN
                    n \in jobs =>
                      \/ fed[c][i].payload[2] = "running" /\ fed[c][i].payload[3] <= JobQuery(n)[2]
                      \/ fed[c][i].payload[2] = JobQuery(n)[1]
    <3> DEFINE got == fed[c]
    <3>1. /\ Served(got, Reports, cursor[c]) /\ Ascending(Reports)
          /\ DOMAIN got = 1 .. Len(got) /\ Reports \in Seq(BusEvents)
      BY <1>1, <2>1 DEF Reports
    <3> HIDE DEF got
    <3>n. \A i \in 1 .. Len(Reports) : Reports[i].id \in Nat
      <4>1. \A i \in 1 .. Len(Reports) : Reports[i] \in BusEvents
        BY <3>1
      <4> QED
        BY <4>1 DEF BusEvents
    <3>2. ASSUME NEW i \in DOMAIN got, NEW j \in DOMAIN got, i < j,
                 got[i].payload[1] = got[j].payload[1]
          PROVE  RankOf(got[i]) < RankOf(got[j])
      <4>1. PICK x \in 1 .. Len(Reports) : got[i] = Reports[x]
        BY <3>1 DEF Served
      <4>2. PICK y \in 1 .. Len(Reports) : got[j] = Reports[y]
        BY <3>1 DEF Served
      <4>3. Reports[x].id < Reports[y].id
        BY <3>1, <3>2, <4>1, <4>2 DEF Served, Ascending
      <4>4. x < y
        <5>1. ~(y < x)
          BY <3>1, <3>n, <4>3 DEF Ascending
        <5>2. x # y
          BY <3>n, <4>3
        <5> QED
          BY <5>1, <5>2
      <4> QED
        BY <3>2, <4>1, <4>2, <4>4 DEF JobInv, ReportsRise
    <3>3. ASSUME NEW i \in DOMAIN got, got[i].payload[1] \in jobs
          PROVE  \/ got[i].payload[2] = "running"
                    /\ got[i].payload[3] <= JobQuery(got[i].payload[1])[2]
                 \/ got[i].payload[2] = JobQuery(got[i].payload[1])[1]
      <4>1. PICK x \in 1 .. Len(Reports) : got[i] = Reports[x]
        BY <3>1 DEF Served
      <4>2. Told(got[i])
        BY <4>1 DEF JobInv
      <4>3. JobQuery(got[i].payload[1])
              = <<jobStatus[got[i].payload[1]], jobProgress[got[i].payload[1]]>>
        BY <3>3 DEF JobQuery
      <4> QED
        BY <4>2, <4>3 DEF Told
    <3> QED
      BY <3>2, <3>3 DEF got
  <2> QED
    BY <2>1 DEF JobFeedOrdered, RankOf
<1> QED
  BY <1>2, <1>3 DEF JobInv, FeedsSound

-----------------------------------------------------------------------------
(* UDP listeners                                                             *)

UdpMains == {"idle", "udp_listen", "udp_poll", "stop", "stop_listen", "close", "join",
             "pool", "drain"}
Threads == {"none", "check", "recv", "push", "notify", "end"}
UdpPcs == {"none", "pool", "task", "checked", "asleep", "send", "return", "end"}
UsingPcs == {"task", "checked", "asleep", "send"}
ListenerStates == [stop : BOOLEAN, open : BOOLEAN, queue : Seq(Nat), sender : Nat,
                   thread : Threads, got : Nat]

UdpTypes ==
    /\ udpMain \in UdpMains /\ made \in 0 .. Listens /\ mapped \in {NoListener, made}
    /\ listener \in [Listeners -> ListenerStates]
    /\ udpPc \in [Requests -> UdpPcs]
    /\ udpRef \in [Requests -> Nat] /\ arrived \in Nat /\ taken \in Seq(Nat)

\* stop() takes the listener off the record when its thread is over and its
\* socket closed; the next one is made when no coroutine is left that uses it.
UdpControl ==
    /\ udpMain = "udp_listen" => made < Listens
    /\ udpMain \in {"close", "join"} => mapped # NoListener
    /\ udpMain = "join" => ~listener[mapped].open
    /\ OneListener
    /\ \A g \in Listeners : g > made => listener[g].queue = <<>>
    /\ \A r \in Requests : udpPc[r] \in UsingPcs =>
         udpRef[r] = made /\ made # NoListener /\ (mapped # NoListener \/ udpMain = "pool")

Rising(s) == \A i, j \in 1 .. Len(s) : i < j => s[i] < s[j]
Among(s, d) == \E i \in 1 .. Len(s) : s[i] = d
LaterThan(d) == {e \in 1 .. arrived : e > d}
Held(g, d) == Among(listener[g].queue, d) \/ listener[g].got = d

\* Of the listeners there were only the last still receives and hands out, and
\* what it holds is newer than all that was taken or left behind.
UdpData ==
    /\ Rising(taken) /\ \A d \in Nat : Among(taken, d) => d \in 1 .. arrived
    /\ \A g \in Listeners :
         /\ Rising(listener[g].queue) /\ Len(listener[g].queue) <= QueueBound
         /\ \A d \in Nat : Among(listener[g].queue, d) => d \in 1 .. arrived /\ ~Among(taken, d)
         /\ listener[g].thread = "push" <=> listener[g].got # 0
         /\ listener[g].got # 0 => /\ g = made /\ listener[g].got = arrived
                                   /\ ~Among(taken, arrived)
                                   /\ \A h \in Listeners : ~Among(listener[h].queue, arrived)
    /\ \A d, e \in Nat : made \in Listeners /\ Among(listener[made].queue, e) =>
         /\ Among(taken, d) => d < e
         /\ \A h \in Listeners : h # made /\ Among(listener[h].queue, d) => d < e
    /\ \A d \in 1 .. arrived : \/ Among(taken, d) \/ \E g \in Listeners : Held(g, d)
                               \/ Cardinality(LaterThan(d)) >= QueueBound

UdpInv == UdpTypes /\ UdpControl /\ UdpData

LEMMA UdpStarts == UdpInit => UdpInv
<1> SUFFICES ASSUME UdpInit PROVE UdpInv
  OBVIOUS
<1>1. Listens \in Nat /\ 0 \in Nat
  BY UdpAssumption
<1>2. UdpTypes
  <2>1. listener \in [Listeners -> ListenerStates]
    <3>1. [stop |-> FALSE, open |-> FALSE, queue |-> <<>>, sender |-> 0, thread |-> "none",
           got |-> 0] \in ListenerStates
      BY DEF ListenerStates, Threads
    <3> QED
      BY <3>1 DEF UdpInit
  <2>2. taken \in Seq(Nat)
    BY DEF UdpInit
  <2> QED
    BY <1>1, <2>1, <2>2 DEF UdpInit, UdpTypes, UdpMains, UdpPcs, NoListener
<1>3. UdpControl
  BY <1>1 DEF UdpInit, UdpControl, OneListener, Listeners, NoListener, UsingPcs
<1>4. /\ Len(taken) = 0 /\ arrived = 0
      /\ \A g \in Listeners : /\ Len(listener[g].queue) = 0 /\ listener[g].got = 0
                              /\ listener[g].thread = "none"
  BY DEF UdpInit
<1>5. (\A d : ~Among(taken, d)) /\ \A g \in Listeners, d \in Nat : ~Among(listener[g].queue, d)
  BY <1>4 DEF Among
<1>6. Rising(taken) /\ \A g \in Listeners : Rising(listener[g].queue)
  BY <1>4 DEF Rising
<1>7. UdpData
  BY <1>4, <1>5, <1>6, UdpAssumption DEF UdpData
<1> QED
  BY <1>2, <1>3, <1>7 DEF UdpInv

\* A step that moves no datagram.
LEMMA DataStays ==
  ASSUME UdpData, taken' = taken, arrived' = arrived, made' = made,
         \A g \in Listeners : /\ listener'[g].queue = listener[g].queue
                              /\ listener'[g].got = listener[g].got
                              /\ listener'[g].thread = "push" <=> listener[g].thread = "push"
  PROVE  UdpData'
<1>1. \A g \in Listeners : \A d : Held(g, d)' = Held(g, d)
  BY DEF Held, Among
<1>2. \A d : LaterThan(d)' = LaterThan(d)
  BY DEF LaterThan
<1>3. \A d \in 1 .. arrived' : \/ Among(taken', d) \/ \E g \in Listeners : Held(g, d)'
                               \/ Cardinality(LaterThan(d)') >= QueueBound
  BY <1>1, <1>2 DEF UdpData
<1>4. \A g \in Listeners :
         /\ Rising(listener'[g].queue) /\ Len(listener'[g].queue) <= QueueBound
         /\ \A d \in Nat : Among(listener'[g].queue, d) => d \in 1 .. arrived' /\ ~Among(taken', d)
         /\ listener'[g].thread = "push" <=> listener'[g].got # 0
         /\ listener'[g].got # 0 => /\ g = made' /\ listener'[g].got = arrived'
                                    /\ ~Among(taken', arrived')
                                    /\ \A h \in Listeners : ~Among(listener'[h].queue, arrived')
  BY DEF UdpData
<1>5. \A d, e \in Nat : made' \in Listeners /\ Among(listener'[made'].queue, e) =>
         /\ Among(taken', d) => d < e
         /\ \A h \in Listeners : h # made' /\ Among(listener'[h].queue, d) => d < e
  BY DEF UdpData
<1> QED
  BY <1>3, <1>4, <1>5 DEF UdpData

\* A datagram is handed to a caller.
LEMMA TakeKeeps ==
  ASSUME UdpInv, NEW g \in Listeners, g = made, listener[g].queue # <<>>, Take(g),
         arrived' = arrived, made' = made
  PROVE  /\ UdpData' /\ taken' \in Seq(Nat) /\ listener' \in [Listeners -> ListenerStates]
         /\ \A h \in Listeners : /\ listener'[h].open = listener[h].open
                                 /\ listener'[h].thread = listener[h].thread
                                 /\ listener'[h].stop = listener[h].stop
                                 /\ h # g => listener'[h] = listener[h]
<1> DEFINE q == listener[g].queue
           x == Head(q)
<1>a. UdpTypes /\ UdpData
  BY DEF UdpInv
<1>1. /\ q \in Seq(Nat) /\ q # <<>> /\ taken \in Seq(Nat) /\ arrived \in Nat
      /\ listener \in [Listeners -> ListenerStates]
  BY <1>a DEF UdpTypes, ListenerStates
<1>2. /\ taken' = Append(taken, x)
      /\ listener' = [listener EXCEPT ![g].queue = Tail(q)]
  BY DEF Take
<1> HIDE DEF q
<1>3. /\ Len(q) \in Nat /\ Len(q) > 0 /\ x \in Nat /\ x = q[1] /\ Tail(q) \in Seq(Nat)
      /\ Len(Tail(q)) = Len(q) - 1 /\ \A i \in 1 .. (Len(q) - 1) : Tail(q)[i] = q[i + 1]
  BY <1>1
<1> HIDE DEF x
<1>4. /\ taken' \in Seq(Nat) /\ Len(taken') = Len(taken) + 1 /\ Len(taken) \in Nat
      /\ taken'[Len(taken) + 1] = x /\ \A i \in 1 .. Len(taken) : taken'[i] = taken[i]
      /\ \A i \in 1 .. Len(taken') : i \in 1 .. Len(taken) \/ i = Len(taken) + 1
  BY <1>1, <1>2, <1>3
<1>5. /\ listener' \in [Listeners -> ListenerStates]
      /\ listener'[g].queue = Tail(q) /\ listener'[g].got = listener[g].got
      /\ listener'[g].open = listener[g].open /\ listener'[g].thread = listener[g].thread
      /\ listener'[g].stop = listener[g].stop
      /\ \A h \in Listeners : h # g => listener'[h] = listener[h]
  BY <1>1, <1>2, <1>3 DEF ListenerStates
<1>6. Among(q, x) /\ Rising(q) /\ x \in 1 .. arrived /\ ~Among(taken, x)
  <2>1. Among(q, x)
    BY <1>3 DEF Among
  <2> QED
    BY <1>3, <1>a, <2>1 DEF UdpData, q
<1>7. \A d \in Nat : Among(Tail(q), d) => Among(q, d) /\ x < d
  <2>1. ASSUME NEW d \in Nat, NEW i \in 1 .. (Len(q) - 1), Tail(q)[i] = d
        PROVE  Among(q, d) /\ x < d
    <3>1. 1 \in 1 .. Len(q) /\ i + 1 \in 1 .. Len(q) /\ 1 < i + 1 /\ q[i + 1] = d
      BY <1>3, <2>1
    <3> QED
      BY <1>3, <1>6, <3>1 DEF Among, Rising
  <2> QED
    BY <1>3, <2>1 DEF Among
<1>8. \A d \in Nat : Among(taken', d) <=> Among(taken, d) \/ d = x
  <2>1. ASSUME NEW d \in Nat, Among(taken', d) PROVE Among(taken, d) \/ d = x
    BY <1>4, <2>1 DEF Among
  <2>2. ASSUME NEW d \in Nat, Among(taken, d) \/ d = x PROVE Among(taken', d)
    <3>1. Len(taken) + 1 \in 1 .. Len(taken') /\ \A i \in 1 .. Len(taken) : i \in 1 .. Len(taken')
      BY <1>4
    <3> QED
      BY <1>4, <2>2, <3>1 DEF Among
  <2> QED
    BY <2>1, <2>2
<1>9. \A d \in Nat : Among(taken, d) => d < x
  BY <1>3, <1>6, <1>a DEF UdpData, q
<1>10. Rising(taken')
  <2>1. ASSUME NEW i \in 1 .. Len(taken'), NEW j \in 1 .. Len(taken'), i < j
        PROVE  taken'[i] < taken'[j]
    <3>0. i \in 1 .. Len(taken)
      BY <1>4, <2>1
    <3>1. i \in 1 .. Len(taken) /\ taken[i] \in Nat /\ Among(taken, taken[i])
      BY <1>1, <3>0 DEF Among
    <3>2. CASE j \in 1 .. Len(taken)
      BY <1>4, <1>a, <2>1, <3>1, <3>2 DEF UdpData, Rising
    <3>3. CASE j = Len(taken) + 1
      BY <1>4, <1>9, <3>1, <3>3
    <3> QED
      BY <1>4, <3>2, <3>3
  <2> QED
    BY <2>1 DEF Rising
<1>11. \A h \in Listeners, d \in Nat : Among(listener'[h].queue, d) => Among(listener[h].queue, d) /\ d # x
  <2>1. ASSUME NEW h \in Listeners, NEW d \in Nat, Among(listener'[h].queue, d)
        PROVE  Among(listener[h].queue, d) /\ d # x
    <3>1. CASE h = g
      BY <1>3, <1>5, <1>7, <2>1, <3>1 DEF q
    <3>2. CASE h # g
      BY <1>3, <1>5, <1>6, <1>a, <2>1, <3>2 DEF UdpData, q
    <3> QED
      BY <3>1, <3>2
  <2> QED
    BY <2>1
<1>12. ASSUME NEW h \in Listeners
       PROVE  /\ Rising(listener'[h].queue) /\ Len(listener'[h].queue) <= QueueBound
              /\ \A d \in Nat : Among(listener'[h].queue, d) => d \in 1 .. arrived' /\ ~Among(taken', d)
              /\ listener'[h].thread = "push" <=> listener'[h].got # 0
              /\ listener'[h].got # 0 => /\ h = made' /\ listener'[h].got = arrived'
                                         /\ ~Among(taken', arrived')
                                         /\ \A f \in Listeners : ~Among(listener'[f].queue, arrived')
  <2>1. listener'[h].got = listener[h].got /\ listener'[h].thread = listener[h].thread
    BY <1>5
  <2>2. Rising(listener'[h].queue) /\ Len(listener'[h].queue) <= QueueBound
    <3>1. CASE h # g
      BY <1>5, <1>a, <3>1 DEF UdpData
    <3>2. CASE h = g
      <4>1. Len(q) <= QueueBound
        BY <1>a DEF UdpData, q
      <4>2. Len(Tail(q)) <= QueueBound
        BY <1>3, <4>1, UdpAssumption
      <4>3. ASSUME NEW i \in 1 .. Len(Tail(q)), NEW j \in 1 .. Len(Tail(q)), i < j
            PROVE  Tail(q)[i] < Tail(q)[j]
        <5>1. i + 1 \in 1 .. Len(q) /\ j + 1 \in 1 .. Len(q) /\ i + 1 < j + 1
          BY <1>3, <4>3
        <5> QED
          BY <1>3, <1>6, <5>1 DEF Rising
      <4> QED
        BY <1>5, <3>2, <4>2, <4>3 DEF Rising
    <3> QED
      BY <3>1, <3>2
  <2>3. \A d \in Nat : Among(listener'[h].queue, d) => d \in 1 .. arrived' /\ ~Among(taken', d)
    BY <1>8, <1>11, <1>a DEF UdpData
  <2>4. listener[h].got # 0 => /\ h = made /\ listener[h].got = arrived
                               /\ ~Among(taken, arrived)
                               /\ \A f \in Listeners : ~Among(listener[f].queue, arrived)
    BY <1>a DEF UdpData
  <2>5. listener[h].got # 0 => x # arrived
    BY <1>6, <2>4 DEF q
  <2> QED
    BY <1>1, <1>8, <1>11, <1>a, <2>1, <2>2, <2>3, <2>4, <2>5 DEF UdpData
<1>13. ASSUME NEW d \in Nat, NEW e \in Nat, Among(listener'[made'].queue, e)
       PROVE  /\ Among(taken', d) => d < e
              /\ \A h \in Listeners : h # made' /\ Among(listener'[h].queue, d) => d < e
  <2>1. Among(q, e) /\ x < e
    BY <1>5, <1>7, <1>13
  <2> QED
    BY <1>8, <1>11, <1>a, <2>1 DEF UdpData, q
<1>14. ASSUME NEW d \in 1 .. arrived'
       PROVE  \/ Among(taken', d) \/ \E h \in Listeners : Held(h, d)'
              \/ Cardinality(LaterThan(d)') >= QueueBound
  <2>1. d \in Nat /\ d \in 1 .. arrived
    BY <1>1
  <2>2. CASE Among(taken, d)
    BY <1>8, <2>1, <2>2
  <2>3. CASE \E h \in Listeners : Held(h, d)
    <3>1. PICK h \in Listeners : Held(h, d)
      BY <2>3
    <3>2. CASE listener[h].got = d
      BY <1>5, <3>2 DEF Held
    <3>3. CASE Among(listener[h].queue, d) /\ h # g
      BY <1>5, <3>3 DEF Held
    <3>4. CASE Among(q, d) /\ h = g
      <4>1. PICK i \in 1 .. Len(q) : q[i] = d
        BY <3>4 DEF Among
      <4>2. CASE i = 1
        BY <1>3, <1>8, <2>1, <4>1, <4>2
      <4>3. CASE i # 1
        <5>1. i - 1 \in 1 .. (Len(q) - 1) /\ (i - 1) + 1 = i
          BY <1>3, <4>3
        <5>2. Among(Tail(q), d)
          BY <1>3, <4>1, <5>1 DEF Among
        <5> QED
          BY <1>5, <5>2 DEF Held
      <4> QED
        BY <4>2, <4>3
    <3> QED
      BY <3>1, <3>2, <3>3, <3>4 DEF Held, q
  <2>4. CASE Cardinality(LaterThan(d)) >= QueueBound
    <3>1. LaterThan(d)' = LaterThan(d)
      BY DEF LaterThan
    <3> QED
      BY <2>4, <3>1
  <2> QED
    BY <1>a, <2>1, <2>2, <2>3, <2>4 DEF UdpData
<1>15. \A d \in Nat : Among(taken', d) => d \in 1 .. arrived'
  BY <1>6, <1>8, <1>a DEF UdpData
<1>16. UdpData'
  BY <1>10, <1>12, <1>13, <1>14, <1>15 DEF UdpData
<1> QED
  BY <1>4, <1>5, <1>16

\* What later counting needs: more datagrams leave no fewer later ones.
LEMMA LaterGrows ==
  ASSUME NEW d \in Nat, arrived \in Nat, arrived' \in Nat, arrived <= arrived'
  PROVE  /\ IsFiniteSet(LaterThan(d)) /\ Cardinality(LaterThan(d)) \in Nat
         /\ Cardinality(LaterThan(d)') \in Nat
         /\ Cardinality(LaterThan(d)) <= Cardinality(LaterThan(d)')
<1>1. IsFiniteSet(1 .. arrived')
  BY FS_Interval
<1>2. LaterThan(d)' \in SUBSET (1 .. arrived') /\ LaterThan(d) \in SUBSET LaterThan(d)'
  BY DEF LaterThan
<1>3. IsFiniteSet(LaterThan(d)')
  BY <1>1, <1>2, FS_Subset
<1>4. IsFiniteSet(LaterThan(d)) /\ Cardinality(LaterThan(d)) <= Cardinality(LaterThan(d)')
  BY <1>2, <1>3, FS_Subset
<1> QED
  BY <1>3, <1>4, FS_CardinalityType

\* A listener whose thread runs is the one on record, and the last made.
LEMMA RunningIsLast ==
  ASSUME UdpTypes, UdpControl, NEW g \in Listeners,
         listener[g].open \/ listener[g].thread \in {"check", "recv", "push", "notify"}
  PROVE  g = mapped /\ g = made
<1>1. g = mapped
  BY DEF UdpControl, OneListener
<1>2. g # NoListener
  BY UdpAssumption DEF Listeners, NoListener
<1> QED
  BY <1>1, <1>2 DEF UdpTypes

\* A datagram arrives.
LEMMA RecvKeeps ==
  ASSUME UdpInv, NEW g \in Listeners, ThreadRecv(g)
  PROVE  UdpData' /\ arrived' \in Nat /\ listener' \in [Listeners -> ListenerStates]
<1>a. UdpTypes /\ UdpControl /\ UdpData
  BY DEF UdpInv
<1>1. g = made
  BY <1>a, RunningIsLast DEF ThreadRecv
<1>2. /\ listener[g].thread = "recv" /\ arrived \in Nat /\ arrived' = arrived + 1
      /\ listener' = [listener EXCEPT ![g].thread = "push", ![g].got = arrived + 1]
      /\ taken' = taken /\ made' = made /\ listener \in [Listeners -> ListenerStates]
  BY <1>a DEF ThreadRecv, mainVars, UdpTypes
<1>3. /\ listener' \in [Listeners -> ListenerStates] /\ arrived' \in Nat
      /\ \A h \in Listeners : listener'[h].queue = listener[h].queue
      /\ listener'[g].thread = "push" /\ listener'[g].got = arrived'
      /\ \A h \in Listeners : h # g => listener'[h] = listener[h]
  <2>1. listener[g] \in ListenerStates
    BY <1>2
  <2>2. [listener[g] EXCEPT !.thread = "push", !.got = arrived + 1] \in ListenerStates
    <3>1. arrived + 1 \in Nat /\ "push" \in Threads
      BY <1>2 DEF Threads
    <3>2. \A l \in ListenerStates, n \in Nat : [l EXCEPT !.thread = "push", !.got = n] \in ListenerStates
      BY <3>1 DEF ListenerStates
    <3> QED
      BY <2>1, <3>1, <3>2
  <2>3. listener' = [listener EXCEPT ![g] = [listener[g] EXCEPT !.thread = "push", !.got = arrived + 1]]
    BY <1>2
  <2>4. listener' \in [Listeners -> ListenerStates]
    BY <1>2, <2>2, <2>3
  <2> QED
    BY <1>2, <2>1, <2>4 DEF ListenerStates
<1>4. \A h \in Listeners : listener[h].got = 0
  <2>1. ASSUME NEW h \in Listeners, listener[h].thread = "push" PROVE FALSE
    BY <1>1, <1>2, <1>a, <2>1, RunningIsLast
  <2> QED
    BY <1>a, <2>1 DEF UdpData
<1>5. /\ ~Among(taken, arrived') /\ arrived' # 0
      /\ \A h \in Listeners : ~Among(listener[h].queue, arrived')
  <2>1. arrived' \notin 1 .. arrived /\ arrived' \in Nat /\ arrived' # 0
    BY <1>2
  <2> QED
    BY <1>a, <2>1 DEF UdpData
<1>6. Rising(taken') /\ \A d \in Nat : Among(taken', d) => d \in 1 .. arrived'
  <2>1. \A d \in 1 .. arrived : d \in 1 .. arrived'
    BY <1>2
  <2> QED
    BY <1>2, <1>a, <2>1 DEF UdpData
<1>7. ASSUME NEW h \in Listeners
      PROVE  /\ Rising(listener'[h].queue) /\ Len(listener'[h].queue) <= QueueBound
             /\ \A d \in Nat : Among(listener'[h].queue, d) => d \in 1 .. arrived' /\ ~Among(taken', d)
             /\ listener'[h].thread = "push" <=> listener'[h].got # 0
             /\ listener'[h].got # 0 => /\ h = made' /\ listener'[h].got = arrived'
                                        /\ ~Among(taken', arrived')
                                        /\ \A f \in Listeners : ~Among(listener'[f].queue, arrived')
  <2>1. \A d \in 1 .. arrived : d \in 1 .. arrived'
    BY <1>2
  <2>2. \A d \in Nat : Among(listener'[h].queue, d) => d \in 1 .. arrived' /\ ~Among(taken', d)
    BY <1>2, <1>3, <1>a, <2>1 DEF UdpData
  <2>3. Rising(listener'[h].queue) /\ Len(listener'[h].queue) <= QueueBound
    BY <1>3, <1>a DEF UdpData
  <2>4. CASE h = g
    BY <1>1, <1>2, <1>3, <1>5, <2>2, <2>3, <2>4
  <2>5. CASE h # g
    BY <1>3, <1>4, <1>a, <2>2, <2>3, <2>5 DEF UdpData
  <2> QED
    BY <2>4, <2>5
<1>8. \A d, e \in Nat : made' \in Listeners /\ Among(listener'[made'].queue, e) =>
         /\ Among(taken', d) => d < e
         /\ \A h \in Listeners : h # made' /\ Among(listener'[h].queue, d) => d < e
  BY <1>2, <1>3, <1>a DEF UdpData
<1>9. ASSUME NEW d \in 1 .. arrived'
      PROVE  \/ Among(taken', d) \/ \E h \in Listeners : Held(h, d)'
             \/ Cardinality(LaterThan(d)') >= QueueBound
  <2>1. CASE d = arrived'
    BY <1>3, <2>1 DEF Held
  <2>2. CASE d # arrived'
    <3>1. d \in 1 .. arrived /\ d \in Nat
      BY <1>2, <2>2
    <3>2. CASE Among(taken, d)
      BY <1>2, <3>2
    <3>3. CASE \E h \in Listeners : Held(h, d)
      <4>1. PICK h \in Listeners : Held(h, d)
        BY <3>3
      <4>2. Among(listener[h].queue, d)
        BY <1>4, <3>1, <4>1 DEF Held
      <4> QED
        BY <1>3, <4>2 DEF Held
    <3>4. CASE Cardinality(LaterThan(d)) >= QueueBound
      <4>1. /\ Cardinality(LaterThan(d)) \in Nat /\ Cardinality(LaterThan(d)') \in Nat
            /\ Cardinality(LaterThan(d)) <= Cardinality(LaterThan(d)')
        <5>1. arrived <= arrived'
          BY <1>2
        <5> QED
          BY <1>2, <1>3, <3>1, <5>1, LaterGrows
      <4> QED
        BY <3>4, <4>1, UdpAssumption
    <3> QED
      BY <1>a, <3>1, <3>2, <3>3, <3>4 DEF UdpData
  <2> QED
    BY <2>1, <2>2
<1>10. UdpData'
  BY <1>6, <1>7, <1>8, <1>9 DEF UdpData
<1> QED
  BY <1>3, <1>10

\* A newer datagram at the end of a queue.
LEMMA QueueGrows ==
  ASSUME NEW q \in Seq(Nat), NEW n \in Nat, Rising(q), \A d \in Nat : Among(q, d) => d < n
  PROVE  /\ Append(q, n) \in Seq(Nat) /\ Len(Append(q, n)) = Len(q) + 1 /\ Rising(Append(q, n))
         /\ Among(Append(q, n), n)
         /\ \A d \in Nat : Among(Append(q, n), d) => Among(q, d) \/ d = n
         /\ \A d \in Nat : Among(q, d) => Among(Append(q, n), d)
<1> DEFINE m == Append(q, n)
<1>1. /\ m \in Seq(Nat) /\ Len(m) = Len(q) + 1 /\ m[Len(q) + 1] = n /\ Len(q) \in Nat
      /\ \A i \in 1 .. Len(q) : m[i] = q[i] /\ q[i] \in Nat
  OBVIOUS
<1> HIDE DEF m
<1>2. /\ \A i \in 1 .. Len(m) : i \in 1 .. Len(q) \/ i = Len(q) + 1
      /\ Len(q) + 1 \in 1 .. Len(m) /\ \A i \in 1 .. Len(q) : i \in 1 .. Len(m)
  BY <1>1
<1>3. Rising(m)
  <2>1. ASSUME NEW i \in 1 .. Len(m), NEW j \in 1 .. Len(m), i < j PROVE m[i] < m[j]
    <3>1. i \in 1 .. Len(q)
      BY <1>1, <2>1
    <3>2. CASE j \in 1 .. Len(q)
      BY <1>1, <2>1, <3>1, <3>2 DEF Rising
    <3>3. CASE j = Len(q) + 1
      BY <1>1, <3>1, <3>3 DEF Among
    <3> QED
      BY <1>2, <3>2, <3>3
  <2> QED
    BY <2>1 DEF Rising
<1>4. \A d \in Nat : Among(m, d) => Among(q, d) \/ d = n
  BY <1>1, <1>2 DEF Among
<1>5. \A d \in Nat : Among(q, d) => Among(m, d)
  BY <1>1, <1>2 DEF Among
<1>6. Among(m, n)
  BY <1>1, <1>2 DEF Among
<1> QED
  BY <1>1, <1>3, <1>4, <1>5, <1>6 DEF m

\* The oldest datagram is given up.
LEMMA QueueSlides ==
  ASSUME NEW m \in Seq(Nat), Rising(m), Len(m) > 0
  PROVE  /\ Tail(m) \in Seq(Nat) /\ Len(Tail(m)) = Len(m) - 1 /\ Rising(Tail(m))
         /\ \A d \in Nat : Among(Tail(m), d) => Among(m, d)
         /\ \A d \in Nat : Among(m, d) =>
              Among(Tail(m), d) \/ \A i \in 1 .. Len(Tail(m)) : d < Tail(m)[i]
<1> DEFINE r == Tail(m)
           k == Len(m) - 1
<1>1. Len(m) \in Nat /\ Len(m) = k + 1 /\ k \in Nat /\ m # <<>>
  OBVIOUS
<1>2. r \in Seq(Nat) /\ Len(r) = k /\ \A i \in 1 .. k : r[i] = m[i + 1]
  BY <1>1
<1> HIDE DEF r, k
<1>3. \A i \in 1 .. k : i + 1 \in 1 .. Len(m) /\ 1 < i + 1
  BY <1>1
<1>4. Rising(r)
  <2>1. ASSUME NEW i \in 1 .. k, NEW j \in 1 .. k, i < j PROVE r[i] < r[j]
    <3>1. i + 1 < j + 1
      BY <1>1, <2>1
    <3>2. m[i + 1] < m[j + 1]
      BY <1>3, <3>1 DEF Rising
    <3> QED
      BY <1>2, <3>2
  <2> QED
    BY <1>2, <2>1 DEF Rising
<1>5. \A d \in Nat : Among(r, d) => Among(m, d)
  BY <1>2, <1>3 DEF Among
<1>6. ASSUME NEW d \in Nat, NEW p \in 1 .. Len(m), m[p] = d
      PROVE  Among(r, d) \/ \A i \in 1 .. Len(r) : d < r[i]
  <2>1. CASE p = 1
    <3>1. ASSUME NEW i \in 1 .. k PROVE d < r[i]
      <4>1. m[1] < m[i + 1]
        BY <1>3, <1>6, <2>1 DEF Rising
      <4> QED
        BY <1>2, <1>6, <2>1, <4>1
    <3> QED
      BY <1>2, <3>1
  <2>2. CASE p # 1
    <3>1. p - 1 \in 1 .. k /\ (p - 1) + 1 = p
      BY <1>1, <2>2
    <3>2. r[p - 1] = d
      BY <1>2, <1>6, <3>1
    <3> QED
      BY <1>2, <3>1, <3>2 DEF Among
  <2> QED
    BY <2>1, <2>2
<1>7. \A d \in Nat : Among(m, d) => Among(r, d) \/ \A i \in 1 .. Len(r) : d < r[i]
  BY <1>6 DEF Among
<1> QED
  BY <1>2, <1>4, <1>5, <1>7 DEF r, k

\* A full queue of later datagrams is QueueBound of them.
LEMMA ManyLater ==
  ASSUME NEW r \in Seq(Nat), NEW d \in Nat, arrived \in Nat, Rising(r), Len(r) = QueueBound,
         \A i \in 1 .. Len(r) : r[i] \in LaterThan(d)
  PROVE  Cardinality(LaterThan(d)) >= QueueBound
<1>1. IsFiniteSet(LaterThan(d))
  <2>1. LaterThan(d) \in SUBSET (1 .. arrived)
    BY DEF LaterThan
  <2>2. IsFiniteSet(1 .. arrived)
    BY FS_Interval
  <2> QED
    BY <2>1, <2>2, FS_Subset
<1> DEFINE S == 1 .. QueueBound
           f == [i \in S |-> r[i]]
<1>2. \A i, j \in S : r[i] = r[j] => i = j
  <2>1. ASSUME NEW i \in S, NEW j \in S, i < j PROVE r[i] # r[j]
    <3>1. r[i] < r[j] /\ r[i] \in Nat /\ r[j] \in Nat
      BY <2>1 DEF Rising
    <3> QED
      BY <3>1
  <2> QED
    BY <2>1, UdpAssumption
<1>3. f \in Injection(S, LaterThan(d))
  BY <1>2 DEF Injection, IsInjective
<1>4. Cardinality(S) <= Cardinality(LaterThan(d))
  <2> HIDE DEF f, S
  <2> QED
    BY <1>1, <1>3, FS_Injection
<1>5. Cardinality(S) = QueueBound
  <2>1. Cardinality(S) = IF 1 > QueueBound THEN 0 ELSE QueueBound - 1 + 1
    BY FS_Interval, UdpAssumption
  <2> HIDE DEF S
  <2> QED
    BY <2>1, UdpAssumption
<1>6. Cardinality(LaterThan(d)) \in Nat
  BY <1>1, FS_CardinalityType
<1> HIDE DEF S, f
<1> QED
  BY <1>4, <1>5, <1>6, UdpAssumption

\* The thread puts the datagram it received into its queue.
LEMMA PushKeeps ==
  ASSUME UdpInv, NEW g \in Listeners, ThreadPush(g)
  PROVE  UdpData' /\ listener' \in [Listeners -> ListenerStates]
<1> DEFINE q == listener[g].queue
           m == Append(q, arrived)
           r == listener'[g].queue
<1>a. UdpTypes /\ UdpControl /\ UdpData
  BY DEF UdpInv
<1>1. g = made /\ listener[g].thread = "push"
  BY <1>a, RunningIsLast DEF ThreadPush
<1>2. /\ listener[g].got = arrived /\ arrived # 0 /\ ~Among(taken, arrived)
      /\ \A h \in Listeners : ~Among(listener[h].queue, arrived)
  BY <1>1, <1>a DEF UdpData
<1>3. /\ listener \in [Listeners -> ListenerStates] /\ listener[g] \in ListenerStates
      /\ arrived' = arrived /\ arrived \in Nat /\ taken' = taken /\ made' = made
  BY <1>a DEF ThreadPush, mainVars, UdpTypes
<1>4. q \in Seq(Nat) /\ Rising(q) /\ Len(q) <= QueueBound /\ Len(q) \in Nat
  BY <1>3, <1>a DEF ListenerStates, UdpData
<1>5. \A d \in Nat : Among(q, d) => d \in 1 .. arrived /\ d < arrived
  <2>1. ASSUME NEW d \in Nat, Among(q, d) PROVE d \in 1 .. arrived /\ d < arrived
    <3>1. d \in 1 .. arrived /\ d # arrived
      BY <1>2, <1>a, <2>1 DEF UdpData
    <3> QED
      BY <1>3, <3>1
  <2> QED
    BY <2>1
<1>6. listener' = [listener EXCEPT ![g].queue = IF Len(m) > QueueBound THEN Tail(m) ELSE m,
                     ![g].sender = arrived, ![g].got = 0, ![g].thread = "notify"]
  BY <1>2 DEF ThreadPush
<1> HIDE DEF q
<1>7. /\ m \in Seq(Nat) /\ Len(m) = Len(q) + 1 /\ Rising(m) /\ Among(m, arrived)
      /\ \A d \in Nat : Among(m, d) => Among(q, d) \/ d = arrived
      /\ \A d \in Nat : Among(q, d) => Among(m, d)
  BY <1>3, <1>4, <1>5, QueueGrows
<1> HIDE DEF m
<1>8. (IF Len(m) > QueueBound THEN Tail(m) ELSE m) \in Seq(Nat)
  BY <1>4, <1>7, QueueSlides, UdpAssumption
<1>9. /\ listener' \in [Listeners -> ListenerStates]
      /\ r = IF Len(m) > QueueBound THEN Tail(m) ELSE m
      /\ listener'[g].got = 0 /\ listener'[g].thread = "notify"
      /\ \A h \in Listeners : h # g => listener'[h] = listener[h]
  <2> DEFINE nq == IF Len(m) > QueueBound THEN Tail(m) ELSE m
  <2>1. listener' = [listener EXCEPT ![g].queue = nq, ![g].sender = arrived, ![g].got = 0,
                       ![g].thread = "notify"]
    BY <1>6
  <2>2. nq \in Seq(Nat)
    BY <1>8
  <2> HIDE DEF nq
  <2>3. "notify" \in Threads /\ 0 \in Nat
    BY DEF Threads
  <2>4. \A l \in ListenerStates :
          [l EXCEPT !.queue = nq, !.sender = arrived, !.got = 0, !.thread = "notify"]
            \in ListenerStates
    BY <1>3, <2>2, <2>3 DEF ListenerStates
  <2>5. listener' = [listener EXCEPT ![g] = [listener[g] EXCEPT
                       !.queue = nq, !.sender = arrived, !.got = 0, !.thread = "notify"]]
    BY <1>3, <2>1
  <2>6. listener' \in [Listeners -> ListenerStates]
    BY <1>3, <2>4, <2>5
  <2>7. /\ r = nq /\ listener'[g].got = 0 /\ listener'[g].thread = "notify"
        /\ \A h \in Listeners : h # g => listener'[h] = listener[h]
    BY <1>3, <2>1 DEF ListenerStates
  <2> QED
    BY <2>6, <2>7 DEF nq
<1> HIDE DEF r
<1>10. /\ r \in Seq(Nat) /\ Rising(r) /\ Len(r) <= QueueBound
       /\ \A d \in Nat : Among(r, d) => Among(m, d)
       /\ \A d \in Nat : Among(m, d) =>
            Among(r, d) \/ (Len(r) = QueueBound /\ \A i \in 1 .. Len(r) : d < r[i])
  <2>1. CASE Len(m) > QueueBound
    <3>1. r = Tail(m) /\ Len(m) > 0 /\ Len(m) - 1 = QueueBound
      BY <1>4, <1>7, <1>9, <2>1, UdpAssumption
    <3>2. /\ r \in Seq(Nat) /\ Len(r) = Len(m) - 1 /\ Rising(r)
          /\ \A d \in Nat : Among(r, d) => Among(m, d)
          /\ \A d \in Nat : Among(m, d) => Among(r, d) \/ \A i \in 1 .. Len(r) : d < r[i]
      BY <1>7, <3>1, QueueSlides
    <3>3. Len(r) = QueueBound /\ Len(r) <= QueueBound
      BY <3>1, <3>2, UdpAssumption
    <3> QED
      BY <3>2, <3>3
  <2>2. CASE ~(Len(m) > QueueBound)
    <3>1. r = m /\ Len(m) <= QueueBound
      BY <1>4, <1>7, <1>9, <2>2, UdpAssumption
    <3> QED
      BY <1>7, <3>1
  <2> QED
    BY <2>1, <2>2
<1>11. \A h \in Listeners : listener'[h].got = 0 /\ listener'[h].thread # "push"
  <2>1. ASSUME NEW h \in Listeners, h # g PROVE listener[h].thread # "push"
    BY <1>1, <1>a, <2>1, RunningIsLast
  <2>2. ASSUME NEW h \in Listeners, h # g PROVE listener[h].got = 0
    BY <1>a, <2>1, <2>2 DEF UdpData
  <2> QED
    BY <1>9, <2>1, <2>2
<1>12. Among(r, arrived)
  <2>1. ~(Len(r) = QueueBound /\ \A i \in 1 .. Len(r) : arrived < r[i])
    <3>1. ASSUME Len(r) = QueueBound, \A i \in 1 .. Len(r) : arrived < r[i] PROVE FALSE
      <4>1. 1 \in 1 .. Len(r) /\ r[1] \in Nat
        BY <1>10, <3>1, UdpAssumption
      <4>2. Among(r, r[1])
        BY <4>1 DEF Among
      <4>3. r[1] <= arrived
        BY <1>3, <1>5, <1>7, <1>10, <4>1, <4>2
      <4> QED
        BY <1>3, <3>1, <4>1, <4>3
    <3> QED
      BY <3>1
  <2> QED
    BY <1>3, <1>7, <1>10, <2>1
<1>13. ASSUME NEW h \in Listeners
       PROVE  /\ Rising(listener'[h].queue) /\ Len(listener'[h].queue) <= QueueBound
              /\ \A d \in Nat : Among(listener'[h].queue, d) => d \in 1 .. arrived' /\ ~Among(taken', d)
              /\ listener'[h].thread = "push" <=> listener'[h].got # 0
              /\ listener'[h].got # 0 => /\ h = made' /\ listener'[h].got = arrived'
                                         /\ ~Among(taken', arrived')
                                         /\ \A f \in Listeners : ~Among(listener'[f].queue, arrived')
  <2>1. CASE h = g
    <3>1. ASSUME NEW d \in Nat, Among(r, d) PROVE d \in 1 .. arrived /\ ~Among(taken, d)
      <4>1. CASE Among(q, d)
        BY <1>5, <1>a, <4>1 DEF UdpData, q
      <4>2. CASE d = arrived
        BY <1>2, <1>3, <4>2
      <4> QED
        BY <1>7, <1>10, <3>1, <4>1, <4>2
    <3> QED
      BY <1>3, <1>10, <1>11, <2>1, <3>1 DEF r
  <2>2. CASE h # g
    BY <1>3, <1>9, <1>11, <1>a, <2>2 DEF UdpData
  <2> QED
    BY <2>1, <2>2
<1>14. ASSUME NEW d \in Nat, NEW e \in Nat, Among(listener'[made'].queue, e)
       PROVE  /\ Among(taken', d) => d < e
              /\ \A h \in Listeners : h # made' /\ Among(listener'[h].queue, d) => d < e
  <2>1. Among(q, e) \/ e = arrived
    BY <1>1, <1>3, <1>7, <1>10, <1>14 DEF r
  <2>2. CASE Among(q, e)
    BY <1>1, <1>3, <1>9, <1>a, <2>2 DEF UdpData, q
  <2>3. CASE e = arrived
    <3>1. ASSUME d \in 1 .. arrived, d # arrived PROVE d < e
      BY <1>3, <2>3, <3>1
    <3> QED
      BY <1>1, <1>2, <1>3, <1>9, <1>a, <2>3, <3>1 DEF UdpData
  <2> QED
    BY <2>1, <2>2, <2>3
<1>15. ASSUME NEW d \in 1 .. arrived'
       PROVE  \/ Among(taken', d) \/ \E h \in Listeners : Held(h, d)'
              \/ Cardinality(LaterThan(d)') >= QueueBound
  <2>1. d \in Nat /\ d \in 1 .. arrived /\ LaterThan(d)' = LaterThan(d)
    BY <1>3 DEF LaterThan
  <2>2. CASE Among(taken, d) \/ Cardinality(LaterThan(d)) >= QueueBound
    BY <1>3, <2>1, <2>2
  <2>3. CASE \E h \in Listeners : Held(h, d)
    <3>1. PICK h \in Listeners : Held(h, d)
      BY <2>3
    <3>2. CASE listener[h].got = d
      <4>1. d = arrived
        BY <1>a, <2>1, <3>2 DEF UdpData
      <4> QED
        BY <1>12, <4>1 DEF Held, r
    <3>3. CASE Among(listener[h].queue, d) /\ h # g
      BY <1>9, <3>3 DEF Held
    <3>4. CASE Among(q, d)
      <4>1. CASE Among(r, d)
        BY <4>1 DEF Held, r
      <4>2. CASE Len(r) = QueueBound /\ \A i \in 1 .. Len(r) : d < r[i]
        <5>1. ASSUME NEW i \in 1 .. Len(r) PROVE r[i] \in LaterThan(d)
          <6>1. r[i] \in Nat
            BY <1>10
          <6>2. Among(r, r[i])
            BY DEF Among
          <6>3. Among(q, r[i]) \/ r[i] = arrived
            BY <1>7, <1>10, <6>1, <6>2
          <6>4. r[i] \in 1 .. arrived
            BY <1>2, <1>3, <1>5, <6>1, <6>3
          <6> QED
            BY <4>2, <6>1, <6>4 DEF LaterThan
        <5>2. Cardinality(LaterThan(d)) >= QueueBound
          BY <1>3, <1>10, <2>1, <4>2, <5>1, ManyLater
        <5> QED
          BY <2>1, <5>2
      <4> QED
        BY <1>7, <1>10, <2>1, <3>4, <4>1, <4>2
    <3> QED
      BY <3>1, <3>2, <3>3, <3>4 DEF Held, q
  <2> QED
    BY <1>a, <2>1, <2>2, <2>3 DEF UdpData
<1>16. Rising(taken') /\ \A d \in Nat : Among(taken', d) => d \in 1 .. arrived'
  BY <1>3, <1>a DEF UdpData
<1>17. UdpData'
  BY <1>13, <1>14, <1>15, <1>16 DEF UdpData
<1> QED
  BY <1>9, <1>17

\* A step of a coroutine.
LEMMA RequestKeeps ==
  ASSUME UdpInv, UdpData', NEW r \in Requests, NEW l \in UdpPcs, NEW k \in Nat,
         udpPc' = [udpPc EXCEPT ![r] = l], udpRef' = [udpRef EXCEPT ![r] = k],
         l \in UsingPcs =>
           k = made /\ made # NoListener /\ (mapped # NoListener \/ udpMain = "pool"),
         udpMain' = udpMain, mapped' = mapped, made' = made, arrived' = arrived,
         taken' \in Seq(Nat), listener' \in [Listeners -> ListenerStates],
         \A h \in Listeners : /\ listener'[h].open = listener[h].open
                              /\ listener'[h].thread = listener[h].thread
                              /\ h # made => listener'[h] = listener[h]
  PROVE  UdpInv'
<1>a. UdpTypes /\ UdpControl
  BY DEF UdpInv
<1>1. UdpTypes'
  BY <1>a DEF UdpTypes
<1>2. OneListener'
  BY <1>a DEF UdpControl, OneListener
<1>3. \A g \in Listeners : g > made => listener'[g].queue = <<>>
  <2>1. \A g \in Listeners : g > made => g # made
    BY <1>a, UdpAssumption DEF UdpTypes, Listeners
  <2> QED
    BY <1>a, <2>1 DEF UdpControl
<1>4. ASSUME NEW s \in Requests, udpPc'[s] \in UsingPcs
      PROVE  udpRef'[s] = made /\ made # NoListener /\ (mapped # NoListener \/ udpMain = "pool")
  <2>1. CASE s = r
    BY <1>4, <1>a, <2>1 DEF UdpTypes
  <2>2. CASE s # r
    BY <1>4, <1>a, <2>2 DEF UdpTypes, UdpControl
  <2> QED
    BY <2>1, <2>2
<1>5. udpMain' = "join" => ~listener'[mapped'].open
  <2>1. ASSUME udpMain = "join" PROVE ~listener'[mapped].open
    <3>1. mapped # NoListener /\ mapped = made /\ ~listener[mapped].open
      BY <1>a, <2>1 DEF UdpControl, UdpTypes
    <3>2. mapped \in Listeners
      BY <1>a, <3>1, UdpAssumption DEF UdpTypes, Listeners, NoListener
    <3> QED
      BY <3>1, <3>2
  <2> QED
    BY <2>1
<1>6. UdpControl'
  BY <1>2, <1>3, <1>4, <1>5, <1>a DEF UdpControl
<1> QED
  BY <1>1, <1>6 DEF UdpInv

\* A step of a listener's thread; it may wake coroutines.
LEMMA ThreadKeeps ==
  ASSUME UdpInv, UdpData', NEW g \in Listeners,
         listener[g].thread \in {"check", "recv", "push", "notify"},
         listener' \in [Listeners -> ListenerStates],
         listener'[g].open = listener[g].open,
         \A h \in Listeners : h # g => listener'[h] = listener[h],
         udpPc' \in [Requests -> UdpPcs],
         \A s \in Requests : udpPc'[s] = udpPc[s] \/ udpPc[s] \in UsingPcs,
         udpMain' = udpMain, mapped' = mapped, made' = made, udpRef' = udpRef,
         arrived' \in Nat, taken' = taken
  PROVE  UdpInv'
<1>a. UdpTypes /\ UdpControl
  BY DEF UdpInv
<1>0. g = mapped /\ g = made
  BY <1>a, RunningIsLast
<1>1. UdpTypes'
  BY <1>a DEF UdpTypes
<1>2. OneListener'
  BY <1>0, <1>a DEF UdpControl, OneListener
<1>3. \A h \in Listeners : h > made => listener'[h].queue = <<>>
  <2>1. \A h \in Listeners : h > made => h # made
    BY <1>a, UdpAssumption DEF UdpTypes, Listeners
  <2> QED
    BY <1>0, <1>a, <2>1 DEF UdpControl
<1>4. udpMain' = "join" => ~listener'[mapped'].open
  BY <1>0, <1>a DEF UdpControl
<1>5. UdpControl'
  BY <1>2, <1>3, <1>4, <1>a DEF UdpControl
<1> QED
  BY <1>1, <1>5 DEF UdpInv

\* A step of main that leaves the listeners and the datagrams alone.
LEMMA MainKeeps ==
  ASSUME UdpInv, udpMain' \in UdpMains, mapped' = mapped, made' = made, listener' = listener,
         udpPc' = udpPc, udpRef' = udpRef, arrived' = arrived, taken' = taken,
         udpMain' = "udp_listen" => made < Listens, udpMain' \notin {"close", "join"},
         udpMain = "pool" => \A s \in Requests : udpPc[s] \notin UsingPcs
  PROVE  UdpInv'
<1>a. UdpTypes /\ UdpControl /\ UdpData
  BY DEF UdpInv
<1>1. UdpTypes'
  BY <1>a DEF UdpTypes
<1>2. UdpControl'
  BY <1>a DEF UdpControl, OneListener
<1>3. UdpData'
  BY <1>a, DataStays
<1> QED
  BY <1>1, <1>2, <1>3 DEF UdpInv

\* A new listener is made when no thread of an earlier one is left.
LEMMA ListenKeeps == UdpInv /\ UdpListen => UdpInv'
<1> SUFFICES ASSUME UdpInv, UdpListen PROVE UdpInv'
  OBVIOUS
<1>a. UdpTypes /\ UdpControl /\ UdpData
  BY DEF UdpInv
<1>1. /\ udpMain = "udp_listen" /\ udpMain' = "idle" /\ udpPc' = udpPc /\ udpRef' = udpRef
      /\ arrived' = arrived /\ taken' = taken
  BY DEF UdpListen, requestVars
<1>2. CASE UNCHANGED <<mapped, made, listener>>
  BY <1>1, <1>2, MainKeeps DEF UdpMains
<1>3. CASE /\ mapped = NoListener /\ \A g \in Listeners : ~listener[g].open
           /\ made' = made + 1 /\ mapped' = made + 1
           /\ listener' = [listener EXCEPT ![made + 1].open = TRUE,
                                           ![made + 1].thread = "check"]
  <2> DEFINE n == made + 1
  <2>1. /\ n \in Listeners /\ n # NoListener /\ n \in 0 .. Listens /\ n > made
        /\ made \in Nat
    BY <1>1, <1>a, UdpAssumption DEF UdpControl, UdpTypes, Listeners, NoListener
  <2> HIDE DEF n
  <2>2. /\ listener' = [listener EXCEPT ![n].open = TRUE, ![n].thread = "check"]
        /\ listener \in [Listeners -> ListenerStates] /\ made' = n /\ mapped' = n
    BY <1>3, <1>a DEF UdpTypes, n
  <2>3. /\ \A h \in Listeners : /\ listener'[h].queue = listener[h].queue
                                /\ listener'[h].got = listener[h].got
                                /\ h # n => listener'[h] = listener[h]
        /\ listener'[n].thread = "check"
    BY <2>1, <2>2 DEF ListenerStates
  <2>4. listener' \in [Listeners -> ListenerStates]
    <3>1. "check" \in Threads
      BY DEF Threads
    <3>2. \A l \in ListenerStates : [l EXCEPT !.open = TRUE, !.thread = "check"] \in ListenerStates
      BY <3>1 DEF ListenerStates
    <3>3. listener' = [listener EXCEPT ![n] = [listener[n] EXCEPT !.open = TRUE, !.thread = "check"]]
      BY <2>2
    <3>4. [listener[n] EXCEPT !.open = TRUE, !.thread = "check"] \in ListenerStates
      BY <2>1, <2>2, <3>2
    <3>5. \A v \in ListenerStates : [listener EXCEPT ![n] = v] \in [Listeners -> ListenerStates]
      BY <2>2
    <3> QED
      BY <3>3, <3>4, <3>5
  <2>5. \A h \in Listeners : listener[h].thread \in {"none", "end"} /\ listener[h].got = 0
    <3>1. ASSUME NEW h \in Listeners PROVE listener[h].thread \in {"none", "end"}
      <4>1. h # mapped
        BY <1>3, UdpAssumption DEF Listeners, NoListener
      <4> QED
        BY <1>a, <4>1 DEF UdpControl, OneListener
    <3> QED
      BY <1>a, <3>1 DEF UdpData
  <2>6. listener[n].queue = <<>>
    BY <1>a, <2>1 DEF UdpControl
  <2>7. UdpTypes'
    BY <1>1, <1>a, <2>1, <2>2, <2>4 DEF UdpTypes, UdpMains
  <2>8. OneListener'
    BY <1>3, <2>2, <2>3, <2>5 DEF OneListener
  <2>9. \A h \in Listeners : h > made' => listener'[h].queue = <<>>
    <3>1. \A h \in Listeners : h > n => h > made
      BY <2>1, UdpAssumption DEF Listeners, n
    <3> QED
      BY <1>a, <2>2, <2>3, <3>1 DEF UdpControl
  <2>10. \A s \in Requests : udpPc[s] \notin UsingPcs
    BY <1>1, <1>3, <1>a DEF UdpControl
  <2>11. UdpControl'
    BY <1>1, <2>8, <2>9, <2>10 DEF UdpControl
  <2>12. \A h \in Listeners : listener'[h].thread # "push" /\ listener'[h].got = 0
    BY <2>3, <2>5
  <2>13. \A e : ~Among(listener'[n].queue, e)
    BY <2>1, <2>3, <2>6 DEF Among
  <2>14. \A d \in 1 .. arrived' : \/ Among(taken', d) \/ \E g \in Listeners : Held(g, d)'
                                  \/ Cardinality(LaterThan(d)') >= QueueBound
    <3>1. ASSUME NEW g \in Listeners, NEW d, Held(g, d) PROVE Held(g, d)'
      BY <2>3, <3>1 DEF Held
    <3>2. \A d : LaterThan(d)' = LaterThan(d)
      BY <1>1 DEF LaterThan
    <3> QED
      BY <1>1, <1>a, <3>1, <3>2 DEF UdpData
  <2>15. ASSUME NEW g \in Listeners
         PROVE  /\ Rising(listener'[g].queue) /\ Len(listener'[g].queue) <= QueueBound
                /\ \A d \in Nat : Among(listener'[g].queue, d) => d \in 1 .. arrived' /\ ~Among(taken', d)
    BY <1>1, <1>a, <2>3 DEF UdpData
  <2>16. UdpData'
    BY <1>1, <1>a, <2>2, <2>12, <2>13, <2>14, <2>15 DEF UdpData
  <2> QED
    BY <2>7, <2>11, <2>16 DEF UdpInv
<1> QED
  BY <1>2, <1>3 DEF UdpListen

\* stop(): the flag, the socket, the thread.
LEMMA StopKeeps == UdpInv /\ (StopFlag \/ StopClose \/ StopJoin) => UdpInv'
<1> SUFFICES ASSUME UdpInv, StopFlag \/ StopClose \/ StopJoin PROVE UdpInv'
  OBVIOUS
<1>a. UdpTypes /\ UdpControl /\ UdpData
  BY DEF UdpInv
<1>b. mapped # NoListener => mapped \in Listeners /\ mapped = made
  BY <1>a, UdpAssumption DEF UdpTypes, Listeners, NoListener
<1>c. listener \in [Listeners -> ListenerStates]
  BY <1>a DEF UdpTypes
<1>1. CASE StopFlag
  <2>1. /\ mapped # NoListener /\ udpMain' = "close" /\ udpPc' = udpPc /\ udpRef' = udpRef
        /\ listener' = [listener EXCEPT ![mapped].stop = TRUE] /\ mapped' = mapped
        /\ made' = made /\ arrived' = arrived /\ taken' = taken /\ udpMain = "stop_listen"
    BY <1>1 DEF StopFlag, requestVars
  <2>2. /\ listener' \in [Listeners -> ListenerStates]
        /\ \A h \in Listeners : /\ listener'[h].queue = listener[h].queue
                                /\ listener'[h].got = listener[h].got
                                /\ listener'[h].thread = listener[h].thread
                                /\ listener'[h].open = listener[h].open
    BY <1>b, <1>c, <2>1 DEF ListenerStates
  <2>3. UdpData'
    BY <1>a, <2>1, <2>2, DataStays
  <2>4. UdpTypes'
    BY <1>a, <2>1, <2>2 DEF UdpTypes, UdpMains
  <2>5. UdpControl'
    BY <1>a, <2>1, <2>2 DEF UdpControl, OneListener
  <2> QED
    BY <2>3, <2>4, <2>5 DEF UdpInv
<1>2. CASE StopClose
  <2>1. /\ udpMain = "close" /\ udpMain' = "join" /\ udpRef' = udpRef /\ mapped' = mapped
        /\ listener' = [listener EXCEPT ![mapped].open = FALSE]
        /\ udpPc' = [r \in Requests |->
              IF udpPc[r] = "asleep" /\ udpRef[r] = mapped THEN "task" ELSE udpPc[r]]
        /\ made' = made /\ arrived' = arrived /\ taken' = taken
    BY <1>2 DEF StopClose
  <2>2. mapped \in Listeners /\ mapped # NoListener /\ mapped = made
    BY <1>a, <1>b, <2>1 DEF UdpControl
  <2>3. /\ listener' \in [Listeners -> ListenerStates] /\ ~listener'[mapped].open
        /\ \A h \in Listeners : /\ listener'[h].queue = listener[h].queue
                                /\ listener'[h].got = listener[h].got
                                /\ listener'[h].thread = listener[h].thread
                                /\ h # mapped => listener'[h].open = listener[h].open
    BY <1>c, <2>1, <2>2 DEF ListenerStates
  <2>4. UdpData'
    BY <1>a, <2>1, <2>3, DataStays
  <2>5. /\ udpPc' \in [Requests -> UdpPcs]
        /\ \A s \in Requests : udpPc'[s] \in UsingPcs => udpPc[s] \in UsingPcs
    BY <1>a, <2>1 DEF UdpTypes, UdpPcs, UsingPcs
  <2>6. UdpTypes'
    BY <1>a, <2>1, <2>3, <2>5 DEF UdpTypes, UdpMains
  <2>7. UdpControl'
    BY <1>a, <2>1, <2>2, <2>3, <2>5 DEF UdpControl, OneListener
  <2> QED
    BY <2>4, <2>6, <2>7 DEF UdpInv
<1>3. CASE StopJoin
  <2>1. /\ udpMain' = "pool" /\ mapped' = NoListener /\ made' = made /\ listener' = listener
        /\ udpPc' = udpPc /\ udpRef' = udpRef /\ arrived' = arrived /\ taken' = taken
    BY <1>3 DEF StopJoin, requestVars
  <2>2. UdpData'
    BY <1>a, <2>1, DataStays
  <2>3. UdpTypes'
    BY <1>a, <2>1 DEF UdpTypes, UdpMains
  <2>4. OneListener'
    <3>1. ASSUME NEW g \in Listeners
          PROVE  listener[g].thread \in {"none", "end"} /\ ~listener[g].open
      <4>1. CASE g # mapped
        BY <1>a, <4>1 DEF UdpControl, OneListener
      <4>2. CASE g = mapped
        <5>1. mapped # NoListener
          BY <4>2, UdpAssumption DEF Listeners, NoListener
        <5> QED
          BY <1>3, <1>a, <4>2, <5>1 DEF StopJoin, UdpControl
      <4> QED
        BY <4>1, <4>2
    <3> QED
      BY <2>1, <3>1 DEF OneListener
  <2>5. UdpControl'
    BY <1>a, <2>1, <2>4 DEF UdpControl
  <2> QED
    BY <2>2, <2>3, <2>5 DEF UdpInv
<1> QED
  BY <1>1, <1>2, <1>3

\* A listener's thread.
LEMMA ThreadStepKeeps ==
  ASSUME UdpInv, NEW g \in Listeners, ThreadStep(g)
  PROVE  UdpInv'
<1>a. UdpTypes /\ UdpControl /\ UdpData
  BY DEF UdpInv
<1>b. listener \in [Listeners -> ListenerStates] /\ udpPc \in [Requests -> UdpPcs]
  BY <1>a DEF UdpTypes
<1>c. ASSUME NEW l \in Threads \ {"push"}, listener[g].thread \in {"check", "recv", "notify"},
             listener' = [listener EXCEPT ![g].thread = l],
             arrived' = arrived, taken' = taken, made' = made
      PROVE  /\ UdpData' /\ listener' \in [Listeners -> ListenerStates]
             /\ listener'[g].open = listener[g].open
             /\ \A h \in Listeners : h # g => listener'[h] = listener[h]
  <2>1. /\ listener' \in [Listeners -> ListenerStates]
        /\ listener'[g].open = listener[g].open /\ listener'[g].thread = l
        /\ \A h \in Listeners : /\ listener'[h].queue = listener[h].queue
                                /\ listener'[h].got = listener[h].got
                                /\ h # g => listener'[h] = listener[h]
    BY <1>b, <1>c DEF ListenerStates
  <2>2. \A h \in Listeners : listener'[h].thread = "push" <=> listener[h].thread = "push"
    BY <1>c, <2>1
  <2> QED
    BY <1>a, <1>c, <2>1, <2>2, DataStays
<1>d. "end" \in Threads \ {"push"} /\ "recv" \in Threads \ {"push"} /\ "check" \in Threads \ {"push"}
  BY DEF Threads
<1>1. CASE ThreadCheck(g)
  <2>1. PICK l \in Threads \ {"push"} : listener' = [listener EXCEPT ![g].thread = l]
    BY <1>1, <1>d DEF ThreadCheck, Thread
  <2>2. /\ listener[g].thread = "check" /\ arrived' = arrived /\ taken' = taken /\ made' = made
        /\ udpMain' = udpMain /\ mapped' = mapped /\ udpRef' = udpRef /\ udpPc' = udpPc
        /\ arrived \in Nat
    BY <1>1, <1>a DEF ThreadCheck, mainVars, requestVars, UdpTypes
  <2> QED
    BY <1>b, <1>c, <2>1, <2>2, ThreadKeeps
<1>2. CASE ThreadRecv(g)
  <2>1. UdpData' /\ arrived' \in Nat /\ listener' \in [Listeners -> ListenerStates]
    BY <1>2, RecvKeeps
  <2>2. /\ listener[g].thread = "recv" /\ taken' = taken /\ made' = made
        /\ udpMain' = udpMain /\ mapped' = mapped /\ udpRef' = udpRef /\ udpPc' = udpPc
        /\ listener' = [listener EXCEPT ![g].thread = "push", ![g].got = arrived + 1]
    BY <1>2 DEF ThreadRecv, mainVars, requestVars
  <2>3. /\ listener'[g].open = listener[g].open
        /\ \A h \in Listeners : h # g => listener'[h] = listener[h]
    BY <1>b, <2>2 DEF ListenerStates
  <2> QED
    BY <1>b, <2>1, <2>2, <2>3, ThreadKeeps
<1>3. CASE ThreadTimeout(g)
  <2>1. /\ listener[g].thread = "recv" /\ arrived' = arrived /\ taken' = taken /\ made' = made
        /\ udpMain' = udpMain /\ mapped' = mapped /\ udpRef' = udpRef /\ udpPc' = udpPc
        /\ arrived \in Nat /\ listener' = [listener EXCEPT ![g].thread = "check"]
    BY <1>3, <1>a DEF ThreadTimeout, Thread, mainVars, requestVars, UdpTypes
  <2> QED
    BY <1>b, <1>c, <1>d, <2>1, ThreadKeeps
<1>4. CASE ThreadPush(g)
  <2>1. UdpData' /\ listener' \in [Listeners -> ListenerStates]
    BY <1>4, PushKeeps
  <2>2. /\ listener[g].thread = "push" /\ arrived' = arrived /\ taken' = taken /\ made' = made
        /\ udpMain' = udpMain /\ mapped' = mapped /\ udpRef' = udpRef /\ udpPc' = udpPc
        /\ arrived \in Nat
    BY <1>4, <1>a DEF ThreadPush, mainVars, requestVars, UdpTypes
  <2>3. PICK nq, n : listener' = [listener EXCEPT ![g].queue = nq, ![g].sender = n,
                                                  ![g].got = 0, ![g].thread = "notify"]
    BY <1>4 DEF ThreadPush
  <2>4. /\ listener'[g].open = listener[g].open
        /\ \A h \in Listeners : h # g => listener'[h] = listener[h]
    BY <1>b, <2>3 DEF ListenerStates
  <2> QED
    BY <1>b, <2>1, <2>2, <2>4, ThreadKeeps
<1>5. CASE ThreadNotify(g)
  <2>1. /\ listener[g].thread = "notify" /\ arrived' = arrived /\ taken' = taken /\ made' = made
        /\ udpMain' = udpMain /\ mapped' = mapped /\ udpRef' = udpRef
        /\ arrived \in Nat /\ listener' = [listener EXCEPT ![g].thread = "check"]
    BY <1>5, <1>a DEF ThreadNotify, Thread, mainVars, UdpTypes
  <2>2. /\ udpPc' \in [Requests -> UdpPcs]
        /\ \A s \in Requests : udpPc'[s] = udpPc[s] \/ udpPc[s] \in UsingPcs
    <3>1. CASE udpPc' = udpPc
      BY <1>b, <3>1
    <3>2. CASE \E s \in Requests : udpPc[s] = "asleep" /\ udpPc' = [udpPc EXCEPT ![s] = "task"]
      BY <1>b, <3>2 DEF UdpPcs, UsingPcs
    <3> QED
      BY <1>5, <3>1, <3>2 DEF ThreadNotify, UdpGoto
  <2> QED
    BY <1>b, <1>c, <1>d, <2>1, <2>2, ThreadKeeps
<1> QED
  BY <1>1, <1>2, <1>3, <1>4, <1>5 DEF ThreadStep

\* A coroutine of udp_recv() or udp_reply(), up to its return to main_warp.
LEMMA RequestStepKeeps ==
  ASSUME UdpInv, NEW r \in Requests, RequestStep(r)
  PROVE  UdpInv'
<1>a. UdpTypes /\ UdpControl /\ UdpData
  BY DEF UdpInv
<1>b. /\ listener \in [Listeners -> ListenerStates] /\ taken \in Seq(Nat)
      /\ udpRef \in [Requests -> Nat] /\ udpRef = [udpRef EXCEPT ![r] = udpRef[r]]
      /\ udpRef[r] \in Nat
  BY <1>a DEF UdpTypes
<1>c. udpPc[r] \in UsingPcs =>
        /\ udpRef[r] = made /\ made \in Listeners /\ made # NoListener
        /\ mapped # NoListener \/ udpMain = "pool"
  <2>1. made # NoListener => made \in Listeners
    BY <1>a, UdpAssumption DEF UdpTypes, Listeners, NoListener
  <2> QED
    BY <1>a, <2>1 DEF UdpControl
<1>d. /\ "task" \in UdpPcs /\ "checked" \in UdpPcs /\ "asleep" \in UdpPcs /\ "send" \in UdpPcs
      /\ "return" \in UdpPcs /\ "return" \notin UsingPcs
      /\ "task" \in UsingPcs /\ "checked" \in UsingPcs /\ "asleep" \in UsingPcs
      /\ "send" \in UsingPcs
  BY DEF UdpPcs, UsingPcs
\* it takes a datagram, or leaves the queue as it is
<1>e. ASSUME NEW l \in UdpPcs, udpPc[r] \in UsingPcs, udpPc' = [udpPc EXCEPT ![r] = l],
             \/ listener[udpRef[r]].queue # <<>> /\ Take(udpRef[r])
             \/ UNCHANGED <<listener, taken>>,
             UNCHANGED <<mainVars, udpRef, arrived>>
      PROVE  UdpInv'
  <2>1. /\ udpMain' = udpMain /\ mapped' = mapped /\ made' = made /\ arrived' = arrived
        /\ udpRef' = [udpRef EXCEPT ![r] = udpRef[r]]
    BY <1>b, <1>e DEF mainVars
  <2>2. /\ UdpData' /\ taken' \in Seq(Nat) /\ listener' \in [Listeners -> ListenerStates]
        /\ \A h \in Listeners : /\ listener'[h].open = listener[h].open
                                /\ listener'[h].thread = listener[h].thread
                                /\ h # made => listener'[h] = listener[h]
    <3>1. CASE listener[udpRef[r]].queue # <<>> /\ Take(udpRef[r])
      BY <1>c, <1>e, <2>1, <3>1, TakeKeeps
    <3>2. CASE UNCHANGED <<listener, taken>>
      <4>1. UdpData'
        BY <1>a, <2>1, <3>2, DataStays
      <4> QED
        BY <1>b, <3>2, <4>1
    <3> QED
      BY <1>e, <3>1, <3>2
  <2> QED
    BY <1>b, <1>c, <1>e, <2>1, <2>2, RequestKeeps
<1>1. CASE UdpFind(r)
  <2>1. /\ udpMain' = udpMain /\ mapped' = mapped /\ made' = made /\ arrived' = arrived
        /\ listener' = listener /\ taken' = taken
    BY <1>1 DEF UdpFind, mainVars
  <2>2. UdpData'
    BY <1>a, <2>1, DataStays
  <2>3. CASE /\ mapped = NoListener /\ udpPc' = [udpPc EXCEPT ![r] = "return"] /\ udpRef' = udpRef
    BY <1>b, <1>d, <2>1, <2>2, <2>3, RequestKeeps
  <2>4. CASE /\ mapped # NoListener /\ udpPc' = [udpPc EXCEPT ![r] = "task"]
             /\ udpRef' = [udpRef EXCEPT ![r] = mapped]
    <3>1. mapped = made /\ mapped \in Nat
      BY <1>a, <2>4, UdpAssumption DEF UdpTypes
    <3> QED
      BY <1>b, <1>d, <2>1, <2>2, <2>4, <3>1, RequestKeeps
  <2> QED
    BY <1>1, <2>3, <2>4 DEF UdpFind, UdpGoto
<1>2. CASE RecvTask(r)
  <2>1. udpPc[r] \in UsingPcs /\ UNCHANGED <<mainVars, udpRef, arrived>>
    BY <1>2, <1>d DEF RecvTask
  <2>2. PICK l \in UdpPcs : /\ udpPc' = [udpPc EXCEPT ![r] = l]
                            /\ \/ listener[udpRef[r]].queue # <<>> /\ Take(udpRef[r])
                               \/ UNCHANGED <<listener, taken>>
    BY <1>2, <1>d DEF RecvTask, UdpGoto
  <2> QED
    BY <1>e, <2>1, <2>2
<1>3. CASE RecvSleep(r)
  BY <1>3, <1>d, <1>e DEF RecvSleep, UdpGoto
<1>4. CASE RecvTimeout(r)
  BY <1>4, <1>d, <1>e DEF RecvTimeout, UdpGoto
<1>5. CASE ReplyTask(r)
  <2>1. udpPc[r] \in UsingPcs /\ UNCHANGED <<mainVars, udpRef, arrived>>
        /\ UNCHANGED <<listener, taken>>
    BY <1>5, <1>d DEF ReplyTask
  <2>2. PICK l \in UdpPcs : udpPc' = [udpPc EXCEPT ![r] = l]
    BY <1>5, <1>d DEF ReplyTask, UdpGoto
  <2> QED
    BY <1>e, <2>1, <2>2
<1>6. CASE ReplySend(r)
  BY <1>6, <1>d, <1>e DEF ReplySend, UdpGoto
<1> QED
  BY <1>1, <1>2, <1>3, <1>4, <1>5, <1>6 DEF RequestStep

LEMMA UdpKeeps == UdpInv /\ [UdpNext]_udpVars => UdpInv'
<1> SUFFICES ASSUME UdpInv, [UdpNext]_udpVars PROVE UdpInv'
  OBVIOUS
<1>a. UdpTypes /\ UdpControl /\ UdpData
  BY DEF UdpInv
<1>b. udpMain = "pool" /\ (\A s \in Requests : udpPc[s] \in {"none", "return", "end"}) =>
        \A s \in Requests : udpPc[s] \notin UsingPcs
  BY DEF UsingPcs
<1>1. CASE \E f \in {"udp_listen", "udp_poll", "stop"} : UdpCall(f)
  BY <1>1, MainKeeps DEF UdpCall, UdpMains, requestVars
<1>2. CASE UdpRestart
  BY <1>2, MainKeeps DEF UdpRestart, UdpMains, requestVars
<1>3. ASSUME NEW r \in Requests, UdpStart(r) PROVE UdpInv'
  <2>1. /\ udpMain' = udpMain /\ mapped' = mapped /\ made' = made /\ arrived' = arrived
        /\ listener' = listener /\ taken' = taken /\ udpRef' = udpRef
        /\ udpPc' = [udpPc EXCEPT ![r] = "pool"]
    BY <1>3 DEF UdpStart, mainVars, UdpGoto
  <2>2. UdpData'
    BY <1>a, <2>1, DataStays
  <2>3. /\ "pool" \in UdpPcs /\ "pool" \notin UsingPcs /\ udpRef[r] \in Nat
        /\ udpRef' = [udpRef EXCEPT ![r] = udpRef[r]] /\ taken \in Seq(Nat)
        /\ listener \in [Listeners -> ListenerStates]
    BY <1>a, <2>1 DEF UdpPcs, UsingPcs, UdpTypes
  <2> QED
    BY <2>1, <2>2, <2>3, RequestKeeps
<1>4. ASSUME NEW r \in Requests, UdpReturn(r) PROVE UdpInv'
  <2>1. /\ udpMain' = udpMain /\ mapped' = mapped /\ made' = made /\ arrived' = arrived
        /\ listener' = listener /\ taken' = taken
        /\ udpRef' = [udpRef EXCEPT ![r] = NoListener]
        /\ udpPc' = [udpPc EXCEPT ![r] = "end"]
    BY <1>4 DEF UdpReturn, mainVars, UdpGoto
  <2>2. UdpData'
    BY <1>a, <2>1, DataStays
  <2>3. /\ "end" \in UdpPcs /\ "end" \notin UsingPcs /\ NoListener \in Nat
        /\ taken \in Seq(Nat) /\ listener \in [Listeners -> ListenerStates]
    BY <1>a DEF UdpPcs, UsingPcs, UdpTypes, NoListener
  <2> QED
    BY <2>1, <2>2, <2>3, RequestKeeps
<1>5. CASE UdpPoll
  <2>1. /\ udpMain = "udp_poll" /\ udpMain' = "idle" /\ mapped' = mapped /\ made' = made
        /\ arrived' = arrived /\ udpPc' = udpPc /\ udpRef' = udpRef
    BY <1>5 DEF UdpPoll, requestVars
  <2>2. CASE listener' = listener /\ taken' = taken
    BY <2>1, <2>2, MainKeeps DEF UdpMains
  <2>3. CASE mapped # NoListener /\ listener[mapped].queue # <<>> /\ Take(mapped)
    <3>1. mapped = made /\ mapped \in Listeners
      BY <1>a, <2>3, UdpAssumption DEF UdpTypes, Listeners, NoListener
    <3>2. /\ UdpData' /\ taken' \in Seq(Nat) /\ listener' \in [Listeners -> ListenerStates]
          /\ \A h \in Listeners : /\ listener'[h].open = listener[h].open
                                  /\ listener'[h].thread = listener[h].thread
                                  /\ h # mapped => listener'[h] = listener[h]
      BY <2>1, <2>3, <3>1, TakeKeeps
    <3>3. UdpTypes'
      BY <1>a, <2>1, <3>2 DEF UdpTypes, UdpMains
    <3>4. \A h \in Listeners : h > made => h # mapped
      BY <1>a, <3>1, UdpAssumption DEF UdpTypes, Listeners
    <3>5. UdpControl'
      BY <1>a, <2>1, <3>2, <3>4 DEF UdpControl, OneListener
    <3> QED
      BY <3>2, <3>3, <3>5 DEF UdpInv
  <2> QED
    BY <1>5, <2>2, <2>3 DEF UdpPoll
<1>6. CASE StopLock
  BY <1>6, MainKeeps DEF StopLock, UdpMains, requestVars
<1>7. CASE StopPool
  BY <1>7, <1>b, MainKeeps DEF StopPool, UdpMains, requestVars
<1>8. CASE StopDrained
  BY <1>8, MainKeeps DEF StopDrained, UdpMains, requestVars
<1>9. CASE UNCHANGED udpVars
  <2>1. /\ udpMain' = udpMain /\ mapped' = mapped /\ made' = made /\ arrived' = arrived
        /\ listener' = listener /\ taken' = taken /\ udpRef' = udpRef /\ udpPc' = udpPc
    BY <1>9 DEF udpVars
  <2>2. UdpData'
    BY <1>a, <2>1, DataStays
  <2>3. UdpTypes' /\ UdpControl'
    BY <1>a, <2>1 DEF UdpTypes, UdpControl, OneListener
  <2> QED
    BY <2>2, <2>3 DEF UdpInv
<1>10. CASE UdpMainStep
  BY <1>4, <1>5, <1>6, <1>7, <1>8, <1>10, ListenKeeps, StopKeeps DEF UdpMainStep
<1> QED
  BY <1>1, <1>2, <1>3, <1>9, <1>10, ThreadStepKeeps, RequestStepKeeps DEF UdpNext

LEMMA UdpRight == UdpInv => ListenerSound
<1> SUFFICES ASSUME UdpInv PROVE ListenerSound
  OBVIOUS
<1>a. UdpTypes /\ UdpControl /\ UdpData
  BY DEF UdpInv
<1>1. /\ DOMAIN taken = 1 .. Len(taken) /\ arrived \in Nat
      /\ \A g \in Listeners : DOMAIN listener[g].queue = 1 .. Len(listener[g].queue)
  BY <1>a DEF UdpTypes, ListenerStates
<1>2. ASSUME NEW d \in 1 .. arrived
      PROVE  \/ Among(taken, d) /\ \A g \in Listeners : ~Among(listener[g].queue, d)
             \/ ~Among(taken, d) /\ \/ \E g \in Listeners : Held(g, d)
                                    \/ Cardinality(LaterThan(d)) >= QueueBound
  BY <1>1, <1>a DEF UdpData
<1>3. DatagramOnce
  BY <1>1, <1>2, <1>a DEF UdpData, DatagramOnce, Rising, Among, Held, LaterThan
<1> QED
  BY <1>3, <1>a DEF UdpControl, ListenerSound

-----------------------------------------------------------------------------
(* LuaCall                                                                   *)

Frame(k, x) == [k |-> k, of |-> x]
InHandler(a) == cStack # <<>> /\ cStack[1] = Frame("handler", a)

\* The Lua stack of t while a call to the coroutine at address a runs, or when
\* it has returned and the mark is to be looked at.
BodyRuns(t, a) ==
    frameOf[a] = t /\ anchor[a] = t /\ luaStack[t] = <<Argument>> /\ ccontext[t] = 1
BodyReturned(t, a) ==
    /\ ccontext[t] = 1
    /\ \/ luaStack[t] = <<Argument>> /\ (frameOf[a] = t => anchor[a] = t)
       \/ \E kind \in Results : \/ luaStack[t] = <<Argument, Result(t, kind), ErrorMark(t)>>
                                \/ luaStack[t] = <<Argument, Result(t, kind), LightData(a)>>

\* The C stack, from the bottom: the handler at address h if m = 1, the Lua
\* thread that it resumed or that nginx runs, the call that this one makes.
StackIs(m, h) ==
    /\ m = 1 => h \in Addresses /\ frameOf[h] # NoOne /\ cStack[1] = Frame("handler", h)
    /\ \/ Len(cStack) = m
       \/ \E t \in LuaThreads :
            /\ lstatus[t] = "run" /\ cStack[m + 1] = Frame("lua", t)
            /\ \/ Len(cStack) = m + 1
               \/ \E a \in Addresses :
                    /\ Len(cStack) = m + 2 /\ (m = 1 => a # h)
                    /\ \/ cStack[m + 2] = Frame("body", a) /\ BodyRuns(t, a)
                       \/ cStack[m + 2] = Frame("check", a) /\ BodyReturned(t, a)
StackOrder == \E m \in {0, 1}, h \in Addresses \cup {NoOne} : StackIs(m, h)

\* A thread that waits has a frame of its own, not that of the handler that
\* resumed it, which is about to be destroyed.
Waits(t) ==
    /\ luaStack[t] = <<Argument>> /\ ccontext[t] = 1
    /\ \E a \in Addresses : frameOf[a] = t /\ anchor[a] = t /\ ~InHandler(a)

StackEntries == [k : {"lua", "body", "check", "handler"}, of : LuaThreads \cup Addresses]

CallTyped ==
    /\ lstatus \in [LuaThreads -> {"new", "run", "yielded", "woken", "lost", "over"}]
    /\ calls \in [LuaThreads -> Nat]
    /\ frameOf \in [Addresses -> LuaThreads \cup {NoOne}]
    /\ anchor \in [Addresses -> LuaThreads \cup {NoOne}]
    /\ DOMAIN luaStack = LuaThreads /\ DOMAIN returned = LuaThreads /\ DOMAIN ccontext = LuaThreads
    /\ cStack \in Seq(StackEntries)

CallInv ==
    /\ CallTyped /\ StackOrder
    /\ \A t \in LuaThreads : lstatus[t] = "yielded" => Waits(t)
    /\ \A t \in LuaThreads : lstatus[t] = "new" => calls[t] = 0
    /\ \A a \in Addresses : anchor[a] \in {NoOne, frameOf[a]}
    /\ ReturnsOwnResult
\* Short sequences are their elements.
LEMMA ShortSeq ==
    ASSUME NEW S, NEW s \in Seq(S)
    PROVE  /\ Len(s) = 0 => s = <<>>
           /\ Len(s) = 1 => s = <<s[1]>>
           /\ Len(s) = 2 => s = <<s[1], s[2]>>
           /\ Len(s) = 3 => s = <<s[1], s[2], s[3]>>
<1>0. \A i \in 1 .. Len(s) : s[i] \in S
  BY ElementOfSeq
<1>1. ASSUME Len(s) = 1 PROVE s = <<s[1]>>
  <2> DEFINE t == <<s[1]>>
  <2>1. t \in Seq(S) /\ Len(t) = 1 /\ t[1] = s[1]
    BY <1>0, <1>1
  <2> HIDE DEF t
  <2>2. s = t
    BY <1>1, <2>1, SeqEqual
  <2> QED
    BY <2>2 DEF t
<1>2. ASSUME Len(s) = 2 PROVE s = <<s[1], s[2]>>
  <2> DEFINE t == <<s[1], s[2]>>
  <2>1. t \in Seq(S) /\ Len(t) = 2 /\ t[1] = s[1] /\ t[2] = s[2]
    BY <1>0, <1>2
  <2> HIDE DEF t
  <2>2. \A i \in 1 .. Len(s) : s[i] = t[i]
    BY <1>2, <2>1
  <2>3. s = t
    BY <1>2, <2>1, <2>2, SeqEqual
  <2> QED
    BY <2>3 DEF t
<1>3. ASSUME Len(s) = 3 PROVE s = <<s[1], s[2], s[3]>>
  <2> DEFINE t == <<s[1], s[2], s[3]>>
  <2>1. t \in Seq(S) /\ Len(t) = 3 /\ t[1] = s[1] /\ t[2] = s[2] /\ t[3] = s[3]
    BY <1>0, <1>3
  <2> HIDE DEF t
  <2>2. \A i \in 1 .. Len(s) : s[i] = t[i]
    BY <1>3, <2>1
  <2>3. s = t
    BY <1>3, <2>1, <2>2, SeqEqual
  <2> QED
    BY <2>3 DEF t
<1>4. Len(s) = 0 => s = <<>>
  BY EmptySeq
<1> QED
  BY <1>1, <1>2, <1>3, <1>4

\* A part of a sequence, by its elements.
LEMMA PartOf ==
    ASSUME NEW S, NEW s \in Seq(S), NEW m \in 1 .. Len(s) + 1, NEW n \in 0 .. Len(s), m <= n + 1
    PROVE  /\ SubSeq(s, m, n) \in Seq(S) /\ Len(SubSeq(s, m, n)) = n - m + 1
           /\ \A i \in 1 .. n - m + 1 : SubSeq(s, m, n)[i] = s[m + i - 1]
<1>1. Len(s) \in Nat /\ m \in Int /\ n \in Int
  BY LenProperties
<1>2. \A i \in m .. n : s[i] \in S
  BY <1>1, ElementOfSeq
<1>3. /\ SubSeq(s, m, n) \in Seq(S)
      /\ Len(SubSeq(s, m, n)) = IF m <= n THEN n - m + 1 ELSE 0
      /\ \A i \in 1 .. n - m + 1 : SubSeq(s, m, n)[i] = s[m + i - 1]
  BY <1>1, <1>2, SubSeqProperties
<1>4. (IF m <= n THEN n - m + 1 ELSE 0) = n - m + 1
  BY <1>1
<1> QED
  BY <1>3, <1>4

LEMMA OneOf ==
    ASSUME NEW S, NEW s \in Seq(S), NEW m \in 1 .. Len(s)
    PROVE  SubSeq(s, m, m) = <<s[m]>>
<1> DEFINE c == SubSeq(s, m, m)
<1>0. Len(s) \in Nat /\ m \in Nat /\ m - m + 1 = 1 /\ m + 1 - 1 = m
  BY LenProperties
<1>a. m \in 1 .. Len(s) + 1 /\ m \in 0 .. Len(s) /\ m <= m + 1
  BY <1>0
<1>1. c \in Seq(S) /\ Len(c) = m - m + 1 /\ \A i \in 1 .. m - m + 1 : c[i] = s[m + i - 1]
  BY <1>a, PartOf
<1> HIDE DEF c
<1>2. c \in Seq(S) /\ Len(c) = 1 /\ c[1] = s[m]
  BY <1>0, <1>1
<1>3. c = <<s[m]>>
  BY <1>2, ShortSeq
<1> QED
  BY <1>3 DEF c

\* What the call does with the Lua stack: an argument x, a result y, a mark z.
LEMMA Joined ==
    ASSUME NEW x, NEW y, NEW z
    PROVE  <<x>> \o <<y, z>> = <<x, y, z>>
<1> DEFINE S == {x, y, z}
           u == <<x>>
           p == <<y, z>>
           c == u \o p
<1>1. /\ u \in Seq(S) /\ Len(u) = 1 /\ u[1] = x
      /\ p \in Seq(S) /\ Len(p) = 2 /\ p[1] = y /\ p[2] = z
  OBVIOUS
<1> HIDE DEF u, p, S
<1>2. /\ c \in Seq(S) /\ Len(c) = Len(u) + Len(p)
      /\ \A i \in 1 .. Len(u) + Len(p) : c[i] = IF i <= Len(u) THEN u[i] ELSE p[i - Len(u)]
  BY <1>1, ConcatProperties
<1> HIDE DEF c
<1>3. c \in Seq(S) /\ Len(c) = 3 /\ c[1] = x /\ c[2] = y /\ c[3] = z
  BY <1>1, <1>2
<1>4. c = <<x, y, z>>
  BY <1>3, ShortSeq
<1> QED
  BY <1>4 DEF c, u, p

LEMMA WithoutMark ==
    ASSUME NEW x, NEW y, NEW z
    PROVE  SubSeq(<<x, y, z>>, 1, 2) = <<x, y>>
<1> DEFINE S == {x, y, z}
           w == <<x, y, z>>
           c == SubSeq(w, 1, 2)
<1>1. w \in Seq(S) /\ Len(w) = 3 /\ w[1] = x /\ w[2] = y /\ w[3] = z
  OBVIOUS
<1> HIDE DEF w, S
<1>2. c \in Seq(S) /\ Len(c) = 2 - 1 + 1 /\ \A i \in 1 .. 2 - 1 + 1 : c[i] = w[1 + i - 1]
  <2>1. 1 \in 1 .. Len(w) + 1 /\ 2 \in 0 .. Len(w) /\ 1 <= 2 + 1
    BY <1>1
  <2> QED
    BY <1>1, <2>1, PartOf
<1> HIDE DEF c
<1>3. c \in Seq(S) /\ Len(c) = 2 /\ c[1] = x /\ c[2] = y
  BY <1>1, <1>2
<1>4. c = <<x, y>>
  BY <1>3, ShortSeq
<1> QED
  BY <1>4 DEF c, w

LEMMA WithMark ==
    ASSUME NEW x, NEW y, NEW z
    PROVE  SubSeq(<<x, y, z>>, 1, 3) = <<x, y, z>>
<1> DEFINE S == {x, y, z}
           w == <<x, y, z>>
           c == SubSeq(w, 1, 3)
<1>1. w \in Seq(S) /\ Len(w) = 3 /\ w[1] = x /\ w[2] = y /\ w[3] = z
  OBVIOUS
<1> HIDE DEF w, S
<1>2. c \in Seq(S) /\ Len(c) = 3 - 1 + 1 /\ \A i \in 1 .. 3 - 1 + 1 : c[i] = w[1 + i - 1]
  <2>1. 1 \in 1 .. Len(w) + 1 /\ 3 \in 0 .. Len(w) /\ 1 <= 3 + 1
    BY <1>1
  <2> QED
    BY <1>1, <2>1, PartOf
<1> HIDE DEF c
<1>3. c \in Seq(S) /\ Len(c) = 3 /\ c[1] = x /\ c[2] = y /\ c[3] = z
  BY <1>1, <1>2
<1>4. c = <<x, y, z>>
  BY <1>3, ShortSeq
<1> QED
  BY <1>4 DEF c, w

\* The result is the second value of the stack.
LEMMA ResultOf ==
    ASSUME NEW x, NEW y, NEW z
    PROVE  SubSeq(<<x, y, z>>, 2, 2) = <<y>>
<1> DEFINE w == <<x, y, z>>
<1>1. w \in Seq({x, y, z}) /\ 2 \in 1 .. Len(w) /\ w[2] = y
  OBVIOUS
<1> HIDE DEF w
<1>2. SubSeq(w, 2, 2) = <<w[2]>>
  BY <1>1, OneOf
<1> QED
  BY <1>1, <1>2 DEF w

LEMMA ResultOfTwo ==
    ASSUME NEW x, NEW y
    PROVE  SubSeq(<<x, y>>, 2, 2) = <<y>>
<1> DEFINE w == <<x, y>>
<1>1. w \in Seq({x, y}) /\ 2 \in 1 .. Len(w) /\ w[2] = y
  OBVIOUS
<1> HIDE DEF w
<1>2. SubSeq(w, 2, 2) = <<w[2]>>
  BY <1>1, OneOf
<1> QED
  BY <1>1, <1>2 DEF w

LEMMA FirstOfTwo ==
    ASSUME NEW x, NEW y
    PROVE  SubSeq(<<x, y>>, 1, 1) = <<x>>
<1> DEFINE w == <<x, y>>
<1>1. w \in Seq({x, y}) /\ 1 \in 1 .. Len(w) /\ w[1] = x
  OBVIOUS
<1> HIDE DEF w
<1>2. SubSeq(w, 1, 1) = <<w[1]>>
  BY <1>1, OneOf
<1> QED
  BY <1>1, <1>2 DEF w

LEMMA FirstOfOne ==
    ASSUME NEW x
    PROVE  SubSeq(<<x>>, 1, 1) = <<x>>
<1> DEFINE w == <<x>>
<1>1. w \in Seq({x}) /\ 1 \in 1 .. Len(w) /\ w[1] = x
  OBVIOUS
<1> HIDE DEF w
<1>2. SubSeq(w, 1, 1) = <<w[1]>>
  BY <1>1, OneOf
<1> QED
  BY <1>1, <1>2 DEF w

\* Pushing on the C stack and popping from it, by its elements.
LEMMA CStackMoves ==
    ASSUME CallTyped, NEW e \in StackEntries
    PROVE  /\ Len(cStack) \in Nat
           /\ Append(cStack, e) \in Seq(StackEntries) /\ Len(Append(cStack, e)) = Len(cStack) + 1
           /\ Append(cStack, e)[Len(cStack) + 1] = e
           /\ \A i \in 1 .. Len(cStack) : Append(cStack, e)[i] = cStack[i]
<1>1. cStack \in Seq(StackEntries)
  BY DEF CallTyped
<1> QED
  BY <1>1, AppendProperties, LenProperties

LEMMA CStackPops ==
    ASSUME CallTyped, Len(cStack) > 0
    PROVE  /\ CPop \in Seq(StackEntries) /\ Len(CPop) = Len(cStack) - 1
           /\ \A i \in 1 .. Len(cStack) - 1 : CPop[i] = cStack[i]
<1>1. cStack \in Seq(StackEntries) /\ Len(cStack) \in Nat
  BY LenProperties DEF CallTyped
<1> DEFINE n == Len(cStack) - 1
           s == cStack
<1>2. 1 \in 1 .. Len(s) + 1 /\ n \in 0 .. Len(s) /\ 1 <= n + 1 /\ n - 1 + 1 = n
  BY <1>1
<1>3. \A i \in Int : 1 + i - 1 = i
  OBVIOUS
<1>4. /\ SubSeq(s, 1, n) \in Seq(StackEntries) /\ Len(SubSeq(s, 1, n)) = n - 1 + 1
      /\ \A i \in 1 .. n - 1 + 1 : SubSeq(s, 1, n)[i] = s[1 + i - 1]
  BY <1>1, <1>2, PartOf
<1> QED
  BY <1>2, <1>3, <1>4 DEF CPop

\* The frame on top is replaced.
LEMMA CStackReplaces ==
    ASSUME CallTyped, Len(cStack) > 0, NEW e \in StackEntries
    PROVE  /\ Append(CPop, e) \in Seq(StackEntries) /\ Len(Append(CPop, e)) = Len(cStack)
           /\ Append(CPop, e)[Len(cStack)] = e
           /\ \A i \in 1 .. Len(cStack) - 1 : Append(CPop, e)[i] = cStack[i]
<1> DEFINE p == CPop
           n == Len(cStack)
<1>1. n \in Nat /\ n - 1 \in Nat /\ n - 1 + 1 = n
  BY LenProperties DEF CallTyped
<1>2. p \in Seq(StackEntries) /\ Len(p) = n - 1 /\ \A i \in 1 .. n - 1 : p[i] = cStack[i]
  BY CStackPops
<1> HIDE DEF p
<1>3. /\ Append(p, e) \in Seq(StackEntries) /\ Len(Append(p, e)) = n - 1 + 1
      /\ Append(p, e)[n - 1 + 1] = e /\ \A i \in 1 .. n - 1 : Append(p, e)[i] = p[i]
  BY <1>2, AppendProperties
<1> QED
  BY <1>1, <1>2, <1>3 DEF p

\* Two frames go when a call yields: its own and that of the Lua thread.
LEMMA CStackYields ==
    ASSUME CallTyped, Len(cStack) > 1
    PROVE  /\ SubSeq(cStack, 1, Len(cStack) - 2) \in Seq(StackEntries)
           /\ Len(SubSeq(cStack, 1, Len(cStack) - 2)) = Len(cStack) - 2
           /\ \A i \in 1 .. Len(cStack) - 2 : SubSeq(cStack, 1, Len(cStack) - 2)[i] = cStack[i]
<1>1. cStack \in Seq(StackEntries) /\ Len(cStack) \in Nat
  BY LenProperties DEF CallTyped
<1> DEFINE n == Len(cStack) - 2
           s == cStack
<1>2. 1 \in 1 .. Len(s) + 1 /\ n \in 0 .. Len(s) /\ 1 <= n + 1 /\ n - 1 + 1 = n
  BY <1>1
<1>3. \A i \in Int : 1 + i - 1 = i
  OBVIOUS
<1>4. /\ SubSeq(s, 1, n) \in Seq(StackEntries) /\ Len(SubSeq(s, 1, n)) = n - 1 + 1
      /\ \A i \in 1 .. n - 1 + 1 : SubSeq(s, 1, n)[i] = s[1 + i - 1]
  BY <1>1, <1>2, PartOf
<1> QED
  BY <1>2, <1>3, <1>4

\* Of the handlers only the one at the bottom of the C stack is at work.
LEMMA HandlerAtBottom ==
    ASSUME CallTyped, NEW m \in {0, 1}, NEW h \in Addresses \cup {NoOne}, StackIs(m, h), NEW b
    PROVE  InHandler(b) <=> (m = 1 /\ b = h)
<1>0. cStack \in Seq(StackEntries) /\ Len(cStack) \in Nat /\ (cStack = <<>> <=> Len(cStack) = 0)
  BY LenProperties, EmptySeq DEF CallTyped
<1>1. CASE m = 1
  <2>1. cStack[1] = Frame("handler", h) /\ Len(cStack) > 0
    BY <1>0, <1>1 DEF StackIs
  <2> QED
    BY <1>0, <1>1, <2>1 DEF InHandler, Frame
<1>2. CASE m = 0
  <2>1. Len(cStack) = 0 \/ \E t \in LuaThreads : cStack[1] = Frame("lua", t)
    BY <1>2 DEF StackIs
  <2>2. ASSUME NEW t \in LuaThreads, cStack[1] = Frame("lua", t) PROVE cStack[1] # Frame("handler", b)
    BY <2>2 DEF Frame
  <2>3. ~InHandler(b)
    BY <1>0, <2>1, <2>2 DEF InHandler
  <2> QED
    BY <1>2, <2>3
<1> QED
  BY <1>1, <1>2

\* What is on top of the C stack says what is below.
LEMMA OnTop ==
    ASSUME CallTyped, NEW m \in {0, 1}, NEW h \in Addresses \cup {NoOne}, StackIs(m, h),
           NEW k, NEW x, At(k, x)
    PROVE  /\ Len(cStack) > 0
           /\ k = "lua" => /\ Len(cStack) = m + 1 /\ cStack[m + 1] = Frame("lua", x)
                           /\ x \in LuaThreads /\ lstatus[x] = "run"
           /\ k = "handler" => Len(cStack) = 1 /\ m = 1 /\ x = h
           /\ k \in {"body", "check"} =>
                /\ Len(cStack) = m + 2 /\ x \in Addresses /\ (m = 1 => x # h)
                /\ \E t \in LuaThreads :
                     /\ lstatus[t] = "run" /\ cStack[m + 1] = Frame("lua", t)
                     /\ k = "body" => BodyRuns(t, x)
                     /\ k = "check" => BodyReturned(t, x)
<1>0. /\ cStack \in Seq(StackEntries) /\ Len(cStack) \in Nat /\ Len(cStack) > 0
      /\ cStack[Len(cStack)] = Frame(k, x)
  BY LenProperties, EmptySeq DEF CallTyped, At, CTop, Frame
<1> DEFINE n == Len(cStack)
<1>1. CASE n = m
  <2>1. m = 1 /\ n = 1 /\ cStack[1] = Frame("handler", h)
    BY <1>0, <1>1 DEF StackIs
  <2>2. k = "handler" /\ x = h
    BY <1>0, <2>1 DEF Frame
  <2> QED
    BY <1>0, <2>1, <2>2
<1>2. CASE n = m + 1
  <2>1. PICK t \in LuaThreads : lstatus[t] = "run" /\ cStack[m + 1] = Frame("lua", t)
    BY <1>2 DEF StackIs
  <2>2. k = "lua" /\ x = t
    BY <1>0, <1>2, <2>1 DEF Frame
  <2> QED
    BY <1>0, <1>2, <2>1, <2>2
<1>3. CASE n = m + 2
  <2>1. PICK t \in LuaThreads, a \in Addresses :
            /\ lstatus[t] = "run" /\ cStack[m + 1] = Frame("lua", t) /\ (m = 1 => a # h)
            /\ \/ cStack[m + 2] = Frame("body", a) /\ BodyRuns(t, a)
               \/ cStack[m + 2] = Frame("check", a) /\ BodyReturned(t, a)
    BY <1>3 DEF StackIs
  <2>2. CASE cStack[m + 2] = Frame("body", a) /\ BodyRuns(t, a)
    <3>1. k = "body" /\ x = a
      BY <1>0, <1>3, <2>2 DEF Frame
    <3> QED
      BY <1>0, <1>3, <2>1, <2>2, <3>1
  <2>3. CASE cStack[m + 2] = Frame("check", a) /\ BodyReturned(t, a)
    <3>1. k = "check" /\ x = a
      BY <1>0, <1>3, <2>3 DEF Frame
    <3> QED
      BY <1>0, <1>3, <2>1, <2>3, <3>1
  <2> QED
    BY <2>1, <2>2, <2>3
<1>4. n = m \/ n = m + 1 \/ n = m + 2
  BY DEF StackIs
<1> QED
  BY <1>1, <1>2, <1>3, <1>4

LEMMA LuaOnTop ==
    ASSUME CallTyped, NEW m \in {0, 1}, NEW h \in Addresses \cup {NoOne}, StackIs(m, h),
           NEW t, At("lua", t)
    PROVE  /\ Len(cStack) > 0 /\ Len(cStack) = m + 1 /\ cStack[m + 1] = Frame("lua", t)
           /\ t \in LuaThreads /\ lstatus[t] = "run"
<1> DEFINE k == "lua"
<1>1. k = "lua" /\ At(k, t)
  OBVIOUS
<1> HIDE DEF k
<1>3. /\ Len(cStack) > 0
      /\ k = "lua" => /\ Len(cStack) = m + 1 /\ cStack[m + 1] = Frame("lua", t)
                      /\ t \in LuaThreads /\ lstatus[t] = "run"
  BY ONLY CallTyped, StackIs(m, h), <1>1, OnTop
<1> QED
  BY <1>1, <1>3

LEMMA BodyOnTop ==
    ASSUME CallTyped, NEW m \in {0, 1}, NEW h \in Addresses \cup {NoOne}, StackIs(m, h),
           NEW a, At("body", a)
    PROVE  /\ Len(cStack) > 0 /\ Len(cStack) = m + 2 /\ (m = 1 => a # h)
           /\ \E t \in LuaThreads :
                /\ lstatus[t] = "run" /\ cStack[m + 1] = Frame("lua", t) /\ BodyRuns(t, a)
<1> DEFINE k == "body"
<1>1. k = "body" /\ k \in {"body", "check"}
  OBVIOUS
<1>2. At(k, a)
  OBVIOUS
<1> HIDE DEF k
<1>3. /\ Len(cStack) > 0
      /\ k \in {"body", "check"} =>
           /\ Len(cStack) = m + 2 /\ a \in Addresses /\ (m = 1 => a # h)
           /\ \E t \in LuaThreads :
                /\ lstatus[t] = "run" /\ cStack[m + 1] = Frame("lua", t)
                /\ k = "body" => BodyRuns(t, a)
                /\ k = "check" => BodyReturned(t, a)
  BY ONLY CallTyped, StackIs(m, h), <1>2, OnTop
<1> QED
  BY <1>1, <1>3

LEMMA CheckOnTop ==
    ASSUME CallTyped, NEW m \in {0, 1}, NEW h \in Addresses \cup {NoOne}, StackIs(m, h),
           NEW a, At("check", a)
    PROVE  /\ Len(cStack) > 0 /\ Len(cStack) = m + 2 /\ (m = 1 => a # h)
           /\ \E t \in LuaThreads :
                /\ lstatus[t] = "run" /\ cStack[m + 1] = Frame("lua", t) /\ BodyReturned(t, a)
<1> DEFINE k == "check"
<1>1. k = "check" /\ k \in {"body", "check"}
  OBVIOUS
<1>2. At(k, a)
  OBVIOUS
<1> HIDE DEF k
<1>3. /\ Len(cStack) > 0
      /\ k \in {"body", "check"} =>
           /\ Len(cStack) = m + 2 /\ a \in Addresses /\ (m = 1 => a # h)
           /\ \E t \in LuaThreads :
                /\ lstatus[t] = "run" /\ cStack[m + 1] = Frame("lua", t)
                /\ k = "body" => BodyRuns(t, a)
                /\ k = "check" => BodyReturned(t, a)
  BY ONLY CallTyped, StackIs(m, h), <1>2, OnTop
<1> QED
  BY <1>1, <1>3

\* A step inside the frames above it leaves the handler at the bottom at work.
LEMMA HandlerStays ==
    ASSUME CallTyped, NEW m \in {0, 1}, NEW h \in Addresses \cup {NoOne}, StackIs(m, h),
           Len(cStack) > 0, cStack' \in Seq(StackEntries), Len(cStack') >= m,
           Len(cStack') > 0 => cStack'[1] = cStack[1]
    PROVE  \A b : InHandler(b)' <=> InHandler(b)
<1>0. /\ Len(cStack) \in Nat /\ (cStack = <<>> <=> Len(cStack) = 0)
      /\ Len(cStack') \in Nat /\ (cStack' = <<>> <=> Len(cStack') = 0)
  BY LenProperties, EmptySeq DEF CallTyped
<1>1. CASE Len(cStack') > 0
  BY <1>0, <1>1 DEF InHandler, Frame
<1>2. CASE Len(cStack') = 0
  <2>1. m = 0
    BY <1>2
  <2>2. \A b : ~InHandler(b)
    BY <2>1, HandlerAtBottom
  <2>3. \A b : ~InHandler(b)'
    BY <1>0, <1>2 DEF InHandler
  <2> QED
    BY <2>2, <2>3
<1> QED
  BY <1>0, <1>1, <1>2

\* Threads and addresses an action leaves alone: t waits on, by the same frame.
LEMMA WaitsOn ==
    ASSUME NEW t \in LuaThreads, Waits(t), luaStack'[t] = luaStack[t], ccontext'[t] = ccontext[t],
           \A b \in Addresses : frameOf[b] = t /\ ~InHandler(b) =>
               frameOf'[b] = frameOf[b] /\ anchor'[b] = anchor[b] /\ ~InHandler(b)'
    PROVE  Waits(t)'
<1>1. PICK a \in Addresses : frameOf[a] = t /\ anchor[a] = t /\ ~InHandler(a)
  BY DEF Waits
<1>2. frameOf'[a] = t /\ anchor'[a] = t /\ ~InHandler(a)'
  BY <1>1
<1>3. luaStack'[t] = <<Argument>> /\ ccontext'[t] = 1
  BY DEF Waits
<1> QED
  BY <1>2, <1>3 DEF Waits, Argument

\* The result of a thread whose call is not touched stays its own.
LEMMA ResultOn ==
    ASSUME NEW t \in LuaThreads, calls'[t] = calls[t]
    PROVE  \A kind : Result(t, kind)' = Result(t, kind)
BY DEF Result

\* RunLua(): nginx starts a thread, or goes on with a posted one.
LEMMA RunLuaKeeps ==
    ASSUME CallInv, NEW t \in LuaThreads, RunLua(t)
    PROVE  CallInv'
<1>0. /\ CallTyped /\ cStack = <<>> /\ lstatus[t] \in {"new", "woken"}
      /\ lstatus' = [lstatus EXCEPT ![t] = "run"] /\ cStack' = Append(<<>>, Frame("lua", t))
      /\ UNCHANGED <<frameOf, anchor, luaStack, ccontext, calls, returned>>
  BY DEF CallInv, RunLua, CPush, Frame
<1>e. Frame("lua", t) \in StackEntries
  BY DEF Frame, StackEntries
<1>1. cStack' \in Seq(StackEntries) /\ Len(cStack') = 1 /\ cStack'[1] = Frame("lua", t)
  <2>1. Len(cStack) = 0 /\ 0 + 1 = 1
    BY <1>0
  <2> QED
    BY <1>0, <1>e, <2>1, CStackMoves
<1>2. CallTyped'
  BY <1>0, <1>1 DEF CallTyped
<1>3. lstatus'[t] = "run" /\ \A s \in LuaThreads \ {t} : lstatus'[s] = lstatus[s]
  BY <1>0 DEF CallTyped
<1>4. StackOrder'
  <2>1. StackIs(0, NoOne)'
    BY <1>1, <1>3 DEF StackIs, Frame
  <2> QED
    BY <2>1 DEF StackOrder
<1>5. ASSUME NEW s \in LuaThreads, lstatus'[s] = "yielded" PROVE Waits(s)'
  <2>1. Waits(s)
    BY <1>3, <1>5 DEF CallInv
  <2>2. \A b : ~InHandler(b)'
    BY <1>1 DEF InHandler, Frame
  <2> QED
    BY <1>0, <2>1, <2>2, WaitsOn
<1>6. \A s \in LuaThreads : lstatus'[s] = "new" => calls'[s] = 0
  BY <1>0, <1>3 DEF CallInv
<1>7. \A b \in Addresses : anchor'[b] \in {NoOne, frameOf'[b]}
  BY <1>0 DEF CallInv
<1>8. ReturnsOwnResult'
  <2>1. SUFFICES ASSUME NEW s \in LuaThreads, lstatus'[s] \in {"run", "woken"}, calls'[s] > 0,
                        luaStack'[s] = <<>>
                 PROVE  \E kind \in Results : returned'[s] = <<Result(s, kind)'>>
    BY DEF ReturnsOwnResult, Results
  <2>2. lstatus[s] \in {"run", "woken"} /\ calls[s] > 0 /\ luaStack[s] = <<>>
    <3>1. calls[s] > 0 /\ luaStack[s] = <<>>
      BY <1>0, <2>1
    <3>2. s = t => lstatus[s] = "woken"
      BY <1>0, <3>1 DEF CallInv, CallTyped
    <3> QED
      BY <1>3, <2>1, <3>1, <3>2
  <2>3. PICK kind \in Results : returned[s] = <<Result(s, kind)>>
    BY <2>2 DEF CallInv, ReturnsOwnResult
  <2>4. Result(s, kind)' = Result(s, kind)
    BY <1>0, ResultOn
  <2> QED
    BY <1>0, <2>3, <2>4
<1> QED
  BY <1>2, <1>4, <1>5, <1>6, <1>7, <1>8 DEF CallInv

\* A call's result is its own where the step leaves the thread alone, leaves
\* it in the middle of a call, or hands it the result.
LEMMA OwnResults ==
    ASSUME ReturnsOwnResult,
           \A s \in LuaThreads :
               \/ lstatus'[s] \notin {"run", "woken"} \/ luaStack'[s] # <<>>
               \/ /\ lstatus[s] \in {"run", "woken"} /\ calls'[s] = calls[s]
                  /\ returned'[s] = returned[s] /\ luaStack'[s] = luaStack[s]
               \/ \E kind \in Results : returned'[s] = <<Result(s, kind)'>>
    PROVE  ReturnsOwnResult'
<1>1. SUFFICES ASSUME NEW s \in LuaThreads, lstatus'[s] \in {"run", "woken"}, calls'[s] > 0,
                      luaStack'[s] = <<>>
               PROVE  \E kind \in Results : returned'[s] = <<Result(s, kind)'>>
  BY DEF ReturnsOwnResult, Results
<1>2. CASE /\ lstatus[s] \in {"run", "woken"} /\ calls'[s] = calls[s]
           /\ returned'[s] = returned[s] /\ luaStack'[s] = luaStack[s]
  <2>1. PICK kind \in Results : returned[s] = <<Result(s, kind)>>
    BY <1>1, <1>2 DEF ReturnsOwnResult
  <2>2. Result(s, kind)' = Result(s, kind)
    BY <1>2, ResultOn
  <2> QED
    BY <1>2, <2>1, <2>2
<1> QED
  BY <1>1, <1>2

\* EndLua(): the running thread is over.
LEMMA EndLuaKeeps ==
    ASSUME CallInv, NEW t \in LuaThreads, EndLua(t)
    PROVE  CallInv'
<1>0. /\ CallTyped /\ At("lua", t) /\ lstatus' = [lstatus EXCEPT ![t] = "over"] /\ cStack' = CPop
      /\ UNCHANGED <<frameOf, anchor, luaStack, ccontext, calls, returned>>
  BY DEF CallInv, EndLua
<1>a. PICK m \in {0, 1}, h \in Addresses \cup {NoOne} : StackIs(m, h)
  BY DEF CallInv, StackOrder
<1>b. Len(cStack) > 0 /\ Len(cStack) = m + 1 /\ lstatus[t] = "run"
  BY <1>0, <1>a, OnTop
<1>1. /\ cStack' \in Seq(StackEntries) /\ Len(cStack') = m
      /\ \A i \in 1 .. m : cStack'[i] = cStack[i]
  <2>1. m + 1 - 1 = m
    OBVIOUS
  <2> QED
    BY <1>0, <1>b, <2>1, CStackPops
<1>2. CallTyped'
  BY <1>0, <1>1 DEF CallTyped
<1>3. lstatus'[t] = "over" /\ \A s \in LuaThreads \ {t} : lstatus'[s] = lstatus[s]
  BY <1>0 DEF CallTyped
<1>4. StackIs(m, h)'
  <2>1. m = 1 => h \in Addresses /\ frameOf[h] # NoOne /\ cStack[1] = Frame("handler", h)
    BY <1>a DEF StackIs
  <2>2. m = 1 => h \in Addresses /\ frameOf'[h] # NoOne /\ cStack'[1] = Frame("handler", h)
    BY <1>0, <1>1, <2>1
  <2> QED
    BY <1>1, <2>2 DEF StackIs, Frame
<1>c. \A b : InHandler(b)' <=> InHandler(b)
  BY <1>0, <1>a, <1>b, <1>1, HandlerStays
<1>5. ASSUME NEW s \in LuaThreads, lstatus'[s] = "yielded" PROVE Waits(s)'
  <2>1. Waits(s)
    BY <1>3, <1>5 DEF CallInv
  <2> QED
    BY <1>0, <1>c, <2>1, WaitsOn
<1>6. \A s \in LuaThreads : lstatus'[s] = "new" => calls'[s] = 0
  BY <1>0, <1>3 DEF CallInv
<1>7. \A b \in Addresses : anchor'[b] \in {NoOne, frameOf'[b]}
  BY <1>0 DEF CallInv
<1>8. ReturnsOwnResult'
  BY <1>0, <1>3, OwnResults DEF CallInv
<1>9. StackOrder'
  BY <1>4 DEF StackOrder
<1> QED
  BY <1>2, <1>5, <1>6, <1>7, <1>8, <1>9 DEF CallInv

\* SuspendBody(): the call returns before the coroutine is over.
LEMMA SuspendBodyKeeps ==
    ASSUME CallInv, NEW a \in Addresses, SuspendBody(a)
    PROVE  CallInv'
<1>0. /\ CallTyped /\ At("body", a) /\ cStack' = Append(CPop, Frame("check", a))
      /\ UNCHANGED <<frameOf, anchor, luaStack, lstatus, ccontext, calls, returned>>
  BY DEF CallInv, SuspendBody, CPush, Frame
<1>a. PICK m \in {0, 1}, h \in Addresses \cup {NoOne} : StackIs(m, h)
  BY DEF CallInv, StackOrder
<1>b. /\ Len(cStack) > 0 /\ Len(cStack) = m + 2 /\ (m = 1 => a # h)
      /\ \E t \in LuaThreads :
           /\ lstatus[t] = "run" /\ cStack[m + 1] = Frame("lua", t) /\ BodyRuns(t, a)
  BY <1>0, <1>a, BodyOnTop
<1>e. Frame("check", a) \in StackEntries
  BY DEF Frame, StackEntries
<1>1. /\ cStack' \in Seq(StackEntries) /\ Len(cStack') = m + 2
      /\ \A i \in 1 .. m + 1 : cStack'[i] = cStack[i]
      /\ cStack'[m + 2] = Frame("check", a)
  <2>1. m + 2 - 1 = m + 1
    OBVIOUS
  <2> QED
    BY <1>0, <1>b, <1>e, <2>1, CStackReplaces
<1>2. CallTyped'
  BY <1>0, <1>1 DEF CallTyped
<1>4. StackIs(m, h)'
  <2>1. m = 1 => h \in Addresses /\ frameOf[h] # NoOne /\ cStack[1] = Frame("handler", h)
    BY <1>a DEF StackIs
  <2>2. m = 1 => h \in Addresses /\ frameOf'[h] # NoOne /\ cStack'[1] = Frame("handler", h)
    BY <1>0, <1>1, <2>1
  <2>3. PICK t \in LuaThreads :
           /\ lstatus[t] = "run" /\ cStack[m + 1] = Frame("lua", t) /\ BodyRuns(t, a)
    BY <1>b
  <2>4. lstatus'[t] = "run" /\ cStack'[m + 1] = Frame("lua", t)
    BY <1>0, <1>1, <2>3
  <2>5. BodyReturned(t, a)'
    BY <1>0, <2>3 DEF BodyReturned, BodyRuns
  <2> QED
    BY <1>b, <1>1, <2>2, <2>4, <2>5 DEF StackIs, Frame
<1>c. \A b : InHandler(b)' <=> InHandler(b)
  BY <1>0, <1>a, <1>b, <1>1, HandlerStays
<1>5. ASSUME NEW s \in LuaThreads, lstatus'[s] = "yielded" PROVE Waits(s)'
  <2>1. Waits(s)
    BY <1>0, <1>5 DEF CallInv
  <2> QED
    BY <1>0, <1>c, <2>1, WaitsOn
<1>6. \A s \in LuaThreads : lstatus'[s] = "new" => calls'[s] = 0
  BY <1>0 DEF CallInv
<1>7. \A b \in Addresses : anchor'[b] \in {NoOne, frameOf'[b]}
  BY <1>0 DEF CallInv
<1>8. ReturnsOwnResult'
  BY <1>0, OwnResults DEF CallInv
<1>9. StackOrder'
  BY <1>4 DEF StackOrder
<1> QED
  BY <1>2, <1>5, <1>6, <1>7, <1>8, <1>9 DEF CallInv

\* Invoke(): the frame is made and the body runs inside the call.
LEMMA InvokeKeeps ==
    ASSUME CallInv, NEW t \in LuaThreads, NEW a \in Addresses, Invoke(t, a)
    PROVE  CallInv'
<1>0. /\ CallTyped /\ At("lua", t) /\ frameOf[a] = NoOne
      /\ calls' = [calls EXCEPT ![t] = @ + 1]
      /\ frameOf' = [frameOf EXCEPT ![a] = t] /\ anchor' = [anchor EXCEPT ![a] = t]
      /\ luaStack' = [luaStack EXCEPT ![t] = <<Argument>>]
      /\ ccontext' = [ccontext EXCEPT ![t] = 1]
      /\ returned' = [returned EXCEPT ![t] = <<>>]
      /\ cStack' = Append(cStack, Frame("body", a)) /\ lstatus' = lstatus
  BY DEF CallInv, Invoke, CPush, Frame
<1>a. PICK m \in {0, 1}, h \in Addresses \cup {NoOne} : StackIs(m, h)
  BY DEF CallInv, StackOrder
<1>b. /\ Len(cStack) > 0 /\ Len(cStack) = m + 1 /\ lstatus[t] = "run"
      /\ cStack[m + 1] = Frame("lua", t)
  BY <1>0, <1>a, LuaOnTop
<1>e. Frame("body", a) \in StackEntries
  BY DEF Frame, StackEntries
<1>1. /\ cStack' \in Seq(StackEntries) /\ Len(cStack') = m + 2
      /\ \A i \in 1 .. m + 1 : cStack'[i] = cStack[i]
      /\ cStack'[m + 2] = Frame("body", a)
  <2>1. m + 1 + 1 = m + 2
    OBVIOUS
  <2> QED
    BY <1>0, <1>b, <1>e, <2>1, CStackMoves
<1>f. /\ frameOf'[a] = t /\ anchor'[a] = t /\ luaStack'[t] = <<Argument>> /\ ccontext'[t] = 1
      /\ \A b \in Addresses \ {a} : frameOf'[b] = frameOf[b] /\ anchor'[b] = anchor[b]
      /\ \A s \in LuaThreads \ {t} : /\ luaStack'[s] = luaStack[s] /\ ccontext'[s] = ccontext[s]
                                     /\ calls'[s] = calls[s] /\ returned'[s] = returned[s]
  BY <1>0 DEF CallTyped
<1>2. CallTyped'
  BY <1>0, <1>1 DEF CallTyped
<1>4. StackIs(m, h)'
  <2>1. m = 1 => h \in Addresses /\ frameOf[h] # NoOne /\ cStack[1] = Frame("handler", h)
    BY <1>a DEF StackIs
  <2>2. m = 1 => h \in Addresses /\ frameOf'[h] # NoOne /\ cStack'[1] = Frame("handler", h) /\ a # h
    BY <1>0, <1>1, <1>f, <2>1
  <2>4. lstatus'[t] = "run" /\ cStack'[m + 1] = Frame("lua", t)
    BY <1>0, <1>1, <1>b
  <2>5. BodyRuns(t, a)'
    BY <1>f DEF BodyRuns, Argument
  <2> QED
    BY <1>1, <2>2, <2>4, <2>5 DEF StackIs, Frame
<1>c. \A b : InHandler(b)' <=> InHandler(b)
  BY <1>0, <1>a, <1>b, <1>1, HandlerStays
<1>5. ASSUME NEW s \in LuaThreads, lstatus'[s] = "yielded" PROVE Waits(s)'
  <2>1. Waits(s) /\ s # t
    BY <1>0, <1>b, <1>5 DEF CallInv
  <2>2. \A b \in Addresses : frameOf[b] = s => b # a
    BY <1>0, CallAssumption
  <2> QED
    BY <1>c, <1>f, <2>1, <2>2, WaitsOn
<1>6. \A s \in LuaThreads : lstatus'[s] = "new" => calls'[s] = 0
  BY <1>0, <1>b, <1>f DEF CallInv
<1>7. \A b \in Addresses : anchor'[b] \in {NoOne, frameOf'[b]}
  BY <1>f DEF CallInv
<1>8. ReturnsOwnResult'
  <2>1. luaStack'[t] # <<>>
    BY <1>f
  <2>2. \A s \in LuaThreads \ {t} : lstatus'[s] = lstatus[s]
    BY <1>0
  <2> QED
    BY <1>f, <2>1, <2>2, OwnResults DEF CallInv
<1>9. StackOrder'
  BY <1>4 DEF StackOrder
<1> QED
  BY <1>2, <1>5, <1>6, <1>7, <1>8, <1>9 DEF CallInv

\* HandlerEnds(): the frame of the handler goes, which nobody waits for.
LEMMA HandlerEndsKeeps ==
    ASSUME CallInv, NEW a \in Addresses, HandlerEnds(a)
    PROVE  CallInv'
<1>0. /\ CallTyped /\ At("handler", a) /\ cStack' = CPop
      /\ anchor' = [anchor EXCEPT ![a] = NoOne] /\ frameOf' = [frameOf EXCEPT ![a] = NoOne]
      /\ UNCHANGED <<luaStack, lstatus, ccontext, calls, returned>>
  BY DEF CallInv, HandlerEnds, Cleanup, FreeFrame
<1>a. PICK m \in {0, 1}, h \in Addresses \cup {NoOne} : StackIs(m, h)
  BY DEF CallInv, StackOrder
<1>b. Len(cStack) = 1 /\ m = 1 /\ a = h
  BY <1>0, <1>a, OnTop
<1>1. cStack' \in Seq(StackEntries) /\ Len(cStack') = 0 /\ cStack' = <<>>
  <2>1. Len(cStack) > 0 /\ 1 - 1 = 0
    BY <1>b
  <2>2. cStack' \in Seq(StackEntries) /\ Len(cStack') = 0
    BY <1>0, <1>b, <2>1, CStackPops
  <2> QED
    BY <2>2, EmptySeq
<1>f. /\ frameOf'[a] = NoOne /\ anchor'[a] = NoOne
      /\ \A b \in Addresses \ {a} : frameOf'[b] = frameOf[b] /\ anchor'[b] = anchor[b]
  BY <1>0 DEF CallTyped
<1>2. CallTyped'
  BY <1>0, <1>1 DEF CallTyped
<1>4. StackOrder'
  <2>1. StackIs(0, NoOne)'
    BY <1>1 DEF StackIs
  <2> QED
    BY <2>1 DEF StackOrder
<1>5. ASSUME NEW s \in LuaThreads, lstatus'[s] = "yielded" PROVE Waits(s)'
  <2>1. Waits(s)
    BY <1>0, <1>5 DEF CallInv
  <2>2. \A b : InHandler(b) <=> b = a
    BY <1>0, <1>a, <1>b, HandlerAtBottom
  <2>3. \A b : ~InHandler(b)'
    BY <1>1 DEF InHandler
  <2> QED
    BY <1>0, <1>f, <2>1, <2>2, <2>3, WaitsOn
<1>6. \A s \in LuaThreads : lstatus'[s] = "new" => calls'[s] = 0
  BY <1>0 DEF CallInv
<1>7. \A b \in Addresses : anchor'[b] \in {NoOne, frameOf'[b]}
  BY <1>f DEF CallInv
<1>8. ReturnsOwnResult'
  BY <1>0, OwnResults DEF CallInv
<1> QED
  BY <1>2, <1>4, <1>5, <1>6, <1>7, <1>8 DEF CallInv

\* CompleteEarly(): the coroutine ends inside the call, in a thread that runs.
LEMMA CompleteEarlyKeeps ==
    ASSUME CallInv, NEW a \in Addresses, NEW kind \in Results, CompleteEarly(a, kind)
    PROVE  CallInv'
<1>a. PICK m \in {0, 1}, h \in Addresses \cup {NoOne} : StackIs(m, h)
  BY DEF CallInv, StackOrder
<1>b. /\ CallTyped /\ At("body", a)
      /\ Handler(a, kind, CPush(CPop, "check", a))
  BY DEF CallInv, CompleteEarly
<1>k. /\ Len(cStack) > 0 /\ Len(cStack) = m + 2 /\ (m = 1 => a # h)
      /\ \E t \in LuaThreads :
           /\ lstatus[t] = "run" /\ cStack[m + 1] = Frame("lua", t) /\ BodyRuns(t, a)
  BY <1>a, <1>b, BodyOnTop
<1>t. PICK t \in LuaThreads :
           /\ lstatus[t] = "run" /\ cStack[m + 1] = Frame("lua", t) /\ BodyRuns(t, a)
  BY <1>k
<1>u. frameOf[a] = t /\ anchor[a] = t /\ luaStack[t] = <<Argument>> /\ ccontext[t] = 1 /\ t # NoOne
  BY <1>t, CallAssumption DEF BodyRuns
\* the error is trapped, or the result is pushed; the thread has not yielded
<1>0. /\ cStack' = Append(CPop, Frame("check", a))
      /\ anchor' = [anchor EXCEPT ![a] = NoOne] /\ frameOf' = [frameOf EXCEPT ![a] = NoOne]
      /\ lstatus' = lstatus /\ ccontext' = ccontext /\ calls' = calls /\ returned' = returned
      /\ luaStack' \in {luaStack, [luaStack EXCEPT ![t] = @ \o Pushed(a, kind)]}
  <2>1. CASE HandlerTraps(a, kind, CPush(CPop, "check", a))
    <3>1. lstatus' = [lstatus EXCEPT ![t] = lstatus[t]]
      BY <1>t, <1>u, <2>1 DEF HandlerTraps
    <3>2. lstatus' = lstatus
      BY <1>b, <3>1 DEF CallTyped
    <3> QED
      BY <2>1, <3>2 DEF HandlerTraps, CPush, Frame, Cleanup, FreeFrame
  <2>2. CASE HandlerEarly(a, kind, CPush(CPop, "check", a))
    BY <1>u, <2>2 DEF HandlerEarly, CPush, Frame, Cleanup, FreeFrame
  <2>3. ~HandlerResumes(a, kind, CPush(CPop, "check", a)) /\ ~HandlerPosts(a, kind, CPush(CPop, "check", a))
    <3>1. lstatus[frameOf[a]] # "yielded"
      BY <1>t, <1>u
    <3> QED
      BY <3>1 DEF HandlerResumes, HandlerPosts
  <2> QED
    BY <1>b, <2>1, <2>2, <2>3 DEF Handler
<1>e. Frame("check", a) \in StackEntries
  BY DEF Frame, StackEntries
<1>1. /\ cStack' \in Seq(StackEntries) /\ Len(cStack') = m + 2
      /\ \A i \in 1 .. m + 1 : cStack'[i] = cStack[i]
      /\ cStack'[m + 2] = Frame("check", a)
  <2>1. m + 2 - 1 = m + 1
    OBVIOUS
  <2> QED
    BY <1>0, <1>b, <1>k, <1>e, <2>1, CStackReplaces
<1>f. /\ frameOf'[a] = NoOne /\ anchor'[a] = NoOne
      /\ \A b \in Addresses \ {a} : frameOf'[b] = frameOf[b] /\ anchor'[b] = anchor[b]
  BY <1>0, <1>b DEF CallTyped
<1>g. /\ \A s \in LuaThreads \ {t} : luaStack'[s] = luaStack[s]
      /\ DOMAIN luaStack' = LuaThreads
  <2>1. CASE luaStack' = luaStack
    BY <2>1, <1>b DEF CallTyped
  <2>2. CASE luaStack' = [luaStack EXCEPT ![t] = @ \o Pushed(a, kind)]
    BY <2>2, <1>b DEF CallTyped
  <2> QED
    BY <1>0, <2>1, <2>2
<1>h. /\ luaStack'[t] # <<>>
      /\ \/ luaStack'[t] = <<Argument>>
         \/ luaStack'[t] = <<Argument, Result(t, kind), ErrorMark(t)>>
         \/ luaStack'[t] = <<Argument, Result(t, kind), LightData(a)>>
  <2>0. <<Argument>> # <<>>
    OBVIOUS
  <2>1. CASE luaStack' = luaStack
    BY <1>u, <2>0, <2>1
  <2>2. CASE luaStack' = [luaStack EXCEPT ![t] = @ \o Pushed(a, kind)]
    <3>1. luaStack'[t] = <<Argument>> \o Pushed(a, kind)
      BY <1>b, <1>u, <2>2 DEF CallTyped
    <3> DEFINE x == Argument
               y == Result(t, kind)
               z == IF kind = "error" THEN ErrorMark(t) ELSE LightData(a)
    <3>2. Pushed(a, kind) = <<y, z>>
      BY <1>u DEF Pushed
    <3>3. z = ErrorMark(t) \/ z = LightData(a)
      OBVIOUS
    <3> HIDE DEF x, y, z
    <3>4. <<x>> \o <<y, z>> = <<x, y, z>>
      BY ONLY Joined
    <3>5. luaStack'[t] = <<x, y, z>>
      BY <3>1, <3>2, <3>4 DEF x
    <3>6. <<x, y, z>> # <<>>
      OBVIOUS
    <3> QED
      BY <3>3, <3>5, <3>6 DEF x, y
  <2> QED
    BY <1>0, <2>1, <2>2
<1>2. CallTyped'
  BY <1>0, <1>1, <1>b, <1>g DEF CallTyped
<1>4. StackIs(m, h)'
  <2>1. m = 1 => h \in Addresses /\ frameOf[h] # NoOne /\ cStack[1] = Frame("handler", h)
    BY <1>a DEF StackIs
  <2>2. m = 1 => h \in Addresses /\ frameOf'[h] # NoOne /\ cStack'[1] = Frame("handler", h) /\ a # h
    BY <1>1, <1>f, <1>k, <2>1
  <2>4. lstatus'[t] = "run" /\ cStack'[m + 1] = Frame("lua", t)
    BY <1>0, <1>1, <1>t
  <2>5. BodyReturned(t, a)'
    <3>1. Result(t, kind)' = Result(t, kind)
      BY <1>0, ResultOn
    <3>2. ccontext'[t] = 1 /\ frameOf'[a] # t
      BY <1>0, <1>f, <1>u
    <3> QED
      BY <1>h, <3>1, <3>2 DEF BodyReturned, Argument, ErrorMark, LightData, Results
  <2> QED
    BY <1>1, <2>2, <2>4, <2>5 DEF StackIs, Frame
<1>c. \A b : InHandler(b)' <=> InHandler(b)
  BY <1>a, <1>b, <1>k, <1>1, HandlerStays
<1>5. ASSUME NEW s \in LuaThreads, lstatus'[s] = "yielded" PROVE Waits(s)'
  <2>1. Waits(s) /\ s # t
    BY <1>0, <1>t, <1>5 DEF CallInv
  <2>2. \A b \in Addresses : frameOf[b] = s => b # a
    BY <1>u, <2>1
  <2>3. ccontext'[s] = ccontext[s]
    BY <1>0
  <2> QED
    BY <1>c, <1>f, <1>g, <2>1, <2>2, <2>3, WaitsOn
<1>6. \A s \in LuaThreads : lstatus'[s] = "new" => calls'[s] = 0
  BY <1>0 DEF CallInv
<1>7. \A b \in Addresses : anchor'[b] \in {NoOne, frameOf'[b]}
  BY <1>f DEF CallInv
<1>8. ReturnsOwnResult'
  BY <1>0, <1>g, <1>h, OwnResults DEF CallInv
<1>9. StackOrder'
  BY <1>4 DEF StackOrder
<1> QED
  BY <1>2, <1>5, <1>6, <1>7, <1>8, <1>9 DEF CallInv

\* What a resumed thread gets is the result, whichever way the build hands it
\* over, and never the mark.
LEMMA ResumedWith ==
    ASSUME NEW t \in LuaThreads, NEW a \in Addresses, NEW kind \in Results, frameOf[a] = t,
           luaStack[t] = <<Argument>>, ccontext[t] = 1, kind = "error" => build = "yieldk",
           DOMAIN returned = LuaThreads, HandlerResumes(a, kind, <<>>)
    PROVE  returned'[t] = <<Result(t, kind)>>
<1> DEFINE x == Argument
           y == Result(t, kind)
           z == IF kind = "error" THEN ErrorMark(t) ELSE LightData(a)
           s == luaStack[t] \o Pushed(a, kind)
           count == ResumeCount(kind)
           resumed == Drop(s, 2 - count)
           n == IF resumed[Len(resumed)] = ErrorMark(t) THEN 1 ELSE 0
<1>1. returned'[t] = IF build = "yieldk" THEN SubSeq(resumed, 1 + 1, Len(resumed) - n)
                     ELSE Last(resumed, count)
  BY DEF HandlerResumes
<1>2. Pushed(a, kind) = <<y, z>>
  BY DEF Pushed
<1>3. kind = "error" => z = ErrorMark(t) /\ count = 2 /\ build = "yieldk"
  BY DEF ResumeCount
<1>4. kind # "error" => count = 1
  BY DEF ResumeCount
<1>5. y # ErrorMark(t)
  <2>1. kind # "mark"
    BY DEF Results
  <2> QED
    BY <2>1 DEF Result, ErrorMark, LightData
<1> HIDE DEF x, y, z, count
<1>6. s = <<x, y, z>>
  <2>1. s = <<x>> \o <<y, z>>
    BY <1>2 DEF x
  <2> QED
    BY <2>1, Joined
<1>b. n = IF resumed[Len(resumed)] = ErrorMark(t) THEN 1 ELSE 0
  OBVIOUS
<1> HIDE DEF s, n, resumed
<1>a. Len(<<x, y, z>>) = 3 /\ <<x, y, z>>[3] = z /\ Len(<<x, y>>) = 2 /\ <<x, y>>[2] = y
  OBVIOUS
<1>7. CASE kind = "error"
  <2>1. resumed = SubSeq(s, 1, Len(s) - 0)
    BY <1>3, <1>7 DEF Drop, resumed
  <2>2. Len(s) - 0 = 3
    BY <1>6, <1>a
  <2>3. resumed = <<x, y, z>>
    BY <1>6, <2>1, <2>2, WithMark
  <2>4. Len(resumed) = 3 /\ resumed[3] = z
    BY <1>a, <2>3
  <2>5. Len(resumed) - n = 2 /\ 1 + 1 = 2
    BY <1>3, <1>7, <1>b, <2>4
  <2>6. returned'[t] = SubSeq(<<x, y, z>>, 2, 2)
    BY <1>1, <1>3, <1>7, <2>3, <2>5
  <2> QED
    BY <2>6, ResultOf DEF y
<1>8. CASE kind # "error"
  <2>1. resumed = SubSeq(s, 1, Len(s) - 1)
    BY <1>4, <1>8 DEF Drop, resumed
  <2>2. Len(s) - 1 = 2
    BY <1>6, <1>a
  <2>3. resumed = <<x, y>>
    BY <1>6, <2>1, <2>2, WithoutMark
  <2>4. Len(resumed) = 2 /\ resumed[2] = y
    BY <1>a, <2>3
  <2>5. Len(resumed) - n = 2 /\ 1 + 1 = 2 /\ 2 - 1 + 1 = 2
    BY <1>5, <1>b, <2>4
  <2>7. Last(resumed, count) = SubSeq(resumed, 2, 2)
    BY <1>4, <1>8, <2>4, <2>5 DEF Last
  <2>6. returned'[t] = SubSeq(<<x, y>>, 2, 2)
    BY <1>1, <2>3, <2>5, <2>7
  <2> QED
    BY <2>6, ResultOfTwo DEF y
<1> QED
  BY <1>7, <1>8

LEMMA PostedWith ==
    ASSUME NEW t \in LuaThreads, NEW a \in Addresses, NEW kind \in Results, frameOf[a] = t,
           DOMAIN returned = LuaThreads, HandlerPosts(a, kind, <<>>)
    PROVE  returned'[t] = <<Result(t, kind)>>
<1> DEFINE y == Result(t, kind)
           z == IF kind = "error" THEN ErrorMark(t) ELSE LightData(a)
           p == Pushed(a, kind)
<1>1. kind # "error" /\ returned'[t] = Last(Drop(p, 2 - ResumeCount(kind)), ResumeCount(kind))
  BY DEF HandlerPosts
<1>2. p = <<y, z>>
  BY DEF Pushed
<1>3. ResumeCount(kind) = 1
  BY <1>1 DEF ResumeCount
<1> HIDE DEF y, z, p
<1>4. Len(<<y, z>>) = 2 /\ Len(<<y>>) = 1
  OBVIOUS
<1>5. Drop(p, 1) = <<y>>
  <2>1. Len(p) - 1 = 1
    BY <1>2, <1>4
  <2>2. Drop(p, 1) = SubSeq(<<y, z>>, 1, 1)
    BY <1>2, <2>1 DEF Drop
  <2> QED
    BY <2>2, FirstOfTwo
<1>6. Last(<<y>>, 1) = <<y>>
  <2>1. Last(<<y>>, 1) = SubSeq(<<y>>, 1, 1)
    BY <1>4 DEF Last
  <2> QED
    BY <2>1, FirstOfOne
<1>7. 2 - ResumeCount(kind) = 1
  BY <1>3
<1>8. returned'[t] = Last(Drop(p, 1), 1)
  BY <1>1, <1>3, <1>7
<1> QED
  BY <1>5, <1>6, <1>8 DEF y

\* CompleteLate(): the coroutine ends in a poll of main_warp, and the thread
\* that waits is lost with the error, runs inside the handler, or is posted.
LEMMA CompleteLateKeeps ==
    ASSUME CallInv, NEW a \in Addresses, NEW kind \in Results, CompleteLate(a, kind)
    PROVE  CallInv'
<1>p. frameOf[a] \in LuaThreads
  BY DEF CallInv, CallTyped, CompleteLate
<1>q. PICK t \in LuaThreads : frameOf[a] = t
  BY <1>p
<1>0. /\ CallTyped /\ cStack = <<>> /\ lstatus[t] = "yielded" /\ Handler(a, kind, <<>>)
      /\ frameOf[a] = t
  BY <1>q DEF CallInv, CompleteLate
<1>t. t \in LuaThreads
  BY <1>q
<1>w. luaStack[t] = <<Argument>> /\ ccontext[t] = 1
  BY <1>0, <1>t DEF CallInv, Waits
<1>i. \A b : ~InHandler(b)
  BY <1>0 DEF InHandler
<1>n. <<Argument>> # <<>>
  OBVIOUS
<1>E. ~HandlerEarly(a, kind, <<>>)
  BY <1>0 DEF HandlerEarly
<1>1. CASE HandlerTraps(a, kind, <<>>)
  <2>0. /\ cStack' = <<>> /\ lstatus' = [lstatus EXCEPT ![t] = "lost"]
        /\ anchor' = [anchor EXCEPT ![a] = NoOne] /\ frameOf' = [frameOf EXCEPT ![a] = NoOne]
        /\ luaStack' = luaStack /\ ccontext' = ccontext /\ calls' = calls /\ returned' = returned
    BY <1>0, <1>1 DEF HandlerTraps, Cleanup, FreeFrame
  <2>f. /\ frameOf'[a] = NoOne /\ anchor'[a] = NoOne
        /\ \A b \in Addresses \ {a} : frameOf'[b] = frameOf[b] /\ anchor'[b] = anchor[b]
    BY <1>0, <2>0 DEF CallTyped
  <2>3. lstatus'[t] = "lost" /\ \A s \in LuaThreads \ {t} : lstatus'[s] = lstatus[s]
    BY <1>0, <1>t, <2>0 DEF CallTyped
  <2>2. CallTyped'
    BY <1>0, <2>0 DEF CallTyped
  <2>4. StackOrder'
    <3>1. StackIs(0, NoOne)'
      BY <2>0 DEF StackIs
    <3> QED
      BY <3>1 DEF StackOrder
  <2>5. ASSUME NEW s \in LuaThreads, lstatus'[s] = "yielded" PROVE Waits(s)'
    <3>1. Waits(s) /\ s # t
      BY <2>3, <2>5 DEF CallInv
    <3>2. \A b \in Addresses : frameOf[b] = s => b # a
      BY <1>0, <3>1
    <3>3. \A b : ~InHandler(b)'
      BY <2>0 DEF InHandler
    <3> QED
      BY <2>0, <2>f, <3>1, <3>2, <3>3, WaitsOn
  <2>6. \A s \in LuaThreads : lstatus'[s] = "new" => calls'[s] = 0
    BY <2>0, <2>3 DEF CallInv
  <2>7. \A b \in Addresses : anchor'[b] \in {NoOne, frameOf'[b]}
    BY <2>f DEF CallInv
  <2>8. ReturnsOwnResult'
    BY <2>0, <2>3, OwnResults DEF CallInv
  <2> QED
    BY <2>2, <2>4, <2>5, <2>6, <2>7, <2>8 DEF CallInv
<1>2. CASE HandlerPosts(a, kind, <<>>)
  <2>0. /\ cStack' = <<>> /\ lstatus' = [lstatus EXCEPT ![t] = "woken"]
        /\ anchor' = [anchor EXCEPT ![a] = NoOne] /\ frameOf' = [frameOf EXCEPT ![a] = NoOne]
        /\ luaStack' = [luaStack EXCEPT ![t] = <<>>] /\ ccontext' = ccontext /\ calls' = calls
        /\ DOMAIN returned' = DOMAIN returned
        /\ \A s \in LuaThreads \ {t} : returned'[s] = returned[s]
    BY <1>0, <1>2 DEF HandlerPosts, Cleanup, FreeFrame, CallTyped
  <2>f. /\ frameOf'[a] = NoOne /\ anchor'[a] = NoOne
        /\ \A b \in Addresses \ {a} : frameOf'[b] = frameOf[b] /\ anchor'[b] = anchor[b]
    BY <1>0, <2>0 DEF CallTyped
  <2>3. /\ lstatus'[t] = "woken" /\ \A s \in LuaThreads \ {t} : lstatus'[s] = lstatus[s]
        /\ \A s \in LuaThreads \ {t} : luaStack'[s] = luaStack[s]
    BY <1>0, <1>t, <2>0 DEF CallTyped
  <2>2. CallTyped'
    BY <1>0, <2>0 DEF CallTyped
  <2>4. StackOrder'
    <3>1. StackIs(0, NoOne)'
      BY <2>0 DEF StackIs
    <3> QED
      BY <3>1 DEF StackOrder
  <2>5. ASSUME NEW s \in LuaThreads, lstatus'[s] = "yielded" PROVE Waits(s)'
    <3>1. Waits(s) /\ s # t
      BY <2>3, <2>5 DEF CallInv
    <3>2. \A b \in Addresses : frameOf[b] = s => b # a
      BY <1>0, <3>1
    <3>3. \A b : ~InHandler(b)'
      BY <2>0 DEF InHandler
    <3>4. luaStack'[s] = luaStack[s] /\ ccontext'[s] = ccontext[s]
      BY <2>0, <2>3, <3>1
    <3> QED
      BY <2>f, <3>1, <3>2, <3>3, <3>4, WaitsOn
  <2>6. \A s \in LuaThreads : lstatus'[s] = "new" => calls'[s] = 0
    BY <2>0, <2>3 DEF CallInv
  <2>7. \A b \in Addresses : anchor'[b] \in {NoOne, frameOf'[b]}
    BY <2>f DEF CallInv
  <2>8. ReturnsOwnResult'
    <3>1. returned'[t] = <<Result(t, kind)>>
      BY <1>0, <1>2, <1>t, PostedWith DEF CallTyped
    <3>2. Result(t, kind)' = Result(t, kind)
      BY <2>0, ResultOn
    <3>3. \E k \in Results : returned'[t] = <<Result(t, k)'>>
      BY <3>1, <3>2
    <3> QED
      BY <2>0, <2>3, <3>3, OwnResults DEF CallInv
  <2> QED
    BY <2>2, <2>4, <2>5, <2>6, <2>7, <2>8 DEF CallInv
<1>3. CASE HandlerResumes(a, kind, <<>>)
  <2>0. /\ cStack' = Append(Append(cStack, Frame("handler", a)), Frame("lua", t))
        /\ lstatus' = [lstatus EXCEPT ![t] = "run"] /\ frameOf' = frameOf /\ anchor' = anchor
        /\ luaStack' = [luaStack EXCEPT ![t] = <<>>] /\ ccontext' = ccontext /\ calls' = calls
        /\ DOMAIN returned' = DOMAIN returned
        /\ \A s \in LuaThreads \ {t} : returned'[s] = returned[s]
    BY <1>0, <1>3 DEF HandlerResumes, CPush, Frame, CallTyped
  <2>1. /\ cStack' \in Seq(StackEntries) /\ Len(cStack') = 2
        /\ cStack'[1] = Frame("handler", a) /\ cStack'[2] = Frame("lua", t)
    <3> DEFINE p == Append(cStack, Frame("handler", a))
               e == Frame("lua", t)
    <3>0. Frame("handler", a) \in StackEntries /\ e \in StackEntries
      BY DEF Frame, StackEntries
    <3>1. Len(cStack) = 0 /\ 0 + 1 = 1
      BY <1>0
    <3>2. p \in Seq(StackEntries) /\ Len(p) = 1 /\ p[1] = Frame("handler", a)
      BY <1>0, <3>0, <3>1, CStackMoves
    <3> HIDE DEF p, e
    <3>a. /\ Append(p, e) \in Seq(StackEntries) /\ Len(Append(p, e)) = Len(p) + 1
          /\ Append(p, e)[Len(p) + 1] = e /\ \A i \in 1 .. Len(p) : Append(p, e)[i] = p[i]
      <4>1. p \in Seq(StackEntries) /\ e \in StackEntries
        BY <3>0, <3>2
      <4> QED
        BY ONLY <4>1, AppendProperties
    <3>3. /\ Append(p, e) \in Seq(StackEntries) /\ Len(Append(p, e)) = 2
          /\ Append(p, e)[2] = e /\ Append(p, e)[1] = p[1]
      BY <3>2, <3>a
    <3>4. cStack' = Append(p, e)
      BY <2>0 DEF p, e
    <3> QED
      BY <3>2, <3>3, <3>4 DEF e
  <2>3. /\ lstatus'[t] = "run" /\ \A s \in LuaThreads \ {t} : lstatus'[s] = lstatus[s]
        /\ \A s \in LuaThreads \ {t} : luaStack'[s] = luaStack[s]
    BY <1>0, <1>t, <2>0 DEF CallTyped
  <2>2. CallTyped'
    BY <1>0, <2>0, <2>1 DEF CallTyped
  <2>4. StackOrder'
    <3>1. frameOf'[a] # NoOne
      BY <1>0, <1>t, <2>0, CallAssumption
    <3>2. StackIs(1, a)'
      BY <2>1, <2>3, <3>1 DEF StackIs, Frame
    <3> QED
      BY <3>2 DEF StackOrder
  <2>5. ASSUME NEW s \in LuaThreads, lstatus'[s] = "yielded" PROVE Waits(s)'
    <3>1. Waits(s) /\ s # t
      BY <2>3, <2>5 DEF CallInv
    <3>2. \A b \in Addresses : frameOf[b] = s => b # a
      BY <1>0, <3>1
    <3>3. \A b : InHandler(b)' => b = a
      BY <2>1 DEF InHandler, Frame
    <3>4. luaStack'[s] = luaStack[s] /\ ccontext'[s] = ccontext[s]
      BY <2>0, <2>3, <3>1
    <3> QED
      BY <2>0, <3>1, <3>2, <3>3, <3>4, WaitsOn
  <2>6. \A s \in LuaThreads : lstatus'[s] = "new" => calls'[s] = 0
    BY <2>0, <2>3 DEF CallInv
  <2>7. \A b \in Addresses : anchor'[b] \in {NoOne, frameOf'[b]}
    BY <2>0 DEF CallInv
  <2>8. ReturnsOwnResult'
    <3>0. (kind = "error" => build = "yieldk") /\ DOMAIN returned = LuaThreads
      BY <1>0, <1>3 DEF HandlerResumes, CallTyped
    <3>1. returned'[t] = <<Result(t, kind)>>
      BY <1>0, <1>3, <1>t, <1>w, <3>0, ResumedWith
    <3>2. Result(t, kind)' = Result(t, kind)
      BY <2>0, ResultOn
    <3>3. \E k \in Results : returned'[t] = <<Result(t, k)'>>
      BY <3>1, <3>2
    <3> QED
      BY <2>0, <2>3, <3>3, OwnResults DEF CallInv
  <2> QED
    BY <2>2, <2>4, <2>5, <2>6, <2>7, <2>8 DEF CallInv
<1> QED
  BY <1>0, <1>E, <1>1, <1>2, <1>3 DEF Handler

\* The argument of the call is not taken for a mark.
LEMMA ArgumentNoMark ==
    ASSUME NEW a, NEW t
    PROVE  Argument # LightData(a) /\ Argument # ErrorMark(t)
<1>1. \A x : <<"argument">> # <<"mark", x>>
  <2>1. ASSUME NEW x PROVE Len(<<"argument">>) = 1 /\ Len(<<"mark", x>>) = 2
    OBVIOUS
  <2> QED
    BY <2>1
<1> QED
  BY <1>1 DEF Argument, LightData, ErrorMark

\* CheckMark(): the call returns, raises, or yields.
LEMMA CheckMarkKeeps ==
    ASSUME CallInv, NEW a \in Addresses, CheckMark(a)
    PROVE  CallInv'
<1>a. PICK m \in {0, 1}, h \in Addresses \cup {NoOne} : StackIs(m, h)
  BY DEF CallInv, StackOrder
<1>b. CallTyped /\ At("check", a)
  BY DEF CallInv, CheckMark
<1>k. /\ Len(cStack) > 0 /\ Len(cStack) = m + 2 /\ (m = 1 => a # h)
      /\ \E t \in LuaThreads :
           /\ lstatus[t] = "run" /\ cStack[m + 1] = Frame("lua", t) /\ BodyReturned(t, a)
  BY <1>a, <1>b, CheckOnTop
<1>t. PICK t \in LuaThreads :
           /\ lstatus[t] = "run" /\ cStack[m + 1] = Frame("lua", t) /\ BodyReturned(t, a)
  BY <1>k
<1>u. cStack[Len(cStack) - 1].of = t
  <2>1. Len(cStack) - 1 = m + 1
    BY <1>k
  <2> QED
    BY <1>t, <2>1 DEF Frame
<1> DEFINE s == luaStack[t]
<1>0. /\ \/ /\ s[Len(s)] = LightData(a) /\ lstatus' = lstatus /\ cStack' = CPop
            /\ returned' = [returned EXCEPT ![t] = SubSeq(s, ccontext[t] + 1, Len(s) - 1)]
            /\ luaStack' = [luaStack EXCEPT ![t] = <<>>]
         \/ /\ s[Len(s)] = ErrorMark(t) /\ lstatus' = lstatus /\ cStack' = CPop
            /\ returned' = [returned EXCEPT ![t] = Last(Drop(s, 1), 1)]
            /\ luaStack' = [luaStack EXCEPT ![t] = <<>>]
         \/ /\ s[Len(s)] # LightData(a) /\ s[Len(s)] # ErrorMark(t)
            /\ lstatus' = [lstatus EXCEPT ![t] = IF frameOf[a] = t THEN "yielded" ELSE "lost"]
            /\ cStack' = SubSeq(cStack, 1, Len(cStack) - 2)
            /\ luaStack' = luaStack /\ returned' = returned
      /\ frameOf' = frameOf /\ anchor' = anchor /\ ccontext' = ccontext /\ calls' = calls
  BY <1>u DEF CheckMark, AlreadyCompleted
<1>c. ccontext[t] = 1
  BY <1>t DEF BodyReturned
<1>m. m = 1 => h \in Addresses /\ frameOf[h] # NoOne /\ cStack[1] = Frame("handler", h)
  BY <1>a DEF StackIs
\* The stack holds a result under a mark.
<1>1. ASSUME NEW kind \in Results, NEW z, s = <<Argument, Result(t, kind), z>>,
             z = ErrorMark(t) \/ z = LightData(a)
      PROVE  CallInv'
  <2> DEFINE x == Argument
             y == Result(t, kind)
  <2>a. s = <<x, y, z>>
    BY <1>1
  <2> HIDE DEF x, y
  <2>b. Len(s) = 3 /\ s[Len(s)] = z
    <3>1. Len(<<x, y, z>>) = 3 /\ <<x, y, z>>[3] = z
      OBVIOUS
    <3> QED
      BY <2>a, <3>1
  <2>c. Drop(s, 1) = <<x, y>>
    <3>1. Drop(s, 1) = SubSeq(<<x, y, z>>, 1, 2)
      BY <2>a, <2>b DEF Drop
    <3> QED
      BY <3>1, WithoutMark
  <2>d. Last(<<x, y>>, 1) = <<y>>
    <3>1. Len(<<x, y>>) = 2 /\ 2 - 1 + 1 = 2
      OBVIOUS
    <3>2. Last(<<x, y>>, 1) = SubSeq(<<x, y>>, 2, 2)
      BY <3>1 DEF Last
    <3> QED
      BY <3>2, ResultOfTwo
  <2>e. SubSeq(s, ccontext[t] + 1, Len(s) - 1) = <<y>>
    <3>1. ccontext[t] + 1 = 2 /\ Len(s) - 1 = 2
      BY <1>c, <2>b
    <3>2. SubSeq(s, ccontext[t] + 1, Len(s) - 1) = SubSeq(<<x, y, z>>, 2, 2)
      BY <2>a, <3>1
    <3> QED
      BY <3>2, ResultOf
  <2>0. /\ lstatus' = lstatus /\ cStack' = CPop
        /\ returned' = [returned EXCEPT ![t] = <<y>>]
        /\ luaStack' = [luaStack EXCEPT ![t] = <<>>]
    <3> HIDE DEF s
    <3>1. s[Len(s)] = LightData(a) \/ s[Len(s)] = ErrorMark(t)
      BY <1>1, <2>b
    <3> QED
      BY <1>0, <2>c, <2>d, <2>e, <3>1
  <2>1. /\ cStack' \in Seq(StackEntries) /\ Len(cStack') = m + 1
        /\ \A i \in 1 .. m + 1 : cStack'[i] = cStack[i]
    <3>1. m + 2 - 1 = m + 1
      OBVIOUS
    <3> QED
      BY <1>b, <1>k, <2>0, <3>1, CStackPops
  <2>2. CallTyped'
    BY <1>0, <1>b, <2>0, <2>1 DEF CallTyped
  <2>3. returned'[t] = <<y>> /\ \A r \in LuaThreads \ {t} : /\ returned'[r] = returned[r]
                                                            /\ luaStack'[r] = luaStack[r]
    BY <1>b, <2>0 DEF CallTyped
  <2>4. StackIs(m, h)'
    <3>1. m = 1 => h \in Addresses /\ frameOf'[h] # NoOne /\ cStack'[1] = Frame("handler", h)
      BY <1>0, <1>m, <2>1
    <3>2. lstatus'[t] = "run" /\ cStack'[m + 1] = Frame("lua", t)
      BY <1>t, <2>0, <2>1
    <3> QED
      BY <2>1, <3>1, <3>2 DEF StackIs, Frame
  <2>h. \A b : InHandler(b)' <=> InHandler(b)
    BY <1>a, <1>b, <1>k, <2>1, HandlerStays
  <2>5. ASSUME NEW r \in LuaThreads, lstatus'[r] = "yielded" PROVE Waits(r)'
    <3>1. Waits(r) /\ r # t
      BY <1>t, <2>0, <2>5 DEF CallInv
    <3>2. luaStack'[r] = luaStack[r] /\ ccontext'[r] = ccontext[r]
      BY <1>0, <2>3, <3>1
    <3> QED
      BY <1>0, <2>h, <3>1, <3>2, WaitsOn
  <2>6. \A r \in LuaThreads : lstatus'[r] = "new" => calls'[r] = 0
    BY <1>0, <2>0 DEF CallInv
  <2>7. \A b \in Addresses : anchor'[b] \in {NoOne, frameOf'[b]}
    BY <1>0 DEF CallInv
  <2>8. ReturnsOwnResult'
    <3>1. Result(t, kind)' = y
      BY <1>0, ResultOn DEF y
    <3>2. \E k \in Results : returned'[t] = <<Result(t, k)'>>
      BY <2>3, <3>1
    <3>3. \A r \in LuaThreads \ {t} : lstatus'[r] = lstatus[r] /\ calls'[r] = calls[r]
      BY <1>0, <2>0
    <3> QED
      BY <2>3, <3>2, <3>3, OwnResults DEF CallInv
  <2>9. StackOrder'
    BY <2>4 DEF StackOrder
  <2> QED
    BY <2>2, <2>5, <2>6, <2>7, <2>8, <2>9 DEF CallInv
\* Nothing was pushed: the coroutine has suspended, or its error was trapped.
<1>2. ASSUME s = <<Argument>>, frameOf[a] = t => anchor[a] = t
      PROVE  CallInv'
  <2>b. s[Len(s)] # LightData(a) /\ s[Len(s)] # ErrorMark(t)
    <3> HIDE DEF s
    <3>1. s[Len(s)] = Argument
      BY <1>2
    <3> QED
      BY <3>1, ArgumentNoMark
  <2>0. /\ lstatus' = [lstatus EXCEPT ![t] = IF frameOf[a] = t THEN "yielded" ELSE "lost"]
        /\ cStack' = SubSeq(cStack, 1, Len(cStack) - 2)
        /\ luaStack' = luaStack /\ returned' = returned
    BY <1>0, <2>b
  <2>1. /\ cStack' \in Seq(StackEntries) /\ Len(cStack') = m
        /\ \A i \in 1 .. m : cStack'[i] = cStack[i]
    <3>1. Len(cStack) > 1 /\ Len(cStack) - 2 = m
      BY <1>k
    <3>2. /\ SubSeq(cStack, 1, Len(cStack) - 2) \in Seq(StackEntries)
          /\ Len(SubSeq(cStack, 1, Len(cStack) - 2)) = Len(cStack) - 2
          /\ \A i \in 1 .. Len(cStack) - 2 : SubSeq(cStack, 1, Len(cStack) - 2)[i] = cStack[i]
      BY ONLY <1>b, <3>1, CStackYields
    <3>3. cStack' = SubSeq(cStack, 1, Len(cStack) - 2)
      BY <2>0
    <3> QED
      BY ONLY <3>1, <3>2, <3>3
  <2>2. CallTyped'
    BY <1>0, <1>b, <2>0, <2>1 DEF CallTyped
  <2>3. /\ lstatus'[t] = IF frameOf[a] = t THEN "yielded" ELSE "lost"
        /\ \A r \in LuaThreads \ {t} : lstatus'[r] = lstatus[r]
    BY <1>b, <2>0 DEF CallTyped
  <2>4. StackIs(m, h)'
    <3>1. m = 1 => h \in Addresses /\ frameOf'[h] # NoOne /\ cStack'[1] = Frame("handler", h)
      BY <1>0, <1>m, <2>1
    <3> QED
      BY <2>1, <3>1 DEF StackIs, Frame
  <2>h. \A b : InHandler(b)' <=> InHandler(b)
    BY <1>a, <1>b, <1>k, <2>1, HandlerStays
  <2>5. ASSUME NEW r \in LuaThreads, lstatus'[r] = "yielded" PROVE Waits(r)'
    <3>1. CASE r # t
      <4>1. Waits(r)
        BY <2>3, <2>5, <3>1 DEF CallInv
      <4> QED
        BY <1>0, <2>0, <2>h, <4>1, WaitsOn
    <3>2. CASE r = t
      <4>1. frameOf[a] = t
        BY <2>3, <2>5, <3>2
      <4>2. ~InHandler(a)
        BY <1>a, <1>b, <1>k, HandlerAtBottom
      <4>3. frameOf'[a] = t /\ anchor'[a] = t /\ ~InHandler(a)'
        BY <1>0, <1>2, <2>h, <4>1, <4>2
      <4>4. luaStack'[t] = <<Argument>> /\ ccontext'[t] = 1
        BY <1>0, <1>2, <1>c, <2>0
      <4> QED
        BY <3>2, <4>3, <4>4 DEF Waits, Argument
    <3> QED
      BY <3>1, <3>2
  <2>6. \A r \in LuaThreads : lstatus'[r] = "new" => calls'[r] = 0
    BY <1>0, <2>3 DEF CallInv
  <2>7. \A b \in Addresses : anchor'[b] \in {NoOne, frameOf'[b]}
    BY <1>0 DEF CallInv
  <2>8. ReturnsOwnResult'
    <3>1. lstatus'[t] \notin {"run", "woken"}
      BY <2>3
    <3>2. \A r \in LuaThreads \ {t} : /\ calls'[r] = calls[r] /\ luaStack'[r] = luaStack[r]
                                      /\ returned'[r] = returned[r]
      BY <1>0, <2>0
    <3> QED
      BY <2>3, <3>1, <3>2, OwnResults DEF CallInv
  <2>9. StackOrder'
    BY <2>4 DEF StackOrder
  <2> QED
    BY <2>2, <2>5, <2>6, <2>7, <2>8, <2>9 DEF CallInv
<1>3. \/ s = <<Argument>> /\ (frameOf[a] = t => anchor[a] = t)
      \/ \E kind \in Results : \/ s = <<Argument, Result(t, kind), ErrorMark(t)>>
                               \/ s = <<Argument, Result(t, kind), LightData(a)>>
  BY <1>t DEF BodyReturned
<1>4. CASE s = <<Argument>> /\ (frameOf[a] = t => anchor[a] = t)
  BY <1>2, <1>4
<1>5. CASE \E kind \in Results : \/ s = <<Argument, Result(t, kind), ErrorMark(t)>>
                                 \/ s = <<Argument, Result(t, kind), LightData(a)>>
  <2>1. PICK kind \in Results : \/ s = <<Argument, Result(t, kind), ErrorMark(t)>>
                                \/ s = <<Argument, Result(t, kind), LightData(a)>>
    BY <1>5
  <2>2. CASE s = <<Argument, Result(t, kind), ErrorMark(t)>>
    BY <1>1, <2>2
  <2>3. CASE s = <<Argument, Result(t, kind), LightData(a)>>
    BY <1>1, <2>3
  <2> QED
    BY <2>1, <2>2, <2>3
<1> QED
  BY <1>3, <1>4, <1>5

LEMMA CallStarts == CallInit => CallInv
<1> SUFFICES ASSUME CallInit PROVE CallInv
  OBVIOUS
<1>0. /\ cStack = <<>> /\ frameOf = [a \in Addresses |-> NoOne] /\ anchor = [a \in Addresses |-> NoOne]
      /\ lstatus = [t \in LuaThreads |-> "new"] /\ calls = [t \in LuaThreads |-> 0]
      /\ DOMAIN luaStack = LuaThreads /\ DOMAIN returned = LuaThreads /\ DOMAIN ccontext = LuaThreads
  BY DEF CallInit
<1>1. CallTyped
  BY <1>0 DEF CallTyped
<1>2. StackOrder
  <2>1. StackIs(0, NoOne)
    BY <1>0 DEF StackIs
  <2> QED
    BY <2>1 DEF StackOrder
<1> QED
  BY <1>0, <1>1, <1>2 DEF CallInv, ReturnsOwnResult

LEMMA CallKeeps == CallInv /\ [CallNext]_callVars => CallInv'
<1> SUFFICES ASSUME CallInv, [CallNext]_callVars PROVE CallInv'
  OBVIOUS
<1>1. CASE UNCHANGED callVars
  <2>1. /\ cStack' = cStack /\ frameOf' = frameOf /\ anchor' = anchor /\ luaStack' = luaStack
        /\ lstatus' = lstatus /\ ccontext' = ccontext /\ calls' = calls /\ returned' = returned
    BY <1>1 DEF callVars
  <2>2. CallTyped'
    BY <2>1 DEF CallInv, CallTyped
  <2>3. \A t, a : (BodyRuns(t, a)' <=> BodyRuns(t, a)) /\ (BodyReturned(t, a)' <=> BodyReturned(t, a))
    BY <2>1 DEF BodyRuns, BodyReturned, Result, Argument, ErrorMark, LightData, Results
  <2>4. StackOrder'
    <3>1. PICK m \in {0, 1}, h \in Addresses \cup {NoOne} : StackIs(m, h)
      BY DEF CallInv, StackOrder
    <3>2. StackIs(m, h)'
      BY <2>1, <2>3, <3>1 DEF StackIs, Frame
    <3> QED
      BY <3>2 DEF StackOrder
  <2>5. \A t \in LuaThreads : lstatus'[t] = "yielded" => Waits(t)'
    BY <2>1 DEF CallInv, Waits, InHandler, Frame, Argument
  <2>6. ReturnsOwnResult'
    BY <2>1, OwnResults DEF CallInv
  <2> QED
    BY <2>1, <2>2, <2>4, <2>5, <2>6 DEF CallInv
<1>2. CASE CallNext
  BY <1>2, RunLuaKeeps, EndLuaKeeps, InvokeKeeps, SuspendBodyKeeps, HandlerEndsKeeps,
     CheckMarkKeeps, CompleteEarlyKeeps, CompleteLateKeeps DEF CallNext
<1> QED
  BY <1>1, <1>2

LEMMA CallRight == CallInv => CallsKept
BY DEF CallInv, CallsKept, AnchoredWhilePending, Waits

-----------------------------------------------------------------------------
(* The services together                                                     *)

LEMMA ServiceSteps ==
  ASSUME [ServicesNext]_serviceVars
  PROVE  /\ [UdpNext]_udpVars /\ [JobNext]_<<jobVars, busVars>>
         /\ [LifecycleNext]_lifeVars /\ [YieldNext]_yieldVars /\ [CallNext]_callVars
<1>1. CASE InUdp(UdpNext)              BY <1>1 DEF InUdp
<1>2. CASE InJobs(JobNext)             BY <1>2 DEF InJobs
<1>3. CASE InLifecycle(LifecycleNext)  BY <1>3 DEF InLifecycle
<1>4. CASE InYield(YieldNext)          BY <1>4 DEF InYield
<1>5. CASE InCall(CallNext)            BY <1>5 DEF InCall
<1>6. CASE InMain(Next)                BY <1>6 DEF InMain, otherVars
<1>7. CASE UNCHANGED serviceVars       BY <1>7 DEF serviceVars, otherVars
<1> QED
  BY <1>1, <1>2, <1>3, <1>4, <1>5, <1>6, <1>7 DEF ServicesNext

(***************************************************************************)
(* For any number of listeners, receivers and replies, and any queue       *)
(* bound: udp_listen(), stop() and restarts never leave a second thread or *)
(* socket for the port, and each datagram is handed out once and in order, *)
(* is still queued, or was dropped for QueueBound later ones.              *)
(***************************************************************************)
THEOREM DatagramsKept == ServicesSpec => []ListenerSound
<1>1. ServicesInit => UdpInv
  BY UdpStarts DEF ServicesInit
<1>2. UdpInv /\ [ServicesNext]_serviceVars => UdpInv'
  BY UdpKeeps, ServiceSteps
<1> QED
  BY <1>1, <1>2, UdpRight, PTL DEF ServicesSpec

(***************************************************************************)
(* For any number of jobs, steps, topics and consumers, and as long as the *)
(* strings of the job ids sort like their numbers, which is how            *)
(* job_submit() finds the oldest job: event_bus_t::poll() gives a consumer *)
(* each event once and in order, up to those the bound dropped, and no     *)
(* report of a job is ahead of what job_query() answers.                   *)
(***************************************************************************)
THEOREM FeedsKept == ASSUME IdsInOrder PROVE ServicesSpec => []FeedsSound
<1>1. ServicesInit => JobInv
  BY JobStarts DEF ServicesInit
<1>2. JobInv /\ [ServicesNext]_serviceVars => JobInv'
  BY IdsInOrder, JobKeeps, ServiceSteps
<1> QED
  BY <1>1, <1>2, JobRight, PTL DEF ServicesSpec

(***************************************************************************)
(* For any number of tasks, round trips and restarts: start() and stop()   *)
(* of ngx_lua_cpp_t never leave a coroutine without the main_warp it is to *)
(* return to, and after stop() none of the pool's tasks is left.           *)
(***************************************************************************)
THEOREM StopLeavesClean == ServicesSpec => []StopsClean
<1>1. ServicesInit => LifeInv
  BY LifeStarts DEF ServicesInit
<1>2. LifeInv /\ [ServicesNext]_serviceVars => LifeInv'
  BY LifeKeeps, ServiceSteps
<1>3. LifeInv => StopsClean
  BY DEF LifeInv, StopsClean
<1> QED
  BY <1>1, <1>2, <1>3, PTL DEF ServicesSpec

(***************************************************************************)
(* For any number of Lua coroutines, when no Lua handler calls stop() with *)
(* calls in flight: the queue of nginx's delayed events, which             *)
(* process_events() edits in place to take coroutines out of it, stays a   *)
(* ring, and each coroutine goes on with the return of its own C++ call.   *)
(***************************************************************************)
THEOREM YieldsMatched == ASSUME ~StopAtOnce PROVE ServicesSpec => []YieldsPaired
<1>1. ServicesInit => YieldInv
  BY YieldStarts DEF ServicesInit
<1>2. YieldInv /\ [ServicesNext]_serviceVars => YieldInv'
  BY YieldKeeps, ServiceSteps
<1> QED
  BY <1>1, <1>2, YieldRight, PTL DEF ServicesSpec
(***************************************************************************)
(* For any number of Lua threads, frames and calls, in each of the three   *)
(* builds: the Lua thread that function_coroutine_proxy() made wait is in  *)
(* the registry under a frame of its own until the completion handler is   *)
(* done with it, and a call that goes on has exactly the value its own     *)
(* coroutine returned, never a mark, whether the coroutine ended inside    *)
(* the call or in a later poll.                                            *)
(***************************************************************************)
THEOREM CallsReturn == ServicesSpec => []CallsKept
<1>1. ServicesInit => CallInv
  BY CallStarts DEF ServicesInit
<1>2. CallInv /\ [ServicesNext]_serviceVars => CallInv'
  BY CallKeeps, ServiceSteps
<1> QED
  BY <1>1, <1>2, CallRight, PTL DEF ServicesSpec

============================================================================
