------------------------------ MODULE LuaYield ------------------------------
(***************************************************************************)
(* How ngx_hooker_t (src/src/ngx_lua_cpp.cpp) suspends and resumes the Lua *)
(* coroutine that called into C++: ngx_lua_cpp_yield() runs ngx.sleep(0),  *)
(* which leaves the coroutine's event in nginx's posted_delayed queue;     *)
(* process_events() digs that placeholder out; ngx_lua_cpp_resume() puts   *)
(* the event back when the C++ coroutine is over.  The queue is modelled   *)
(* with its pointers.  All of it runs on the main thread, in the phases of *)
(* nginx's loop.  HTTP and stream requests have the same code twice, the   *)
(* model has one.  nginx and ngx.sleep are external.                       *)
(***************************************************************************)
EXTENDS Naturals, Sequences

CONSTANTS
    LuaCos,     \* Lua coroutines, each with its co_ctx and sleep event
    LuaCalls,   \* bound: calls into C++ of each
    StopAtOnce  \* TRUE: a handler may call stop(), whose poll of main_warp
                \* completes coroutines outside process_events()

QHead == "head" \* ngx_posted_delayed_events

ASSUME YieldAssumption ==
    LuaCalls \in Nat /\ StopAtOnce \in BOOLEAN /\ QHead \notin LuaCos

QNodes == LuaCos \cup {QHead}

VARIABLES
    qNext, qPrev, \* next and prev of the queue's nodes
    posted,       \* nginx's ev->posted
    delayed,      \* nginx's ev->delayed: not to be run in this pass
    pendingCtxs,  \* pending_lua_http_co_ctxs
    phase,        \* "handlers", "dig", "poll", "posted": phases of a pass
    luaPc,        \* each Lua coroutine: "run", "yielded", "resumed", "error"
    cppOver,      \* coroutines whose C++ side is posted to main_warp
    registry,     \* returns kept in the registry; 0: none
    luaCalls      \* calls made

yieldVars == <<qNext, qPrev, posted, delayed, pendingCtxs, phase, luaPc, cppOver,
               registry, luaCalls>>

YieldInit ==
    /\ qNext = [x \in QNodes |-> x] /\ qPrev = [x \in QNodes |-> x]
    /\ posted = [c \in LuaCos |-> FALSE] /\ delayed = [c \in LuaCos |-> FALSE]
    /\ pendingCtxs = <<>> /\ phase = "handlers"
    /\ luaPc = [c \in LuaCos |-> "run"] /\ cppOver = {}
    /\ registry = [c \in LuaCos |-> 0] /\ luaCalls = [c \in LuaCos |-> 0]

\* ngx_queue_insert_tail() and ngx_queue_remove(): the stores in their order
QueueInsertTail(x) ==
    LET last == qPrev[QHead]
        prev1 == [qPrev EXCEPT ![x] = last] IN
    /\ qNext' = [[qNext EXCEPT ![last] = x] EXCEPT ![x] = QHead]
    /\ qPrev' = [prev1 EXCEPT ![QHead] = x]

Unlinked(next, prev, x) ==
    LET prev1 == [prev EXCEPT ![next[x]] = prev[x]] IN
    [next |-> [next EXCEPT ![prev1[x]] = next[x]], prev |-> prev1]

QueueRemove(x) ==
    LET q == Unlinked(qNext, qPrev, x) IN qNext' = q.next /\ qPrev' = q.prev

\* ngx.sleep(0): ngx_post_event() with delayed set; nothing if it is posted
NgxSleep(c) ==
    /\ IF posted[c] THEN UNCHANGED <<qNext, qPrev>> ELSE QueueInsertTail(c)
    /\ posted' = [posted EXCEPT ![c] = TRUE] /\ delayed' = [delayed EXCEPT ![c] = TRUE]

\* ngx_lua_cpp_yield(): the placeholder, and its co_ctx to dig it out.  The
\* first call also runs ngx.sleep(0) to find the event's offset; the second
\* sleep of that call finds it posted already.
LuaYield(c) ==
    /\ phase \in {"handlers", "posted"} /\ luaPc[c] = "run" /\ luaCalls[c] < LuaCalls
    /\ NgxSleep(c) /\ pendingCtxs' = Append(pendingCtxs, c)
    /\ luaPc' = [luaPc EXCEPT ![c] = "yielded"]
    /\ luaCalls' = [luaCalls EXCEPT ![c] = @ + 1]
    /\ UNCHANGED <<phase, cppOver, registry>>

\* The C++ coroutine is over and posted to main_warp.
CppEnds(c) ==
    /\ luaPc[c] = "yielded" /\ c \notin cppOver /\ cppOver' = cppOver \cup {c}
    /\ UNCHANGED <<qNext, qPrev, posted, delayed, pendingCtxs, phase, luaPc, registry, luaCalls>>

\* Mutant: the placeholders stay in the queue.
DigOutSkipped ==
    /\ phase = "dig" /\ pendingCtxs' = <<>> /\ phase' = "poll"
    /\ UNCHANGED <<qNext, qPrev, posted, delayed, luaPc, cppOver, registry, luaCalls>>

\* process_events(): the placeholders are dug out, one after the other.
DigOut ==
    /\ phase = "dig"
    /\ IF pendingCtxs = <<>> THEN phase' = "poll" /\ UNCHANGED <<qNext, qPrev, pendingCtxs>>
       ELSE /\ QueueRemove(Head(pendingCtxs)) /\ pendingCtxs' = Tail(pendingCtxs)
            /\ UNCHANGED phase
    /\ UNCHANGED <<posted, delayed, luaPc, cppOver, registry, luaCalls>>

\* Mutant: the event is put back, the returns are not kept.
CppResumeForgets(c) ==
    /\ phase = "poll" \/ (StopAtOnce /\ phase = "handlers")
    /\ c \in cppOver /\ cppOver' = cppOver \ {c}
    /\ QueueInsertTail(c) /\ luaPc' = [luaPc EXCEPT ![c] = "resumed"]
    /\ UNCHANGED <<posted, delayed, pendingCtxs, phase, registry, luaCalls>>

\* ... and main_warp is polled: ngx_lua_cpp_resume() with the returns
CppResume(c) ==
    /\ phase = "poll" \/ (StopAtOnce /\ phase = "handlers")
    /\ c \in cppOver /\ cppOver' = cppOver \ {c}
    /\ QueueInsertTail(c) /\ registry' = [registry EXCEPT ![c] = luaCalls[c]]
    /\ luaPc' = [luaPc EXCEPT ![c] = "resumed"]
    /\ UNCHANGED <<posted, delayed, pendingCtxs, phase, luaCalls>>

\* nginx runs the first event of the queue: the Lua coroutine goes on in
\* get_coroutine_returns(), an error if nothing was collected.
RunPosted ==
    LET c == qNext[QHead] IN
    /\ phase = "posted" /\ c # QHead /\ ~delayed[c]
    /\ QueueRemove(c) /\ posted' = [posted EXCEPT ![c] = FALSE]
    /\ luaPc' = [luaPc EXCEPT ![c] = IF registry[c] = 0 THEN "error" ELSE "run"]
    /\ registry' = [registry EXCEPT ![c] = 0]
    /\ UNCHANGED <<delayed, pendingCtxs, phase, cppOver, luaCalls>>

\* The phases: process_events(), other events' handlers, posted events until
\* the first one posted in this pass.
NextPhase ==
    \/ phase = "handlers" /\ phase' = "posted" /\ UNCHANGED delayed
    \/ phase = "poll" /\ phase' = "handlers" /\ UNCHANGED delayed
    \/ /\ phase = "posted" /\ (qNext[QHead] # QHead => delayed[qNext[QHead]])
       /\ phase' = "dig" /\ delayed' = [c \in LuaCos |-> FALSE]

Pass == NextPhase /\ UNCHANGED <<qNext, qPrev, posted, pendingCtxs, luaPc, cppOver,
                                 registry, luaCalls>>

YieldNext ==
    \/ DigOut \/ RunPosted \/ Pass
    \/ \E c \in LuaCos : LuaYield(c) \/ CppEnds(c) \/ CppResume(c)

\* The loop goes on, and a poll of main_warp leaves nothing posted in it.
YieldSpec ==
    /\ YieldInit /\ [][YieldNext]_yieldVars
    /\ WF_yieldVars(DigOut \/ RunPosted \/ Pass)
    /\ \A c \in LuaCos : WF_yieldVars(CppEnds(c)) /\ SF_yieldVars(CppResume(c))

(***************************************************************************)
(* nginx's queue stays a ring, whose nodes are the placeholders of this    *)
(* pass and the events of resumed coroutines, each once.                   *)
(***************************************************************************)
QueueWellFormed ==
    LET inQueue == {c \in LuaCos : \E i \in DOMAIN pendingCtxs : pendingCtxs[i] = c}
                   \cup {c \in LuaCos : luaPc[c] = "resumed"} IN
    /\ \A x \in inQueue \cup {QHead} : /\ qNext[qPrev[x]] = x /\ qPrev[qNext[x]] = x
                                       /\ {qNext[x], qPrev[x]} \subseteq inQueue \cup {QHead}
    /\ \A c \in LuaCos \ inQueue : \A x \in inQueue \cup {QHead} : qNext[x] # c

\* A Lua coroutine goes on only with what its C++ call returned, never
\* because nginx has run its placeholder.
ResumedByCpp == \A c \in LuaCos : luaPc[c] # "error" /\ registry[c] \in {0, luaCalls[c]}

(***************************************************************************)
(* Yield and resume through nginx's queue pair up: the queue of delayed    *)
(* events stays a ring of what belongs there, and a Lua coroutine goes on  *)
(* with the return of its own C++ call only.                               *)
(***************************************************************************)
YieldsPaired == QueueWellFormed /\ ResumedByCpp

\* A Lua coroutine that yielded runs again.
LuaGoesOn == \A c \in LuaCos : luaPc[c] = "yielded" ~> luaPc[c] = "run"

=============================================================================
