------------------------------ MODULE LuaCall -------------------------------
(***************************************************************************)
(* A Lua function bound to a C++ coroutine (function_coroutine_proxy of    *)
(* src/src/iris/iris_lua.h): the coroutine may be over before it ever      *)
(* suspends, and the call returns; or Lua yields and the completion        *)
(* handler resumes it.  A mark on the Lua stack tells the two apart.  The  *)
(* registry keeps the Lua thread from the collector meanwhile, under the   *)
(* address of the coroutine's frame.  Every step is on the main thread,    *)
(* whose C stack is modelled because a resumed Lua thread may call C++     *)
(* again inside the handler that resumed it.                               *)
(***************************************************************************)
EXTENDS Naturals, Sequences

CONSTANTS
    LuaThreads,  \* Lua threads
    Addresses,   \* addresses of coroutine frames; a freed one is used again
    LuaThreadCalls, \* bound: calls of each thread
    Builds       \* "yieldk": Lua 5.3; "legacy": LuaJIT; "ngx": LuaJIT with
                 \* ngx_lua_cpp_yield() and ngx_lua_cpp_resume()

VARIABLES
    build,
    cStack,    \* C stack of the main thread, a sequence of [k, of]
    frameOf,   \* address -> Lua thread its coroutine was called by, or NoOne
    anchor,    \* registry: address -> Lua thread, or NoOne
    luaStack,  \* the Lua stack of each thread
    lstatus,   \* each Lua thread: "new", "run", "yielded", "woken", "lost", "over"
    ccontext,   \* stack height lua_yieldk() was given, or `top' of the call
    calls,     \* calls made by each thread
    returned   \* returned[t]: values its last call returned (history)

callVars == <<build, cStack, frameOf, anchor, luaStack, lstatus, ccontext, calls, returned>>

NoOne == "none"
Argument == <<"argument">>
LightData(x) == <<"mark", x>>             \* a light userdata
ErrorMark(t) == LightData(<<"L + 1", t>>)
Result(t, kind) == <<kind, calls[t]>> \* what the coroutine of this call returns
Results == {"value", "nil", "error"} \* of a result, a void, a failed coroutine

ASSUME CallAssumption == NoOne \notin LuaThreads

CallInit ==
    /\ build \in Builds /\ cStack = <<>>
    /\ frameOf = [a \in Addresses |-> NoOne] /\ anchor = [a \in Addresses |-> NoOne]
    /\ luaStack = [t \in LuaThreads |-> <<>>] /\ lstatus = [t \in LuaThreads |-> "new"]
    /\ ccontext = [t \in LuaThreads |-> 0] /\ calls = [t \in LuaThreads |-> 0]
    /\ returned = [t \in LuaThreads |-> <<>>]

CTop == cStack[Len(cStack)]
At(k, x) == cStack # <<>> /\ CTop = [k |-> k, of |-> x]
CPop == SubSeq(cStack, 1, Len(cStack) - 1)
CPush(s, k, x) == Append(s, [k |-> k, of |-> x])
Drop(s, n) == SubSeq(s, 1, Len(s) - n)
Last(s, n) == SubSeq(s, Len(s) - n + 1, Len(s))

\* nginx starts a Lua thread, or goes on with one ngx_lua_cpp_resume() posted.
RunLua(t) ==
    /\ cStack = <<>> /\ lstatus[t] \in {"new", "woken"}
    /\ lstatus' = [lstatus EXCEPT ![t] = "run"] /\ cStack' = CPush(<<>>, "lua", t)
    /\ UNCHANGED <<build, frameOf, anchor, luaStack, ccontext, calls, returned>>

EndLua(t) ==
    /\ At("lua", t) /\ lstatus' = [lstatus EXCEPT ![t] = "over"] /\ cStack' = CPop
    /\ UNCHANGED <<build, frameOf, anchor, luaStack, ccontext, calls, returned>>

\* function_coroutine_invoke(): the frame is made, the thread anchored under
\* its address, the coroutine runs.  Its argument is on the stack.
Invoke(t, a) ==
    /\ At("lua", t) /\ calls[t] < LuaThreadCalls /\ frameOf[a] = NoOne
    /\ calls' = [calls EXCEPT ![t] = @ + 1]
    /\ frameOf' = [frameOf EXCEPT ![a] = t] /\ anchor' = [anchor EXCEPT ![a] = t]
    /\ luaStack' = [luaStack EXCEPT ![t] = <<Argument>>]
    /\ ccontext' = [ccontext EXCEPT ![t] = 1]
    /\ returned' = [returned EXCEPT ![t] = <<>>]
    /\ cStack' = CPush(cStack, "body", a)
    /\ UNCHANGED <<build, lstatus>>

\* The body suspends: run() returns to function_coroutine_invoke().
SuspendBody(a) ==
    /\ At("body", a) /\ cStack' = CPush(CPop, "check", a)
    /\ UNCHANGED <<build, frameOf, anchor, luaStack, lstatus, ccontext, calls, returned>>

\* Mutant: everything kept under the thread of the frame is let go.
CleanupThread(a) == [b \in Addresses |-> IF anchor[b] = frameOf[a] THEN NoOne ELSE anchor[b]]

\* coroutine_cleanup()
Cleanup(a) == [anchor EXCEPT ![a] = NoOne]

\* After the completion handler the frame destroys itself.
FreeFrame(a) == frameOf' = [frameOf EXCEPT ![a] = NoOne]

\* What the completion handler pushes: the result, then a mark.  A failed
\* coroutine pushes its message, and the thread's own mark.
Pushed(a, kind) ==
    LET t == frameOf[a] IN
    <<Result(t, kind), IF kind = "error" THEN ErrorMark(t) ELSE LightData(a)>>

\* A build without lua_yieldk() cannot raise the error: it is logged and
\* the Lua thread is never resumed.
HandlerTraps(a, kind, rest) ==
    /\ kind = "error" /\ build # "yieldk"
    /\ anchor' = Cleanup(a) /\ FreeFrame(a) /\ cStack' = rest
    /\ lstatus' = [lstatus EXCEPT ![frameOf[a]] = IF @ = "yielded" THEN "lost" ELSE @]
    /\ UNCHANGED <<build, luaStack, ccontext, calls, returned>>

\* coroutine_continuation() of a thread that has not yielded
HandlerEarly(a, kind, rest) ==
    LET t == frameOf[a] IN
    /\ kind = "error" => build = "yieldk"
    /\ lstatus[t] # "yielded"
    /\ luaStack' = [luaStack EXCEPT ![t] = @ \o Pushed(a, kind)]
    /\ anchor' = Cleanup(a) /\ FreeFrame(a) /\ cStack' = rest
    /\ UNCHANGED <<build, lstatus, ccontext, calls, returned>>

\* Mutant: the mark is handed to Lua with the result.
ResumeCountAll(kind) == 2

\* coroutine_continuation(): the mark is popped unless it tells an error
ResumeCount(kind) == IF kind = "error" THEN 2 ELSE 1

\* ... of a thread that has: lua_resume() runs Lua inside the handler
HandlerResumes(a, kind, rest) ==
    LET t == frameOf[a]
        s == luaStack[t] \o Pushed(a, kind)
        count == ResumeCount(kind)
        resumed == Drop(s, 2 - count) IN
    /\ kind = "error" => build = "yieldk"
    /\ build # "ngx" /\ lstatus[t] = "yielded"
    /\ lstatus' = [lstatus EXCEPT ![t] = "run"]
    \* function_coroutine_continuation(), or the values passed to resume
    /\ returned' = [returned EXCEPT ![t] =
         IF build = "yieldk"
         THEN LET n == IF resumed[Len(resumed)] = ErrorMark(t) THEN 1 ELSE 0
              IN SubSeq(resumed, ccontext[t] + 1, Len(resumed) - n)
         ELSE Last(resumed, count)]
    /\ luaStack' = [luaStack EXCEPT ![t] = <<>>]
    /\ cStack' = CPush(CPush(rest, "handler", a), "lua", t)
    /\ UNCHANGED <<build, frameOf, anchor, ccontext, calls>>

\* ... or ngx_lua_cpp_resume() keeps the values and posts the thread's event
HandlerPosts(a, kind, rest) ==
    LET t == frameOf[a] IN
    /\ kind # "error" /\ build = "ngx" /\ lstatus[t] = "yielded"
    /\ lstatus' = [lstatus EXCEPT ![t] = "woken"]
    /\ returned' = [returned EXCEPT ![t] = Last(Drop(Pushed(a, kind), 2 - ResumeCount(kind)),
                                                ResumeCount(kind))]
    /\ luaStack' = [luaStack EXCEPT ![t] = <<>>]
    /\ anchor' = Cleanup(a) /\ FreeFrame(a) /\ cStack' = rest
    /\ UNCHANGED <<build, ccontext, calls>>

Handler(a, kind, rest) ==
    \/ HandlerTraps(a, kind, rest) \/ HandlerEarly(a, kind, rest)
    \/ HandlerResumes(a, kind, rest) \/ HandlerPosts(a, kind, rest)

\* The coroutine is over before run() returns ...
CompleteEarly(a, kind) == At("body", a) /\ Handler(a, kind, CPush(CPop, "check", a))

\* ... or after a suspension, in a poll of main_warp.
CompleteLate(a, kind) ==
    /\ cStack = <<>> /\ frameOf[a] # NoOne /\ lstatus[frameOf[a]] = "yielded"
    /\ Handler(a, kind, <<>>)

\* The resumed thread has yielded again or is over: the handler ends.
HandlerEnds(a) ==
    /\ At("handler", a) /\ anchor' = Cleanup(a) /\ FreeFrame(a) /\ cStack' = CPop
    /\ UNCHANGED <<build, luaStack, lstatus, ccontext, calls, returned>>

\* "already completed?"
AlreadyCompleted(t, a) == luaStack[t][Len(luaStack[t])] = LightData(a)

\* run() has returned: the call returns, raises, or yields.  The Lua thread
\* is the one below on the C stack.
CheckMark(a) ==
    LET t == cStack[Len(cStack) - 1].of
        s == luaStack[t] IN
    /\ At("check", a)
    /\ \/ /\ AlreadyCompleted(t, a)
          /\ returned' = [returned EXCEPT ![t] = SubSeq(s, ccontext[t] + 1, Len(s) - 1)]
          /\ luaStack' = [luaStack EXCEPT ![t] = <<>>] /\ cStack' = CPop
          /\ UNCHANGED lstatus
       \/ /\ ~AlreadyCompleted(t, a) /\ s[Len(s)] = ErrorMark(t)
          /\ returned' = [returned EXCEPT ![t] = Last(Drop(s, 1), 1)]
          /\ luaStack' = [luaStack EXCEPT ![t] = <<>>] /\ cStack' = CPop
          /\ UNCHANGED lstatus
       \/ /\ ~AlreadyCompleted(t, a) /\ s[Len(s)] # ErrorMark(t)
          /\ lstatus' = [lstatus EXCEPT ![t] = IF frameOf[a] = t THEN "yielded" ELSE "lost"]
          /\ cStack' = SubSeq(cStack, 1, Len(cStack) - 2)
          /\ UNCHANGED <<luaStack, returned>>
    /\ UNCHANGED <<build, frameOf, anchor, ccontext, calls>>

CallNext ==
    \/ \E t \in LuaThreads : RunLua(t) \/ EndLua(t) \/ \E a \in Addresses : Invoke(t, a)
    \/ \E a \in Addresses : SuspendBody(a) \/ HandlerEnds(a) \/ CheckMark(a)
    \/ \E a \in Addresses, kind \in Results : CompleteEarly(a, kind) \/ CompleteLate(a, kind)

CallSpec == CallInit /\ [][CallNext]_callVars

(***************************************************************************)
(* A Lua thread that waits for its coroutine, also one it called inside    *)
(* the handler of an earlier one, is in the registry and cannot be         *)
(* collected; no entry outlives the coroutine it was made for.             *)
(***************************************************************************)
AnchoredWhilePending ==
    /\ \A t \in LuaThreads : lstatus[t] = "yielded" =>
           \E a \in Addresses : frameOf[a] = t /\ anchor[a] = t
    /\ \A a \in Addresses : anchor[a] \in {NoOne, frameOf[a]}

(***************************************************************************)
(* When Lua runs again after a call, the call has returned exactly what    *)
(* its own coroutine returned: one value, never a mark, nothing left over  *)
(* on the stack.                                                           *)
(***************************************************************************)
ReturnsOwnResult ==
    \A t \in LuaThreads :
        lstatus[t] \in {"run", "woken"} /\ calls[t] > 0 /\ luaStack[t] = <<>> =>
            \E kind \in Results : returned[t] = <<Result(t, kind)>>

(***************************************************************************)
(* A Lua thread that called a C++ coroutine cannot be collected until the  *)
(* coroutine is over, and then gets exactly its result, whether it ended   *)
(* inside the call or later.                                               *)
(***************************************************************************)
CallsKept == AnchoredWhilePending /\ ReturnsOwnResult

=============================================================================
