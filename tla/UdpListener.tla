---------------------------- MODULE UdpListener ----------------------------
(***************************************************************************)
(* The UDP listeners of ngx_lua_cpp_t (src/src/ngx_lua_cpp.cpp), one port. *)
(* The main thread runs udp_listen(), udp_recv() with timeout 0, stop()    *)
(* and, between them, the coroutines posted to main_warp.  Each listener   *)
(* has a thread that receives into a bounded queue.  udp_recv() with a     *)
(* timeout and udp_reply() are coroutines: pool, then back to main_warp.   *)
(* A step is a critical section, or one access outside of them.  The pool  *)
(* is taken to have a thread for every task (AsyncWorker models it), and a *)
(* datagram is known by its number, which is also its sender's.            *)
(***************************************************************************)
EXTENDS Naturals, Sequences, FiniteSets

CONSTANTS
    Receivers,    \* calls of udp_recv() with a timeout
    Repliers,     \* calls of udp_reply()
    Listens,      \* bound: listeners made
    Polls,        \* bound: calls of udp_recv() with timeout 0
    Datagrams,    \* bound: datagrams that arrive
    QueueBound,   \* 4096 in the code
    CalmListeners \* TRUE: main takes listeners_mutex only after the look-ups
                  \* of the running coroutines are over

ASSUME UdpAssumption ==
    /\ {Listens, Polls, Datagrams} \subseteq Nat
    /\ QueueBound \in Nat \ {0} /\ CalmListeners \in BOOLEAN

Requests == Receivers \cup Repliers
Listeners == 1..Listens
NoListener == 0

VARIABLES
    listenersMutex, \* "free", "main" or the coroutine that holds it
    udpMain,        \* where the main thread is
    udpRunning,     \* is_running()
    mapped,         \* the listener in udp_listeners, or NoListener
    made,           \* listeners made
    listener,       \* per listener: stop, sock open, queue, sender, thread
    udpPc,          \* where each coroutine is
    udpRef,         \* the coroutine's shared_ptr, or NoListener
    replyTo,        \* sender a reply goes to; 0 before
    arrived,        \* datagrams received so far
    polls,          \* polls made
    taken           \* datagrams given to a caller, in this order

udpVars == <<listenersMutex, udpMain, udpRunning, mapped, made, listener, udpPc,
             udpRef, replyTo, arrived, polls, taken>>

UdpInit ==
    /\ listenersMutex = "free" /\ udpMain = "idle" /\ udpRunning = TRUE
    /\ mapped = NoListener /\ made = 0
    /\ listener = [g \in Listeners |-> [stop |-> FALSE, open |-> FALSE, queue |-> <<>>,
                                        sender |-> 0, thread |-> "none", got |-> 0]]
    /\ udpPc = [r \in Requests |-> "none"]
    /\ udpRef = [r \in Requests |-> NoListener] /\ replyTo = [r \in Requests |-> 0]
    /\ arrived = 0 /\ polls = 0 /\ taken = <<>>

UdpGoto(r, l) == udpPc' = [udpPc EXCEPT ![r] = l]
Thread(g, l) == listener' = [listener EXCEPT ![g].thread = l]
\* A waiter holds the listener's mutex between its predicate and its sleep.
Locked(g) == \E r \in Requests : udpRef[r] = g /\ udpPc[r] = "checked"
Take(g) ==
    /\ taken' = Append(taken, Head(listener[g].queue))
    /\ listener' = [listener EXCEPT ![g].queue = Tail(@)]
requestVars == <<udpPc, udpRef, replyTo>>
mainVars == <<udpMain, udpRunning, mapped, made, polls>>

(***************************************************************************)
(* The main thread.                                                        *)
(***************************************************************************)
LookupsOver == listenersMutex \notin Requests /\ \A r \in Requests : udpPc[r] # "pool"

\* A Lua handler calls one of the functions that lock listeners_mutex.
UdpCall(f) ==
    /\ udpMain = "idle" /\ (CalmListeners => LookupsOver)
    /\ f = "udp_listen" => made < Listens
    /\ f = "udp_poll" => polls < Polls
    /\ f = "stop" => udpRunning
    /\ udpMain' = f
    /\ UNCHANGED <<listenersMutex, udpRunning, mapped, made, listener, requestVars,
                   arrived, polls, taken>>

\* udp_listen(): already listening, or bind() fails, or a new listener with
\* its thread
UdpListen ==
    /\ udpMain = "udp_listen" /\ listenersMutex = "free" /\ udpMain' = "idle"
    /\ \/ UNCHANGED <<mapped, made, listener>>
       \/ /\ mapped = NoListener /\ \A g \in Listeners : ~listener[g].open
          /\ made' = made + 1 /\ mapped' = made + 1
          /\ listener' = [listener EXCEPT ![made + 1].open = TRUE,
                                          ![made + 1].thread = "check"]
    /\ UNCHANGED <<listenersMutex, udpRunning, requestVars, arrived, polls, taken>>

\* Mutant: the datagram is copied out and stays in the queue.
UdpPollKeeps ==
    /\ udpMain = "udp_poll" /\ listenersMutex = "free" /\ udpMain' = "idle"
    /\ polls' = polls + 1
    /\ IF mapped # NoListener /\ listener[mapped].queue # <<>>
         THEN ~Locked(mapped) /\ taken' = Append(taken, Head(listener[mapped].queue))
         ELSE (mapped # NoListener => ~Locked(mapped)) /\ UNCHANGED taken
    /\ UNCHANGED <<listenersMutex, udpRunning, mapped, made, listener, requestVars, arrived>>

\* udp_recv() with timeout 0; only main changes udp_listeners, so its two
\* critical sections are one step.
UdpPoll ==
    /\ udpMain = "udp_poll" /\ listenersMutex = "free" /\ udpMain' = "idle"
    /\ polls' = polls + 1
    /\ mapped # NoListener => ~Locked(mapped)
    /\ IF mapped # NoListener /\ listener[mapped].queue # <<>>
         THEN Take(mapped) ELSE UNCHANGED <<listener, taken>>
    /\ UNCHANGED <<listenersMutex, udpRunning, mapped, made, requestVars, arrived>>

\* A Lua handler starts a coroutine, whose first step is to leave for the pool.
UdpStart(r) ==
    /\ udpMain = "idle" /\ udpRunning /\ udpPc[r] = "none" /\ UdpGoto(r, "pool")
    /\ UNCHANGED <<listenersMutex, mainVars, listener, udpRef, replyTo, arrived, taken>>

\* process_events(), or stop_impl()'s own poll: a coroutine goes on in
\* main_warp and ends; a lock it still holds is released by its end.
UdpReturn(r) ==
    /\ udpPc[r] = "return" /\ udpMain \in {"idle", "drain"}
    /\ UdpGoto(r, "end") /\ udpRef' = [udpRef EXCEPT ![r] = NoListener]
    /\ listenersMutex' = IF listenersMutex = r THEN "free" ELSE listenersMutex
    /\ UNCHANGED <<mainVars, listener, replyTo, arrived, taken>>

\* stop_impl(): the lock is kept until all listener threads are joined.
StopLock ==
    /\ udpMain = "stop" /\ listenersMutex = "free"
    /\ listenersMutex' = "main" /\ udpMain' = "stop_listen"
    /\ UNCHANGED <<udpRunning, mapped, made, listener, requestVars, arrived, polls, taken>>

\* stop_listen(): stop.exchange(true)
StopFlag ==
    /\ udpMain = "stop_listen" /\ mapped # NoListener
    /\ listener' = [listener EXCEPT ![mapped].stop = TRUE]
    /\ udpMain' = "close"
    /\ UNCHANGED <<listenersMutex, udpRunning, mapped, made, requestVars, arrived,
                   polls, taken>>

\* ... the socket is closed, and notify_all() called without the mutex
StopClose ==
    /\ udpMain = "close" /\ udpMain' = "join"
    /\ listener' = [listener EXCEPT ![mapped].open = FALSE]
    /\ udpPc' = [r \in Requests |->
                   IF udpPc[r] = "asleep" /\ udpRef[r] = mapped THEN "task" ELSE udpPc[r]]
    /\ UNCHANGED <<listenersMutex, udpRunning, mapped, made, udpRef, replyTo, arrived,
                   polls, taken>>

\* Mutant: the thread is not joined.
StopJoinSkipped ==
    /\ \/ udpMain = "stop_listen" /\ mapped = NoListener
       \/ udpMain = "join"
    /\ mapped' = NoListener /\ listenersMutex' = "free" /\ udpMain' = "pool"
    /\ UNCHANGED <<udpRunning, made, listener, requestVars, arrived, polls, taken>>

\* ... thread.join(), udp_listeners.clear() and the end of the lock
StopJoin ==
    /\ \/ udpMain = "stop_listen" /\ mapped = NoListener
       \/ udpMain = "join" /\ listener[mapped].thread = "end"
    /\ mapped' = NoListener /\ listenersMutex' = "free" /\ udpMain' = "pool"
    /\ UNCHANGED <<udpRunning, made, listener, requestVars, arrived, polls, taken>>

\* terminate() and join(): every task of the pool is over
StopPool ==
    /\ udpMain = "pool" /\ \A r \in Requests : udpPc[r] \in {"none", "return", "end"}
    /\ udpRunning' = FALSE /\ udpMain' = "drain"
    /\ UNCHANGED <<listenersMutex, mapped, made, listener, requestVars, arrived, polls, taken>>

\* main_warp is polled until it is empty
StopDrained ==
    /\ udpMain = "drain" /\ udpMain' = "idle" /\ \A r \in Requests : udpPc[r] # "return"
    /\ UNCHANGED <<listenersMutex, udpRunning, mapped, made, listener, requestVars,
                   arrived, polls, taken>>

\* start()
UdpRestart ==
    /\ udpMain = "idle" /\ ~udpRunning /\ udpRunning' = TRUE
    /\ UNCHANGED <<listenersMutex, udpMain, mapped, made, listener, requestVars, arrived,
                   polls, taken>>

UdpMainStep ==
    \/ UdpListen \/ UdpPoll \/ StopLock \/ StopFlag \/ StopClose \/ StopJoin
    \/ StopPool \/ StopDrained \/ \E r \in Requests : UdpReturn(r)

(***************************************************************************)
(* A listener's thread: run().                                             *)
(***************************************************************************)
\* Mutant: the flag is read once, before the loop.
ThreadCheckOnce(g) ==
    /\ listener[g].thread = "check" /\ Thread(g, "recv")
    /\ UNCHANGED <<listenersMutex, mainVars, requestVars, arrived, taken>>

\* the loop's condition
ThreadCheck(g) ==
    /\ listener[g].thread = "check"
    /\ Thread(g, IF listener[g].stop THEN "end" ELSE "recv")
    /\ UNCHANGED <<listenersMutex, mainVars, requestVars, arrived, taken>>

\* recvfrom(): a datagram
ThreadRecv(g) ==
    /\ listener[g].thread = "recv" /\ listener[g].open /\ arrived < Datagrams
    /\ arrived' = arrived + 1
    /\ listener' = [listener EXCEPT ![g].thread = "push", ![g].got = arrived + 1]
    /\ UNCHANGED <<listenersMutex, mainVars, requestVars, taken>>

\* ... or 500 ms without one, an error, a closed socket
ThreadTimeout(g) ==
    /\ listener[g].thread = "recv" /\ Thread(g, "check")
    /\ UNCHANGED <<listenersMutex, mainVars, requestVars, arrived, taken>>

\* ... queue.emplace_back(), pop_front() above the bound, the sender
ThreadPush(g) ==
    /\ listener[g].thread = "push" /\ ~Locked(g)
    /\ LET q == Append(listener[g].queue, listener[g].got) IN
         listener' = [listener EXCEPT
           ![g].queue = IF Len(q) > QueueBound THEN Tail(q) ELSE q,
           ![g].sender = listener[g].got, ![g].got = 0, ![g].thread = "notify"]
    /\ UNCHANGED <<listenersMutex, mainVars, requestVars, arrived, taken>>

\* ... notify_one()
ThreadNotify(g) ==
    /\ listener[g].thread = "notify" /\ Thread(g, "check")
    /\ LET asleep == {r \in Requests : udpPc[r] = "asleep" /\ udpRef[r] = g} IN
         IF asleep = {} THEN UNCHANGED udpPc ELSE \E r \in asleep : UdpGoto(r, "task")
    /\ UNCHANGED <<listenersMutex, mainVars, udpRef, replyTo, arrived, taken>>

ThreadStep(g) ==
    \/ ThreadCheck(g) \/ ThreadRecv(g) \/ ThreadTimeout(g) \/ ThreadPush(g) \/ ThreadNotify(g)

(***************************************************************************)
(* A coroutine on a pool thread.                                           *)
(***************************************************************************)
\* The look-up.  "not listening": the lock_guard is alive across the
\* co_await iris_switch(main) that follows.
UdpFind(r) ==
    /\ udpPc[r] = "pool" /\ listenersMutex = "free"
    /\ IF mapped = NoListener
         THEN listenersMutex' = r /\ UdpGoto(r, "return") /\ UNCHANGED udpRef
         ELSE /\ udpRef' = [udpRef EXCEPT ![r] = mapped] /\ UdpGoto(r, "task")
              /\ UNCHANGED listenersMutex
    /\ UNCHANGED <<mainVars, listener, replyTo, arrived, taken>>

\* udp_recv()'s task, first run or woken: take, give up, or wait
RecvTask(r) ==
    /\ r \in Receivers /\ udpPc[r] = "task" /\ ~Locked(udpRef[r])
    /\ IF listener[udpRef[r]].queue # <<>> THEN Take(udpRef[r]) /\ UdpGoto(r, "return")
       ELSE /\ UdpGoto(r, IF listener[udpRef[r]].stop THEN "return" ELSE "checked")
            /\ UNCHANGED <<listener, taken>>
    /\ UNCHANGED <<listenersMutex, mainVars, udpRef, replyTo, arrived>>

\* wait_for() releases the mutex and sleeps: a notify_all() since the
\* predicate was evaluated is missed.
RecvSleep(r) ==
    /\ udpPc[r] = "checked" /\ UdpGoto(r, "asleep")
    /\ UNCHANGED <<listenersMutex, mainVars, listener, udpRef, replyTo, arrived, taken>>

\* The timeout: the queue is looked at once more.
RecvTimeout(r) ==
    /\ udpPc[r] = "asleep" /\ ~Locked(udpRef[r]) /\ UdpGoto(r, "return")
    /\ IF listener[udpRef[r]].queue # <<>> THEN Take(udpRef[r])
                                           ELSE UNCHANGED <<listener, taken>>
    /\ UNCHANGED <<listenersMutex, mainVars, udpRef, replyTo, arrived>>

\* udp_reply()'s task: no sender yet, or the last one is copied
ReplyTask(r) ==
    /\ r \in Repliers /\ udpPc[r] = "task" /\ ~Locked(udpRef[r])
    /\ IF listener[udpRef[r]].sender = 0
         THEN UdpGoto(r, "return") /\ UNCHANGED replyTo
         ELSE /\ replyTo' = [replyTo EXCEPT ![r] = listener[udpRef[r]].sender]
              /\ UdpGoto(r, "send")
    /\ UNCHANGED <<listenersMutex, mainVars, listener, udpRef, arrived, taken>>

\* ... sendto(), which fails on a socket closed meanwhile
ReplySend(r) ==
    /\ udpPc[r] = "send" /\ UdpGoto(r, "return")
    /\ UNCHANGED <<listenersMutex, mainVars, listener, udpRef, replyTo, arrived, taken>>

RequestStep(r) ==
    \/ UdpFind(r) \/ RecvTask(r) \/ RecvSleep(r) \/ RecvTimeout(r)
    \/ ReplyTask(r) \/ ReplySend(r)

UdpNext ==
    \/ \E f \in {"udp_listen", "udp_poll", "stop"} : UdpCall(f)
    \/ UdpRestart \/ \E r \in Requests : UdpStart(r)
    \/ UdpMainStep \/ \E g \in Listeners : ThreadStep(g)
    \/ \E r \in Requests : RequestStep(r)

\* Every thread in the middle of a call goes on; recvfrom() and wait_for()
\* have a timeout.  Between two handlers, however many there are, nginx's
\* loop runs process_events(), which polls main_warp: hence SF.
UdpFairness ==
    /\ \A r \in Requests : SF_udpVars(UdpReturn(r))
    /\ WF_udpVars(UdpMainStep) /\ \A g \in Listeners : WF_udpVars(ThreadStep(g))
    /\ \A r \in Requests : WF_udpVars(RequestStep(r))

UdpSpec == UdpInit /\ [][UdpNext]_udpVars /\ UdpFairness

(***************************************************************************)
(* A datagram is given to at most one caller and in the order of arrival,  *)
(* over blocking receivers, polls, timeouts and restarts; one that is      *)
(* missing made room for QueueBound later ones, or its listener is gone.   *)
(***************************************************************************)
DatagramOnce ==
    LET Waiting(g) == listener[g].queue
        In(s, d) == \E i \in DOMAIN s : s[i] = d IN
    /\ \A i, j \in DOMAIN taken : i < j => taken[i] < taken[j]
    /\ \A g \in Listeners : /\ Len(Waiting(g)) <= QueueBound
                            /\ \A i, j \in DOMAIN Waiting(g) : i < j => Waiting(g)[i] < Waiting(g)[j]
    /\ \A d \in 1..arrived :
         \/ In(taken, d) /\ \A g \in Listeners : ~In(Waiting(g), d)
         \/ ~In(taken, d) /\ \/ \E g \in Listeners : In(Waiting(g), d) \/ listener[g].got = d
                             \/ Cardinality({e \in 1..arrived : e > d}) >= QueueBound

\* One thread and one socket at most, those of the listener on record: after
\* stop() nothing of it is left and the port can be listened to again.
OneListener ==
    \A g \in Listeners : g # mapped => listener[g].thread \in {"none", "end"} /\ ~listener[g].open

(***************************************************************************)
(* A port has one thread and one socket at a time, and its datagrams are   *)
(* handed out once and in order over receivers, polls, time-outs and       *)
(* restarts of the listener.                                               *)
(***************************************************************************)
ListenerSound == DatagramOnce /\ OneListener

(***************************************************************************)
(* "the nginx worker is never blocked": the main thread does not wait for  *)
(* a lock, nor for a pool thread that waits for a lock, which only a       *)
(* coroutine that needs the main thread to go on can release.              *)
(***************************************************************************)
NginxNeverBlocked ==
    listenersMutex \in Requests =>
      /\ udpMain \notin {"udp_listen", "udp_poll", "stop"}
      /\ udpMain = "pool" => \A r \in Requests : udpPc[r] # "pool"

\* Every udp_recv() and udp_reply() returns, stop() does too.
UdpReturns ==
    /\ \A r \in Requests : udpPc[r] = "pool" ~> udpPc[r] = "end"
    /\ udpMain = "stop" ~> udpMain = "idle"

=============================================================================
