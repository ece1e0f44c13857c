------------------------------ MODULE Sockets -------------------------------
(***************************************************************************)
(* The blocking calls of src/src/ngx_lua_cpp.cpp on sockets:               *)
(* udp_sendto_impl(), udp_roundtrip_impl() and the WinHTTP http_get().     *)
(* Every call of the system may fail, and each failure returns on a path   *)
(* of its own.  The system's calls are external: what they return is any   *)
(* of their outcomes.  Modelled for Windows, whose code has the most to    *)
(* give back.                                                              *)
(***************************************************************************)
EXTENDS Naturals, Sequences

CONSTANTS
    MaxBody,   \* http_get(): bytes kept of a body
    Arrivals   \* bytes that WinHTTP may announce at once

ASSUME SocketAssumption == MaxBody \in Nat \ {0} /\ Arrivals \subseteq Nat \ {0}

VARIABLES
    op,       \* "none", "send", "roundtrip", "http"
    at,       \* next call of the system
    held,     \* resources acquired and not given back, the last one last
    misuse,   \* something was given back that was not the last one
    body,     \* bytes of the body
    want,     \* bytes asked for
    outcome   \* "", "ok", "timeout" or the call that failed

socketVars == <<op, at, held, misuse, body, want, outcome>>

SocketInit ==
    /\ op = "none" /\ at = "begin" /\ held = <<>> /\ misuse = FALSE /\ body = 0 /\ want = 0 /\ outcome = ""

\* A request calls one of the three.
SocketCall ==
    /\ op = "none" /\ op' \in {"send", "roundtrip", "http"}
    /\ UNCHANGED <<at, held, misuse, body, want, outcome>>

\* A call of the system that acquires r if it succeeds.
Acquire(r, next) == held' = Append(held, r) /\ at' = next /\ UNCHANGED <<op, misuse, body, want, outcome>>

\* r is given back and the call goes on at `next'.
GiveBack(r, next) ==
    /\ held' = IF held # <<>> /\ held[Len(held)] = r THEN SubSeq(held, 1, Len(held) - 1) ELSE held
    /\ misuse' = (misuse \/ held = <<>> \/ held[Len(held)] # r)
    /\ at' = next

Fail(what, next) == outcome' = what /\ at' = next /\ UNCHANGED <<op, held, misuse, body, want>>

\* invalid host or port, WSAStartup(), getaddrinfo(), socket()
BeginUdp ==
    /\ op \in {"send", "roundtrip"}
    /\ \/ at = "begin" /\ (Fail("arguments", "return") \/ Fail("WSAStartup", "return")
                           \/ Acquire("wsa", "resolve"))
       \/ at = "resolve" /\ (Fail("getaddrinfo", "cleanup") \/ Acquire("addrinfo", "socket"))
       \/ at = "socket" /\ (Fail("socket", "freeaddrinfo") \/ Acquire("socket", "sendto"))

\* sendto(): udp_sendto_impl() gives everything back before it looks at the
\* result, udp_roundtrip_impl() on a path of its own
SendTo ==
    /\ at = "sendto"
    /\ \/ Fail("sendto", "close")
       \/ op = "send" /\ Fail("ok", "close")
       \/ op = "roundtrip" /\ Fail("", "recvfrom")

\* recvfrom() with a timeout
RecvFrom == at = "recvfrom" /\ (Fail("ok", "close") \/ Fail("timeout", "close"))

\* Mutant: a failure after socket() closes the socket and returns.
ReleaseUdpSome ==
    /\ \/ at = "close" /\ GiveBack("socket", IF outcome = "sendto" THEN "return" ELSE "freeaddrinfo")
       \/ at = "freeaddrinfo" /\ GiveBack("addrinfo", "cleanup")
       \/ at = "cleanup" /\ GiveBack("wsa", "return")
    /\ UNCHANGED <<op, body, want, outcome>>

\* udp_close_socket(), freeaddrinfo(), WSACleanup()
ReleaseUdp ==
    /\ \/ at = "close" /\ GiveBack("socket", "freeaddrinfo")
       \/ at = "freeaddrinfo" /\ GiveBack("addrinfo", "cleanup")
       \/ at = "cleanup" /\ GiveBack("wsa", "return")
    /\ UNCHANGED <<op, body, want, outcome>>

\* WinHttpOpen(), WinHttpConnect(), WinHttpOpenRequest(), WinHttpSendRequest()
BeginHttp ==
    /\ op = "http"
    /\ \/ at = "begin" /\ (Fail("open", "return") \/ Acquire("session", "connect"))
       \/ at = "connect" /\ (Fail("connect", "closeSession") \/ Acquire("connection", "request"))
       \/ at = "request" /\ (Fail("request", "closeConnection") \/ Acquire("request", "send"))
       \/ at = "send" /\ (Fail("send", "closeRequest") \/ Fail("", "available"))

\* Mutant: what is announced is asked for, whatever room is left.
WantedAll(available) == available

\* min(available, max_bytes - body.size())
Wanted(available) == IF available < MaxBody - body THEN available ELSE MaxBody - body

\* WinHttpQueryDataAvailable(): an error, the end, or some bytes
Available ==
    /\ at = "available"
    /\ \/ Fail("ok", "closeRequest")
       \/ \E n \in Arrivals :
            /\ want' = Wanted(n) /\ at' = IF Wanted(n) = 0 THEN "closeRequest" ELSE "read"
            /\ outcome' = IF Wanted(n) = 0 THEN "ok" ELSE outcome
            /\ UNCHANGED <<op, held, misuse, body>>

\* WinHttpReadData(): an error or nothing, or up to `want' bytes
ReadData ==
    /\ at = "read"
    /\ \/ Fail("ok", "closeRequest")
       \/ \E n \in 1 .. want :
            /\ body' = body + n
            /\ IF body + n >= MaxBody THEN at' = "closeRequest" /\ outcome' = "ok"
               ELSE at' = "available" /\ UNCHANGED outcome
            /\ UNCHANGED <<op, held, misuse, want>>

\* WinHttpCloseHandle() of what was opened, the request first
ReleaseHttp ==
    /\ \/ at = "closeRequest" /\ GiveBack("request", "closeConnection")
       \/ at = "closeConnection" /\ GiveBack("connection", "closeSession")
       \/ at = "closeSession" /\ GiveBack("session", "return")
    /\ UNCHANGED <<op, body, want, outcome>>

SocketNext ==
    \/ SocketCall \/ BeginUdp \/ SendTo \/ RecvFrom \/ ReleaseUdp
    \/ BeginHttp \/ Available \/ ReadData \/ ReleaseHttp

SocketSpec == SocketInit /\ [][SocketNext]_socketVars

(***************************************************************************)
(* Whichever call of the system fails, what was acquired before it has     *)
(* been given back when the call returns, once and in the opposite order,  *)
(* and the result says what happened.                                      *)
(***************************************************************************)
NothingLeaks == ~misuse /\ (at = "return" => held = <<>> /\ outcome # "")

\* http_get() never asks for more than it has room for, however much the
\* server sends and in whatever pieces.
BodyBounded == body + (IF at = "read" THEN want ELSE 0) <= MaxBody

=============================================================================
