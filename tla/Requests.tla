------------------------------ MODULE Requests ------------------------------
(***************************************************************************)
(* The calls of src/src/ngx_lua_cpp.cpp that leave the process (Sockets)   *)
(* or fan out over the pool (FanIn), and what both promise to the request  *)
(* that made them.                                                         *)
(***************************************************************************)
EXTENDS Sockets, FanIn

(***************************************************************************)
(* The requests that leave the process or fan out over the pool: every     *)
(* path returns each system resource, a body stops at its limit, each URL  *)
(* gets its own result and each row of the image its own place.            *)
(***************************************************************************)
RequestsWhole == NothingLeaks /\ BodyBounded /\ EntriesInPlace /\ ImageComplete
=============================================================================
