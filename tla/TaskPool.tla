------------------------------ MODULE TaskPool ------------------------------
(***************************************************************************)
(* What a thread pool promises: a task that was submitted waits, is begun  *)
(* and ends; it is never dropped, never begun twice and never begun        *)
(* without having been submitted.                                          *)
(***************************************************************************)
EXTENDS Integers, FiniteSets

CONSTANT Tasks

VARIABLES pending, executing, ended

poolVars == <<pending, executing, ended>>

PoolInit == pending = {} /\ executing = {} /\ ended = {}

Submit(t) ==
    /\ t \notin pending \cup executing \cup ended
    /\ pending' = pending \cup {t}
    /\ UNCHANGED <<executing, ended>>

\* A task may submit another one as it begins.
Begin(t) ==
    /\ t \in pending
    /\ executing' = executing \cup {t}
    /\ \/ pending' = pending \ {t}
       \/ \E u \in Tasks \ (pending \cup executing \cup ended) :
             pending' = (pending \ {t}) \cup {u}
    /\ UNCHANGED ended

End(t) ==
    /\ t \in executing
    /\ executing' = executing \ {t}
    /\ ended' = ended \cup {t}
    /\ UNCHANGED pending

PoolNext == \E t \in Tasks : Submit(t) \/ Begin(t) \/ End(t)

PoolSpec == PoolInit /\ [][PoolNext]_poolVars
=============================================================================
