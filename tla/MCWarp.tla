------------------------------- MODULE MCWarp -------------------------------
(* The scripts of the runs: which thread makes which calls on the warp.       *)
EXTENDS Warp

CONSTANTS r1, r2, r3, r4, r5

MCRoutines == {r1, r2, r3, r4, r5}
Do(kind, r) == [kind |-> kind, routine |-> r]
Barrier == Do("barrier", None)

MCNoExternal == {}
MCExternal == {3}
MCChild == [r \in MCRoutines |-> IF r = r2 THEN r4 ELSE None]
MCNoChild == [r \in MCRoutines |-> None]

\* Posting, direct execution with a nested post, and a post from outside the pool;
\* and one thread's barrier against the posts of another, the last one nested.
MCOrder == {<<<<Do("post", r1)>>, <<Do("routine", r2)>>, <<Do("post", r3)>>>>,
            <<<<Barrier, Do("post", r3), Do("post", r5)>>,
              <<Do("post", r1), Do("post", r2)>>, << >>>>}
\* Parallel routines, queued and awaited, against a posted and a direct one.
MCParallel == {<<<<Do("routine", r1), Do("parallel", r3)>>,
                 <<Do("post", r2), Do("parallel_post", r4), Do("await", r5)>>>>}
\* One posted routine against one parallel routine.
MCLost == {<<<<Do("post", r1)>>, <<Do("parallel_post", r4)>>>>}
=============================================================================
