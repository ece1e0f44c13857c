--------------------------- MODULE MCAsyncWorker ---------------------------
(* Three tasks: the owner queues t1 and t2, t1 queues t3 while it executes.   *)
EXTENDS AsyncWorker

CONSTANTS t1, t2, t3

MCTasks == {t1, t2, t3}
MCRoots == {t1, t2}
MCChild == [t \in MCTasks |-> IF t = t1 THEN t3 ELSE None]

\* t3, or every task, asks for a priority beyond the last one, which queue_task()
\* clamps.
MCPrio == [t \in MCTasks |-> IF t = t3 THEN 9 ELSE 0]
MCBeyond == [t \in MCTasks |-> 9]

MCNone == {}
\* t2's callback may block forever.
MCBlocking == {t2}
=============================================================================
