------------------------------ MODULE JobQueue ------------------------------
(***************************************************************************)
(* The job queue of src/src/ngx_lua_cpp.cpp: job_submit() on the main      *)
(* thread starts run_job(), a coroutine that works on the pool, hops to    *)
(* main_warp to report every step on the event bus, and back.  A job is    *)
(* known by its number; `jobs' is a std::map, ordered by the strings       *)
(* "J%05zu" makes of the numbers.  is_running() holds throughout: what     *)
(* stop() does to a coroutine is in Lifecycle.                             *)
(***************************************************************************)
EXTENDS EventBus

CONSTANTS
    FirstJob,   \* job_counter when the model starts; its jobs are over
    Submits,    \* bound: jobs submitted
    JobSteps,   \* steps (chunks) of each submitted job; 0: an unknown kind
    JobsBound,  \* 200 in the code
    IdWidth     \* 5, of "J%05zu"

ASSUME JobAssumption ==
    /\ {FirstJob, Submits} \subseteq Nat /\ JobsBound \in Nat \ {0} /\ IdWidth \in Nat \ {0}
    /\ JobSteps \in [1..Submits -> Nat] /\ "jobs" \in Topics

VARIABLES
    jobCounter, \* job_counter
    jobs,       \* the numbers in the map
    jobPc,      \* where run_job() of a job is
    jobStatus,  \* status
    jobProgress \* progress, in steps

jobVars == <<jobCounter, jobs, jobPc, jobStatus, jobProgress>>

Numbers == (FirstJob + 1)..(FirstJob + Submits)

\* The last JobsBound numbers up to n.
LastOnes(n) == {n - i : i \in {k \in 0..(JobsBound - 1) : k < n}}

JobInit ==
    /\ BusInit /\ jobCounter = FirstJob
    /\ jobs = LastOnes(FirstJob)
    /\ jobPc = [n \in Numbers |-> "none"]
    /\ jobStatus = [n \in Numbers |-> "none"] /\ jobProgress = [n \in Numbers |-> 0]

\* The string of a number: at least IdWidth digits, more if it needs them.
IdLength(n) == CHOOSE k \in 1..9 : 10^k > n /\ k >= IdWidth
                                   /\ (k = IdWidth \/ n >= 10^(k - 1))
IdDigit(n, i) == (n \div 10^(IdLength(n) - i)) % 10
\* std::string's order
IdLess(a, b) ==
    \E k \in 1..IdLength(b) :
      /\ \A i \in 1..(k - 1) : i <= IdLength(a) /\ IdDigit(a, i) = IdDigit(b, i)
      /\ k > IdLength(a) \/ IdDigit(a, k) < IdDigit(b, k)
\* jobs.begin()
First(set) == CHOOSE n \in set : \A m \in set \ {n} : IdLess(n, m)
\* The loop that erases; one job is added at a time, so it runs at most once.
Bounded(set) == IF Cardinality(set) > JobsBound THEN set \ {First(set)} ELSE set

Steps(n) == JobSteps[n - FirstJob]
JobGoto(n, l) == jobPc' = [jobPc EXCEPT ![n] = l]
Report(n, status, progress) == Pub("jobs", <<n, status, progress>>)

\* Mutant: a full map gives up the last job.
JobSubmitDropsLast ==
    LET n == jobCounter + 1
        set == jobs \cup {n} IN
    /\ n \in Numbers /\ jobCounter' = n
    /\ jobs' = IF Cardinality(set) > JobsBound
                 THEN set \ {CHOOSE m \in set : \A k \in set \ {m} : IdLess(k, m)} ELSE set
    /\ jobStatus' = [jobStatus EXCEPT ![n] = "queued"] /\ JobGoto(n, "pool")
    /\ UNCHANGED <<jobProgress, busVars>>

\* job_submit(): record it, bound the map, start run_job() on the pool
JobSubmit ==
    LET n == jobCounter + 1 IN
    /\ n \in Numbers /\ jobCounter' = n
    /\ jobs' = Bounded(jobs \cup {n})
    /\ jobStatus' = [jobStatus EXCEPT ![n] = "queued"] /\ JobGoto(n, "pool")
    /\ UNCHANGED <<jobProgress, busVars>>

\* run_job() on a pool thread: status, then (the lock released) the event
JobRunning(n) ==
    /\ jobPc[n] = "pool" /\ JobGoto(n, "report")
    /\ jobStatus' = [jobStatus EXCEPT ![n] = "running"]
    /\ UNCHANGED <<jobCounter, jobs, jobProgress, busVars>>

JobReportRunning(n) ==
    /\ jobPc[n] = "report" /\ Report(n, "running", 0)
    /\ JobGoto(n, IF Steps(n) = 0 THEN "finish" ELSE "step")
    /\ UNCHANGED <<jobCounter, jobs, jobStatus, jobProgress>>

\* Mutant: the event is published from the pool, before progress is recorded.
JobComputeReports(n) ==
    /\ jobPc[n] = "step" /\ JobGoto(n, "main")
    /\ Report(n, "running", jobProgress[n] + 1)
    /\ UNCHANGED <<jobCounter, jobs, jobStatus, jobProgress>>

\* a step is computed, the coroutine is posted to main_warp ...
JobCompute(n) ==
    /\ jobPc[n] = "step" /\ JobGoto(n, "main")
    /\ UNCHANGED <<jobCounter, jobs, jobStatus, jobProgress, busVars>>

\* ... there progress is recorded and reported, and back to the pool
JobReportStep(n) ==
    /\ jobPc[n] = "main" /\ jobProgress' = [jobProgress EXCEPT ![n] = @ + 1]
    /\ Report(n, "running", jobProgress[n] + 1)
    /\ JobGoto(n, IF jobProgress[n] + 1 = Steps(n) THEN "finish" ELSE "step")
    /\ UNCHANGED <<jobCounter, jobs, jobStatus>>

\* the end, on main_warp again
JobFinish(n) ==
    LET status == IF Steps(n) = 0 THEN "failed" ELSE "done" IN
    /\ jobPc[n] = "finish" /\ JobGoto(n, "end")
    /\ jobStatus' = [jobStatus EXCEPT ![n] = status] /\ Report(n, status, Steps(n))
    /\ UNCHANGED <<jobCounter, jobs, jobProgress>>

JobStep(n) ==
    \/ JobRunning(n) \/ JobReportRunning(n) \/ JobCompute(n) \/ JobReportStep(n) \/ JobFinish(n)

JobNext ==
    \/ JobSubmit \/ \E n \in Numbers : JobStep(n)
    \/ UNCHANGED jobVars /\ \/ \E c \in Feeds : Events(c)
                            \/ \E t \in Topics \ {"jobs"} : LuaPub(t)

\* Threads and the event loop go on; so does a consumer that comes back.
JobSpec ==
    /\ JobInit /\ [][JobNext]_<<jobVars, busVars>>
    /\ \A n \in Numbers : WF_<<jobVars, busVars>>(JobStep(n))

\* The answer of job_query() about a job.
JobQuery(n) == IF n \in jobs THEN <<jobStatus[n], jobProgress[n]>> ELSE <<"not_found", 0>>

(***************************************************************************)
(* "keep the list bounded; ids are monotonic so the oldest jobs are        *)
(* first": the jobs on record are the last JobsBound ones submitted.       *)
(***************************************************************************)
KeepsNewest == jobs = LastOnes(jobCounter)

(***************************************************************************)
(* What a feed is told of a job, over the main thread, the pool threads    *)
(* and the bounded bus, never goes backwards: its steps in order, the end  *)
(* last and once; and it is never ahead of what job_query() answers.       *)
(***************************************************************************)
JobFeedOrdered ==
    LET Job(e) == e.payload[1]
        Rank(e) == IF e.payload[2] = "running" THEN e.payload[3] ELSE Steps(Job(e)) + 1 IN
    \A c \in Feeds : FeedTopic[c] = "jobs" =>
      /\ \A i, j \in DOMAIN fed[c] : i < j /\ Job(fed[c][i]) = Job(fed[c][j]) =>
           Rank(fed[c][i]) < Rank(fed[c][j])
      /\ \A i \in DOMAIN fed[c] : LET n == Job(fed[c][i]) IN
           n \in jobs => \/ fed[c][i].payload[2] = "running" /\ fed[c][i].payload[3] <= JobQuery(n)[2]
                         \/ fed[c][i].payload[2] = JobQuery(n)[1]

(***************************************************************************)
(* What Lua learns of jobs is consistent: a subscriber sees every event    *)
(* still kept, the events of a job in order and never ahead of             *)
(* job_query(), and the jobs on record are the newest.                     *)
(***************************************************************************)
FeedsSound == FeedComplete /\ KeepsNewest /\ JobFeedOrdered

\* Every submitted job ends.
JobsEnd == \A n \in Numbers : jobPc[n] = "pool" ~> jobPc[n] = "end"

=============================================================================
