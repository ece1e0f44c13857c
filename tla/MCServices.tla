----------------------------- MODULE MCServices -----------------------------
(***************************************************************************)
(* The services of ngx_lua_cpp_t, and the hand-over to its main thread on a *)
(* machine with store buffers.  They share no state, so a run explores     *)
(* each on its own: `service' is chosen in the first state and the others' *)
(* variables stay as they are.                                             *)
(***************************************************************************)
EXTENDS TLC, MainLoop, UdpListener, JobQueue, Lifecycle, LuaYield, LuaCall

CONSTANTS rr, rq, feed1, feed2, k1, k2, k3, l1, l2, w1, w2

VARIABLE service

MCFeedTopic == (feed1 :> "jobs") @@ (feed2 :> "other")
\* a job of one step, and one of an unknown kind
MCJobSteps == <<1, 0>>
MCRoundTrips == (k1 :> 1) @@ (k2 :> 2) @@ (k3 :> 2)

otherVars == <<udpVars, jobVars, busVars, lifeVars, yieldVars, callVars>>
serviceVars == <<service, otherVars, vars>>

ServicesInit ==
    /\ service \in {"udp", "jobs", "lifecycle", "yield", "call", "main"}
    /\ Init /\ UdpInit /\ JobInit /\ LifecycleInit /\ YieldInit /\ CallInit
    /\ service # "call" => build = "ngx"

InUdp(X) == service = "udp" /\ X
    /\ UNCHANGED <<service, vars, jobVars, busVars, lifeVars, yieldVars, callVars>>
InJobs(X) == service = "jobs" /\ X
    /\ UNCHANGED <<service, vars, udpVars, lifeVars, yieldVars, callVars>>
InLifecycle(X) == service = "lifecycle" /\ X
    /\ UNCHANGED <<service, vars, udpVars, jobVars, busVars, yieldVars, callVars>>
InYield(X) == service = "yield" /\ X
    /\ UNCHANGED <<service, vars, udpVars, jobVars, busVars, lifeVars, callVars>>
InCall(X) == service = "call" /\ X
    /\ UNCHANGED <<service, vars, udpVars, jobVars, busVars, lifeVars, yieldVars>>
InMain(X) == service = "main" /\ X /\ UNCHANGED <<service, otherVars>>

ServicesNext ==
    InUdp(UdpNext) \/ InJobs(JobNext) \/ InLifecycle(LifecycleNext) \/ InYield(YieldNext)
    \/ InCall(CallNext) \/ InMain(Next)

\* The fairness of each service's own specification.
ServicesSpec ==
    /\ ServicesInit /\ [][ServicesNext]_serviceVars
    /\ WF_serviceVars(InUdp(UdpMainStep))
    /\ \A g \in Listeners : WF_serviceVars(InUdp(ThreadStep(g)))
    /\ \A r \in Requests : /\ SF_serviceVars(InUdp(UdpReturn(r)))
                           /\ WF_serviceVars(InUdp(RequestStep(r)))
    /\ \A n \in Numbers : WF_serviceVars(InJobs(JobStep(n)))
    /\ WF_serviceVars(InLifecycle(LifecycleSystem))
    /\ WF_serviceVars(InYield(DigOut \/ RunPosted \/ Pass))
    /\ \A c \in LuaCos : /\ WF_serviceVars(InYield(CppEnds(c)))
                         /\ SF_serviceVars(InYield(CppResume(c)))
    /\ WF_serviceVars(InMain(MainStep)) /\ WF_serviceVars(InMain(OtherEvent))
    /\ \A w \in Workers : /\ WF_serviceVars(InMain(WorkerStep(w)))
                          /\ WF_serviceVars(InMain(Appear(w)))

(***************************************************************************)
(* Every call returns: what the liveness property of each service says, in *)
(* the behaviours of that service.                                         *)
(***************************************************************************)
ServicesProgress ==
    /\ service = "udp" => UdpReturns
    /\ service = "jobs" => JobsEnd
    /\ service = "lifecycle" => TasksEnd
    /\ service = "yield" => LuaGoesOn
    /\ service = "main" => PostsExecuted
=============================================================================
