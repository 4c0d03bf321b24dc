------------------------------ MODULE MCJobParts ------------------------------
(***************************************************************************)
(* Four parts of the job system that are checked each by itself: the two   *)
(* queues, the dispatcher and the polling loop.  A behaviour is about one  *)
(* of them, its subject, and the others stay where they start.             *)
(* In-memory queue: three jobs, two of them of the same priority; a lease  *)
(* lasts three ticks.  Redis queue: one job of the first and one of the    *)
(* last priority, and one polling process.  Dispatch: three requests share *)
(* a key, one of them with another payload; two more carry no key.  Loop:  *)
(* one job type with a limit below the concurrency and one without.        *)
(***************************************************************************)
EXTENDS JobQueues, JobLimits, TLC

CONSTANTS j1, j2, j3, r1, r2, r3, r4, r5, key, work, otherWork, report, agent,
          poller1

MCJobs == {j1, j2, j3}
MCPriorityOf == (j1 :> "high") @@ (j2 :> "low") @@ (j3 :> "low")
MCDelays == {0, 1, 2}

MCRedisJobs == {j1, j2}
MCPollers == {poller1}

MCRequests == {r1, r2, r3, r4, r5}
MCKeyOf == [r \in MCRequests |-> IF r \in {r1, r2, r3} THEN key ELSE NoKey]
MCPayloadOf == [r \in MCRequests |-> IF r = r3 THEN otherWork ELSE work]

MCTypes == {report, agent}
MCTypeLimit == (report :> 2) @@ (agent :> Concurrency)

VARIABLE subject

Init ==
    /\ subject \in {"queue", "redis", "dispatch", "loop"}
    /\ MemoryInit /\ Redis!Init /\ DispatchInit /\ LoopInit

Next ==
    /\ UNCHANGED subject
    /\ \/ subject = "queue" /\ MemoryNext /\ UNCHANGED <<redisVars, dispatchVars, loopVars>>
       \/ subject = "redis" /\ Redis!Next /\ UNCHANGED <<memoryVars, dispatchVars, loopVars>>
       \/ subject = "dispatch" /\ DispatchNext /\ UNCHANGED <<memoryVars, redisVars, loopVars>>
       \/ subject = "loop" /\ LoopNext /\ UNCHANGED <<memoryVars, redisVars, dispatchVars>>

(* Fairness asks nothing of the components that stay where they start.     *)
Spec ==
    /\ Init /\ [][Next]_<<subject, memoryVars, redisVars, dispatchVars, loopVars>>
    /\ WF_loopVars(subject = "loop" /\ LoopStep)
    /\ \A t \in Types :
          /\ WF_loopVars(subject = "loop" /\ TaskStarts(t))
          /\ WF_loopVars(subject = "loop" /\ TaskFinishes(t))
    /\ WF_redisVars(subject = "redis" /\ Redis!PollerStep(poller1))
    /\ \A j \in RedisJobs :
          /\ WF_redisVars(subject = "redis" /\ (Redis!DelayPasses(j) \/ Redis!LeaseLapses(j)))
          /\ WF_redisVars(subject = "redis" /\ Redis!TaskStep(j))
-----------------------------------------------------------------------------
(* The loop polls on until it is shut down, and a job of high priority in  *)
(* Redis is delivered again and again until it is acknowledged.            *)
PartsGoOn == (subject = "loop" => PollsUntilShutdown) /\ Redis!HighIsDelivered
===============================================================================
