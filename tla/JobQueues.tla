------------------------------- MODULE JobQueues -------------------------------
(***************************************************************************)
(* The two implementations of the JobQueue interface side by side: that of *)
(* a single process (InMemoryJobQueue) and that of many (RedisJobQueue),   *)
(* "identical-semantics" (docs/architecture/task_23_jobs.md), with their   *)
(* jobs at the same priorities.                                            *)
(***************************************************************************)
EXTENDS InMemoryJobQueue

CONSTANTS RedisJobs, Pollers, NoJob, MaxTaskCrashes, MaxPollerCrashes

ASSUME RedisAssumption ==
    /\ RedisJobs \subseteq Jobs /\ NoJob \notin Jobs
    /\ MaxTaskCrashes \in Nat /\ MaxPollerCrashes \in Nat

VARIABLES redisLists, leases, leasePrio, delays, delayPrio, poller, task, owed, dropped, crashes

redisVars == <<redisLists, leases, leasePrio, delays, delayPrio, poller, task, owed, dropped, crashes>>

Redis == INSTANCE RedisJobQueue WITH
    Jobs <- RedisJobs, PriorityOf <- [j \in RedisJobs |-> PriorityOf[j]],
    lists <- redisLists, inflight <- leases, inflightPrio <- leasePrio,
    delayed <- delays, delayedPrio <- delayPrio
-----------------------------------------------------------------------------
(* A job waits at the priority of its record, in the in-memory queue and,  *)
(* command by command, in that of Redis.  Redis forgets no job that is     *)
(* owed, through crashed executions: but for one in the hand of a poller   *)
(* that dies between LPOP and the reservation.                             *)
JobsKeepTheirPlace == PriorityKept /\ Redis!PriorityKept /\ Redis!NothingLost

(* Redis keeps the promise of the JobQueue interface, as its in-memory     *)
(* twin does, seen command by command.                                     *)
RedisImplementsQueue == Redis!ImplementsLeaseQueue
===============================================================================
