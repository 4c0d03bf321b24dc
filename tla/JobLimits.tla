------------------------------- MODULE JobLimits -------------------------------
(***************************************************************************)
(* The two ends of the job system that are under a limit, side by side:    *)
(* the requests that create jobs (JobDispatch) and the loop of a worker    *)
(* that runs them (WorkerLoop).  They share the queue, which is open to    *)
(* each of them, and no variable.                                          *)
(***************************************************************************)
EXTENDS JobDispatch, WorkerLoop

LimitsSpec == DispatchSpec /\ LoopSpec

(* Racing requests and slow job types stay within their limits: a key gets *)
(* at most as many jobs as requests with it race, the depth limit is       *)
(* overshot by no more than race past it, and never do more tasks of a     *)
(* type run, or of all, than its semaphore and the loop's allow.           *)
LimitsHold == DispatchKeepsPromises /\ ConcurrencyBounded
================================================================================
