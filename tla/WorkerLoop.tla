------------------------------ MODULE WorkerLoop ------------------------------
(***************************************************************************)
(* The polling loop of one worker process: Worker.run_until_shutdown,      *)
(* _execute_job_wrapper and shutdown (backend/app/jobs/worker.py), and     *)
(* main, which ties them to SIGTERM.  asyncio is single-threaded: a step   *)
(* runs from one await to the next.                                        *)
(*                                                                         *)
(* The tasks of _active_tasks are counted by job type and by whether they  *)
(* still wait for the semaphore of their type.  The broker is open: a      *)
(* dequeue may return a job of any type, time out, or raise.               *)
(***************************************************************************)
EXTENDS Integers, FiniteSets, FiniteSetsExt

CONSTANTS Types,        \* job types
          Concurrency,  \* WORKER_CONCURRENCY, the permits of _semaphore
          TypeLimit,    \* MAX_CONCURRENT_PER_TYPE (Concurrency if unlisted)
          MaxDequeueFaults  \* bound: dequeues that raise

ASSUME WorkerLoopAssumption ==
    /\ Concurrency \in Nat \ {0}
    /\ TypeLimit \in [Types -> Nat \ {0}]
    /\ MaxDequeueFaults \in Nat

VARIABLES loop,      \* where run_until_shutdown is
          permits,   \* free permits of _semaphore
          waiting,   \* tasks between their start and their type's semaphore
          working,   \* tasks past it
          shutdown,  \* _shutdown_event is set, and _running cleared
          dequeueFaults  \* dequeues that raised so far

loopVars == <<loop, permits, waiting, working, shutdown, dequeueFaults>>

LoopPcs == {"top", "acquire", "dequeue", "sleep", "ended"}

Total(count) == MapThenSumSet(LAMBDA t : count[t], Types)
Active == Total(waiting) + Total(working)
NoTasks == [t \in Types |-> 0]

LoopTypeOK ==
    /\ loop \in LoopPcs
    /\ permits \in 0..Concurrency
    /\ waiting \in [Types -> 0..Concurrency]
    /\ working \in [Types -> 0..Concurrency]
    /\ shutdown \in BOOLEAN
    /\ dequeueFaults \in 0..MaxDequeueFaults

LoopInit ==
    /\ loop = "top"
    /\ permits = Concurrency
    /\ waiting = NoTasks /\ working = NoTasks
    /\ shutdown = FALSE
    /\ dequeueFaults = 0
-----------------------------------------------------------------------------
(* while self.is_running                                                   *)
Top ==
    /\ loop = "top"
    /\ loop' = IF shutdown THEN "ended" ELSE "acquire"
    /\ UNCHANGED <<permits, waiting, working, shutdown, dequeueFaults>>

(* Wait for a permit; give it back and leave if shutdown was signalled.    *)
Acquire ==
    /\ loop = "acquire" /\ permits > 0
    /\ IF shutdown
       THEN loop' = "ended" /\ UNCHANGED permits
       ELSE loop' = "dequeue" /\ permits' = permits - 1
    /\ UNCHANGED <<waiting, working, shutdown, dequeueFaults>>

DequeueNothing ==
    /\ loop = "dequeue"
    /\ loop' = "sleep"
    /\ permits' = permits + 1
    /\ UNCHANGED <<waiting, working, shutdown, dequeueFaults>>

(* create_task: the permit goes to the task.                               *)
DequeueJob(t) ==
    /\ loop = "dequeue"
    /\ loop' = "top"
    /\ waiting' = [waiting EXCEPT ![t] = @ + 1]
    /\ UNCHANGED <<permits, working, shutdown, dequeueFaults>>

(* The broker raises: the handler logs and sleeps, and keeps the permit.   *)
DequeueRaises ==
    /\ loop = "dequeue"
    /\ dequeueFaults < MaxDequeueFaults
    /\ dequeueFaults' = dequeueFaults + 1
    /\ loop' = "sleep"
    /\ UNCHANGED <<permits, waiting, working, shutdown>>

Sleep ==
    /\ loop = "sleep"
    /\ loop' = "top"
    /\ UNCHANGED <<permits, waiting, working, shutdown, dequeueFaults>>
-----------------------------------------------------------------------------
(* A task enters the semaphore of its type.                                *)
TaskStarts(t) ==
    /\ waiting[t] > 0 /\ working[t] < TypeLimit[t]
    /\ waiting' = [waiting EXCEPT ![t] = @ - 1]
    /\ working' = [working EXCEPT ![t] = @ + 1]
    /\ UNCHANGED <<loop, permits, shutdown, dequeueFaults>>

(* A task ends; its done callback releases the permit.  A task cancelled   *)
(* by shutdown ends like any other.                                        *)
TaskEnds(t, count) ==
    /\ count[t] > 0
    /\ permits' = permits + 1
    /\ UNCHANGED <<loop, shutdown, dequeueFaults>>

TaskFinishes(t) ==
    /\ TaskEnds(t, working)
    /\ working' = [working EXCEPT ![t] = @ - 1]
    /\ UNCHANGED waiting

(* The job is absent or cancelled, or the task is cancelled as it waits.   *)
TaskSkips(t) ==
    /\ TaskEnds(t, waiting)
    /\ waiting' = [waiting EXCEPT ![t] = @ - 1]
    /\ UNCHANGED working
-----------------------------------------------------------------------------
(* SIGTERM: Worker.shutdown sets the flags, then waits for the tasks of    *)
(* that moment and cancels those that outlast the timeout.                 *)
Shutdown ==
    /\ ~shutdown
    /\ shutdown' = TRUE
    /\ UNCHANGED <<loop, permits, waiting, working, dequeueFaults>>

LoopStep ==
    \/ Top \/ Acquire \/ DequeueNothing \/ (\E t \in Types : DequeueJob(t))
    \/ DequeueRaises \/ Sleep

LoopNext ==
    \/ LoopStep
    \/ \E t \in Types : TaskStarts(t) \/ TaskFinishes(t) \/ TaskSkips(t)
    \/ Shutdown

LoopSpec == LoopInit /\ [][LoopNext]_loopVars

(* The loop runs on, semaphores are served and handlers return; nothing    *)
(* makes SIGTERM arrive, or a task skip its work.                          *)
LoopFairness ==
    /\ WF_loopVars(LoopStep)
    /\ \A t \in Types : WF_loopVars(TaskStarts(t)) /\ WF_loopVars(TaskFinishes(t))

LiveSpec == LoopSpec /\ LoopFairness
-----------------------------------------------------------------------------
(* Every permit is free, or with the loop, or with one task, through       *)
(* timeouts, cancellation and shutdown: none is released twice, and none   *)
(* leaks but one for each dequeue that raised.                             *)
PermitsConserved ==
    permits + Active + (IF loop = "dequeue" THEN 1 ELSE 0) = Concurrency - dequeueFaults

(* So no more tasks are under way than the process allows, nor at work     *)
(* than their type does.                                                   *)
ConcurrencyBounded ==
    /\ LoopTypeOK /\ PermitsConserved
    /\ Active <= Concurrency
    /\ \A t \in Types : working[t] <= TypeLimit[t]

(* "Main worker execution loop processing jobs until shutdown is signaled" *)
(* (worker.py:98): until then the loop always gets back to the broker, and *)
(* once it is signalled the loop ends, even if every permit is out and it  *)
(* is waiting for one, so that main can return.                            *)
PollsUntilShutdown ==
    /\ []<>(loop = "dequeue" \/ shutdown)
    /\ shutdown ~> loop = "ended"
=============================================================================
