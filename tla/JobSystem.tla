------------------------------- MODULE JobSystem -------------------------------
(***************************************************************************)
(* The background job system of backend/app/jobs: API requests create,     *)
(* cancel and retry jobs (dispatcher.py, cancellation.py, service.py), the *)
(* broker hands them out under leases (LeaseQueue), workers execute them   *)
(* (worker.py), and all of them write the same rows of the jobs table      *)
(* through lifecycle.py, each from its own, possibly stale, ORM object.    *)
(*                                                                         *)
(* One step is the code between two awaits that touch shared state: one    *)
(* broker call, one SELECT, one COMMIT.  A worker here is one execution    *)
(* slot (one task of Worker._active_tasks), a client one API request at a  *)
(* time.  The environment's misfortunes are rationed by the Max* bounds;   *)
(* setting one to 0 states the assumption that it never happens.           *)
(***************************************************************************)
EXTENDS LeaseQueue, JobLifecycle

CONSTANTS Workers, Clients,
          NoJob,            \* the job of a slot or request that has none
          MaxAttempts,      \* the max_attempts column of every job
          SharedRegistry,   \* are API and worker one process (as in the tests)?
          MaxCrashes,       \* executions that vanish: process death, or shutdown
          MaxOverruns,      \* leases that lapse while a worker holds the job
          MaxFaults,        \* acks and nacks that raise
          MaxDeaths,        \* requests that die midway
          MaxCancels,       \* cancellation requests
          MaxRetries        \* manual retry requests

ASSUME JobSystemAssumption ==
    /\ NoJob \notin Jobs
    /\ MaxAttempts \in Nat \ {0}
    /\ SharedRegistry \in BOOLEAN
    /\ MaxCrashes \in Nat /\ MaxOverruns \in Nat /\ MaxFaults \in Nat
    /\ MaxDeaths \in Nat /\ MaxCancels \in Nat /\ MaxRetries \in Nat

VARIABLES rows,      \* the jobs table
          worker,    \* what each execution slot is doing, and its ORM object
          client,    \* what each API request is doing, and its ORM object
          registry,  \* JobCancellationManager._active_cancellations of the API
          runs,      \* runs[j]: handler executions of j so far (history)
          fatal,     \* jobs whose handler raised a non-retryable error (history)
          spent      \* the rationed events so far

vars == <<ready, lease, delay, rows, worker, client, registry, runs, fatal, spent>>

Idle    == [pc |-> "idle", job |-> NoJob, status |-> "ABSENT", attempt |-> 0]
NoCall  == [pc |-> "idle", job |-> NoJob, status |-> "ABSENT"]

WorkerPcs == {"load", "drop", "start", "refresh", "run", "complete", "reload",
              "done", "cancel", "schedule", "bury", "ack", "nack"}
ClientPcs == {"push", "cancel", "flagged", "retry"}

Holds(w, j) == worker[w].pc # "idle" /\ worker[w].job = j
Held(j) == \E w \in Workers : Holds(w, j)

(* is_cancelled as the worker's process sees it.                           *)
Flagged(j) == SharedRegistry /\ j \in registry
Unflag(j) == registry' = IF SharedRegistry THEN registry \ {j} ELSE registry

Spend(what, max) ==
    /\ spent[what] < max
    /\ spent' = [spent EXCEPT ![what] = @ + 1]

JobTypeOK ==
    /\ QueueTypeOK
    /\ rows \in [Jobs -> Rows]
    /\ worker \in [Workers -> {Idle} \cup [pc : WorkerPcs, job : Jobs,
                        status : Statuses \cup {"ABSENT"}, attempt : Nat]]
    /\ client \in [Clients -> {NoCall} \cup [pc : ClientPcs, job : Jobs,
                        status : Statuses]]
    /\ registry \subseteq Jobs
    /\ runs \in [Jobs -> Nat]
    /\ fatal \subseteq Jobs
    /\ spent \in [{"crash", "overrun", "fault", "death", "cancel", "retry"} -> Nat]

Init ==
    /\ QueueInit
    /\ rows = [j \in Jobs |-> NoRow]
    /\ worker = [w \in Workers |-> Idle]
    /\ client = [c \in Clients |-> NoCall]
    /\ registry = {}
    /\ runs = [j \in Jobs |-> 0]
    /\ fatal = {}
    /\ spent = [e \in {"crash", "overrun", "fault", "death", "cancel", "retry"} |-> 0]
-----------------------------------------------------------------------------
(* API requests                                                            *)

(* JobDispatcher.dispatch: the row is committed, then the job is enqueued. *)
Create(c, j) ==
    /\ client[c] = NoCall
    /\ rows[j] = NoRow
    /\ rows' = [rows EXCEPT ![j] = NewRow]
    /\ client' = [client EXCEPT ![c] = [pc |-> "push", job |-> j, status |-> "QUEUED"]]
    /\ UNCHANGED <<queue, worker, registry, runs, fatal, spent>>

(* Mutant: the request enqueues its job again.                             *)
PushAgain(c) ==
    /\ client[c].pc = "push"
    /\ Enqueue(client[c].job)
    /\ UNCHANGED <<client, rows, worker, registry, runs, fatal, spent>>

Push(c) ==
    /\ client[c].pc = "push"
    /\ Enqueue(client[c].job)
    /\ client' = [client EXCEPT ![c] = NoCall]
    /\ UNCHANGED <<rows, worker, registry, runs, fatal, spent>>

(* JobService.cancel_job reads the row (a later SELECT in the same session *)
(* does not refresh the object) and gives up on a settled job.             *)
CancelLoad(c, j) ==
    /\ client[c] = NoCall
    /\ rows[j].status \in Active
    /\ Spend("cancel", MaxCancels)
    /\ client' = [client EXCEPT ![c] =
                     [pc |-> "cancel", job |-> j, status |-> rows[j].status]]
    /\ UNCHANGED <<queue, rows, worker, registry, runs, fatal>>

(* request_cancellation flags the job, then mark_cancelled commits (it     *)
(* accepts every status that CancelLoad lets through).                     *)
CancelFlag(c) ==
    /\ client[c].pc = "cancel"
    /\ registry' = registry \cup {client[c].job}
    /\ client' = [client EXCEPT ![c].pc = "flagged"]
    /\ UNCHANGED <<queue, rows, worker, runs, fatal, spent>>

CancelCommit(c) ==
    /\ client[c].pc = "flagged"
    /\ rows' = [rows EXCEPT ![client[c].job] = MarkAs(@, "CANCELLED")]
    /\ client' = [client EXCEPT ![c] = NoCall]
    /\ UNCHANGED <<queue, worker, registry, runs, fatal, spent>>

(* JobService.retry_job: the status guard unless force, then mark_queued.  *)
RetryAccepts(status, force) ==
    /\ status \in {"FAILED", "DEAD_LETTER"} \/ force
    /\ CanMove(status, "QUEUED")

RetryLoad(c, j, force) ==
    /\ client[c] = NoCall
    /\ rows[j] # NoRow
    /\ RetryAccepts(rows[j].status, force)
    /\ Spend("retry", MaxRetries)
    /\ client' = [client EXCEPT ![c] =
                     [pc |-> "retry", job |-> j, status |-> rows[j].status]]
    /\ UNCHANGED <<queue, rows, worker, registry, runs, fatal>>

(* Mutant: the row is requeued, the job is not.                            *)
RetryCommitOnly(c) ==
    /\ client[c].pc = "retry"
    /\ rows' = [rows EXCEPT ![client[c].job] = MarkAs(@, "QUEUED")]
    /\ client' = [client EXCEPT ![c] = NoCall]
    /\ UNCHANGED <<queue, worker, registry, runs, fatal, spent>>

RetryCommit(c) ==
    /\ client[c].pc = "retry"
    /\ rows' = [rows EXCEPT ![client[c].job] = MarkAs(@, "QUEUED")]
    /\ client' = [client EXCEPT ![c].pc = "push", ![c].status = "QUEUED"]
    /\ UNCHANGED <<queue, worker, registry, runs, fatal, spent>>

(* The request dies before its next step: the broker refuses the enqueue   *)
(* (JOB_ENQUEUE_FAILED) or the API process goes down.                      *)
RequestDies(c) ==
    /\ client[c] # NoCall
    /\ Spend("death", MaxDeaths)
    /\ client' = [client EXCEPT ![c] = NoCall]
    /\ UNCHANGED <<queue, rows, worker, registry, runs, fatal>>
-----------------------------------------------------------------------------
(* A worker's execution of a job: Worker._execute_job                      *)

GoTo(w, pc) == worker' = [worker EXCEPT ![w].pc = pc]
Leave(w) == worker' = [worker EXCEPT ![w] = Idle]

Take(w, j) ==
    /\ worker[w] = Idle
    /\ Dequeue(j, Lapsed, Due)
    /\ worker' = [worker EXCEPT ![w] = [Idle EXCEPT !.pc = "load", !.job = j]]
    /\ UNCHANGED <<rows, client, registry, runs, fatal, spent>>

(* Mutant: no check for a cancelled row.                                   *)
LoadUnchecked(w) ==
    /\ worker[w].pc = "load"
    /\ LET j == worker[w].job IN
       worker' = [worker EXCEPT ![w] =
          [pc |-> IF rows[j] = NoRow \/ Flagged(j) THEN "drop" ELSE "start",
           job |-> j, status |-> rows[j].status, attempt |-> rows[j].attempt]]
    /\ UNCHANGED <<queue, rows, client, registry, runs, fatal, spent>>

(* The SELECT, and the checks before the per-type semaphore.               *)
Load(w) ==
    /\ worker[w].pc = "load"
    /\ LET j == worker[w].job IN
       worker' = [worker EXCEPT ![w] =
          [pc |-> IF rows[j] = NoRow \/ rows[j].status = "CANCELLED" \/ Flagged(j)
                  THEN "drop" ELSE "start",
           job |-> j, status |-> rows[j].status, attempt |-> rows[j].attempt]]
    /\ UNCHANGED <<queue, rows, client, registry, runs, fatal, spent>>

(* Mutant: the cancelled job is left without an acknowledgement.           *)
DropWithoutAck(w) ==
    /\ worker[w].pc = "drop"
    /\ Leave(w)
    /\ UNCHANGED <<queue, rows, client, registry, runs, fatal, spent>>

(* Acknowledge a job that is not to be executed.                           *)
Drop(w) ==
    /\ worker[w].pc = "drop"
    /\ Ack(worker[w].job)
    /\ Leave(w)
    /\ UNCHANGED <<rows, client, registry, runs, fatal, spent>>

(* Mutant: the job is acknowledged as it starts.                           *)
StartAcknowledges(w) ==
    /\ worker[w].pc = "start"
    /\ CanMove(worker[w].status, "RUNNING")
    /\ Ack(worker[w].job)
    /\ rows' = [rows EXCEPT ![worker[w].job] = MarkRunning(@, worker[w].attempt)]
    /\ GoTo(w, "refresh")
    /\ UNCHANGED <<client, registry, runs, fatal, spent>>

(* mark_running, after the wait for the per-type semaphore.                *)
Start(w) ==
    /\ worker[w].pc = "start"
    /\ CanMove(worker[w].status, "RUNNING")
    /\ rows' = [rows EXCEPT ![worker[w].job] = MarkRunning(@, worker[w].attempt)]
    /\ GoTo(w, "refresh")
    /\ UNCHANGED <<queue, client, registry, runs, fatal, spent>>

(* mark_running raises: InvalidJobStateTransitionError is not retryable.   *)
StartRejected(w) ==
    /\ worker[w].pc = "start"
    /\ ~CanMove(worker[w].status, "RUNNING")
    /\ GoTo(w, "bury")
    /\ UNCHANGED <<queue, rows, client, registry, runs, fatal, spent>>

(* db.refresh after mark_running; then the handler is entered.             *)
Refresh(w) ==
    /\ worker[w].pc = "refresh"
    /\ LET j == worker[w].job IN
       /\ worker' = [worker EXCEPT ![w] = [pc |-> "run", job |-> j,
                        status |-> rows[j].status, attempt |-> rows[j].attempt]]
       /\ runs' = [runs EXCEPT ![j] = @ + 1]
    /\ UNCHANGED <<queue, rows, client, registry, fatal, spent>>

(* The handler returns; its last checkpoint saw no cancellation.           *)
HandlerReturns(w) ==
    /\ worker[w].pc = "run"
    /\ ~Flagged(worker[w].job)
    /\ GoTo(w, "complete")
    /\ UNCHANGED <<queue, rows, client, registry, runs, fatal, spent>>

(* A checkpoint raises JobCancellationError.                               *)
HandlerCancelled(w) ==
    /\ worker[w].pc = "run"
    /\ Flagged(worker[w].job)
    /\ GoTo(w, "cancel")
    /\ UNCHANGED <<queue, rows, client, registry, runs, fatal, spent>>

(* Mutants: one attempt too many; one attempt too few.                     *)
HandlerRaisesLate(w, retryable) ==
    /\ worker[w].pc = "run"
    /\ GoTo(w, IF retryable /\ worker[w].attempt <= MaxAttempts THEN "schedule" ELSE "bury")
    /\ fatal' = IF retryable THEN fatal ELSE fatal \cup {worker[w].job}
    /\ UNCHANGED <<queue, rows, client, registry, runs, spent>>

HandlerRaisesEarly(w, retryable) ==
    /\ worker[w].pc = "run"
    /\ GoTo(w, IF retryable /\ worker[w].attempt + 1 < MaxAttempts THEN "schedule" ELSE "bury")
    /\ fatal' = IF retryable THEN fatal ELSE fatal \cup {worker[w].job}
    /\ UNCHANGED <<queue, rows, client, registry, runs, spent>>

(* The handler raises, and RetryClassifier says whether that is retryable. *)
HandlerRaises(w, retryable) ==
    /\ worker[w].pc = "run"
    /\ GoTo(w, IF retryable /\ worker[w].attempt < MaxAttempts THEN "schedule" ELSE "bury")
    /\ fatal' = IF retryable THEN fatal ELSE fatal \cup {worker[w].job}
    /\ UNCHANGED <<queue, rows, client, registry, runs, spent>>

(* A mark_* method commits: the row gets the status, the object keeps it.  *)
Commit(w, from, status, to) ==
    /\ worker[w].pc = from
    /\ rows' = [rows EXCEPT ![worker[w].job] = MarkAs(@, status)]
    /\ worker' = [worker EXCEPT ![w].pc = to, ![w].status = status]
    /\ UNCHANGED <<queue, client, registry, runs, fatal, spent>>

Complete(w) == CanMove(worker[w].status, "COMPLETED")
               /\ Commit(w, "complete", "COMPLETED", "reload")
Cancel(w)   == CanMove(worker[w].status, "CANCELLED")
               /\ Commit(w, "cancel", "CANCELLED", "ack")
Schedule(w) == CanMove(worker[w].status, "RETRY_SCHEDULED")
               /\ Commit(w, "schedule", "RETRY_SCHEDULED", "nack")
Bury(w)     == CanBury(worker[w].status)
               /\ Commit(w, "bury", "DEAD_LETTER", "ack")

(* db.refresh after mark_completed.  (Nothing reads what the refresh of    *)
(* the other marks brings back, and it is left out.)                       *)
Reload(w) ==
    /\ worker[w].pc = "reload"
    /\ LET row == rows[worker[w].job] IN
       worker' = [worker EXCEPT ![w].pc = "done", ![w].status = row.status,
                                ![w].attempt = row.attempt]
    /\ UNCHANGED <<queue, rows, client, registry, runs, fatal, spent>>

(* mark_completed raises inside the try: the error path, not retryable.    *)
CompleteRejected(w) ==
    /\ worker[w].pc = "complete"
    /\ ~CanMove(worker[w].status, "COMPLETED")
    /\ GoTo(w, "bury")
    /\ UNCHANGED <<queue, rows, client, registry, runs, fatal, spent>>

(* A mark raises in an except clause, or the broker does: the exception    *)
(* leaves _execute_job through its finally, and the job is not settled.    *)
Escape(w) ==
    /\ Leave(w)
    /\ Unflag(worker[w].job)
    /\ UNCHANGED <<queue, rows, client, runs, fatal>>

MarkRejected(w) ==
    /\ \/ worker[w].pc = "cancel" /\ ~CanMove(worker[w].status, "CANCELLED")
       \/ worker[w].pc = "schedule" /\ ~CanMove(worker[w].status, "RETRY_SCHEDULED")
       \/ worker[w].pc = "bury" /\ ~CanBury(worker[w].status)
    /\ Escape(w)
    /\ UNCHANGED spent

(* Mutant: every settled job is acknowledged, those to be retried too.     *)
SettleAcksAll(w) ==
    /\ worker[w].pc \in {"done", "ack", "nack"}
    /\ Ack(worker[w].job)
    /\ Leave(w)
    /\ Unflag(worker[w].job)
    /\ UNCHANGED <<rows, client, runs, fatal, spent>>

(* The broker call that settles the job, and the finally clause.           *)
Settle(w) ==
    /\ \/ worker[w].pc \in {"done", "ack"} /\ Ack(worker[w].job)
       \/ worker[w].pc = "nack" /\ NackDelayed(worker[w].job)
    /\ Leave(w)
    /\ Unflag(worker[w].job)
    /\ UNCHANGED <<rows, client, runs, fatal, spent>>

(* The broker raises instead.  The ack that follows mark_completed is      *)
(* still inside the try: the error path is taken; elsewhere it is left.    *)
SettleFails(w, retryable) ==
    /\ Spend("fault", MaxFaults)
    /\ \/ /\ worker[w].pc = "done"
          /\ GoTo(w, IF retryable /\ worker[w].attempt < MaxAttempts
                     THEN "schedule" ELSE "bury")
          /\ UNCHANGED <<queue, rows, client, registry, runs, fatal>>
       \/ worker[w].pc \in {"ack", "nack"} /\ Escape(w)

(* The execution vanishes.  Its process is killed (then it is not the API  *)
(* process), or Worker.shutdown cancels the task: CancelledError passes    *)
(* every except clause, and the finally runs once the try is entered,      *)
(* which is after the wait for the per-type semaphore.                     *)
Crash(w) ==
    /\ worker[w] # Idle
    /\ Spend("crash", MaxCrashes)
    /\ Leave(w)
    /\ \/ worker[w].pc \in {"load", "drop", "start"} /\ UNCHANGED registry
       \/ worker[w].pc \notin {"load", "drop"} /\ Unflag(worker[w].job)
    /\ UNCHANGED <<queue, rows, client, runs, fatal>>
-----------------------------------------------------------------------------
(* Time: a retry falls due, a lease reaches its visibility timeout.        *)
DelayPasses(j) ==
    /\ delay[j] = "waiting"
    /\ Elapse({}, {j})
    /\ UNCHANGED <<rows, worker, client, registry, runs, fatal, spent>>

(* Nobody is executing the job any more.                                   *)
LeaseLapses(j) ==
    /\ lease[j] = "live" /\ ~Held(j)
    /\ Elapse({j}, {})
    /\ UNCHANGED <<rows, worker, client, registry, runs, fatal, spent>>

(* The execution outlasts the lease.                                       *)
LeaseOverrun(j) ==
    /\ lease[j] = "live" /\ Held(j)
    /\ Spend("overrun", MaxOverruns)
    /\ Elapse({j}, {})
    /\ UNCHANGED <<rows, worker, client, registry, runs, fatal>>
-----------------------------------------------------------------------------
ClientStep(c) ==
    \/ Push(c) \/ CancelFlag(c) \/ CancelCommit(c) \/ RetryCommit(c)

Request(c, j) ==
    \/ Create(c, j) \/ CancelLoad(c, j) \/ \E force \in BOOLEAN : RetryLoad(c, j, force)

WorkerStep(w) ==
    \/ Load(w) \/ Drop(w) \/ Start(w) \/ StartRejected(w) \/ Refresh(w)
    \/ HandlerReturns(w) \/ HandlerCancelled(w)
    \/ \E retryable \in BOOLEAN : HandlerRaises(w, retryable)
    \/ Complete(w) \/ CompleteRejected(w) \/ Reload(w)
    \/ Cancel(w) \/ Schedule(w) \/ Bury(w) \/ MarkRejected(w)
    \/ Settle(w)

Misfortune ==
    \/ \E c \in Clients : RequestDies(c)
    \/ \E w \in Workers : Crash(w) \/ \E retryable \in BOOLEAN : SettleFails(w, retryable)
    \/ \E j \in Jobs : LeaseOverrun(j)

Time(j) == DelayPasses(j) \/ LeaseLapses(j)

Next ==
    \/ \E c \in Clients : ClientStep(c) \/ \E j \in Jobs : Request(c, j)
    \/ \E w \in Workers : WorkerStep(w) \/ \E j \in Jobs : Take(w, j)
    \/ \E j \in Jobs : Time(j)
    \/ Misfortune

Spec == Init /\ [][Next]_vars

(* Handlers return, sessions answer, requests run to their end, and time   *)
(* passes.  A queued entry is taken in the end even if others keep coming  *)
(* back: dequeue pops each list in FIFO order and a redelivered entry      *)
(* rejoins at its tail (jobs of one priority).                             *)
Fairness ==
    /\ \A c \in Clients : WF_vars(ClientStep(c))
    /\ \A w \in Workers : WF_vars(WorkerStep(w))
    /\ \A j \in Jobs : WF_vars(Time(j)) /\ SF_vars(\E w \in Workers : Take(w, j))

LiveSpec == Spec /\ Fairness
-----------------------------------------------------------------------------
(* A job is in the hands of one worker at a time, from the dequeue to the  *)
(* call that settles it.  Nothing in worker.py checks it: it rests on the  *)
(* broker having one entry per job and on leases outlasting executions.    *)
SingleExecutor ==
    \A j \in Jobs : \A v, w \in Workers : Holds(v, j) /\ Holds(w, j) => v = w

(* A worker at work on a job still has its reservation ("Visibility        *)
(* Timeout + Worker Binding", task_23_jobs.md:32): no one else's ack or    *)
(* nack has dropped it, so a crash now is noticed by the broker.           *)
HoldersAreLeased ==
    \A w \in Workers : worker[w].pc # "idle" => lease[worker[w].job] = "live"

(* An unsettled row is never forgotten: the broker knows of the job, or a  *)
(* request is just about to enqueue it or to record its cancellation.      *)
NoJobLost ==
    \A j \in Jobs : rows[j].status \in Active =>
       Queued(j) \/ \E c \in Clients : client[c].job = j /\ client[c].pc \in {"push", "flagged"}

(* max_attempts bounds the executions of a handler (task_23_jobs.md:190:   *)
(* "Max attempts bound execution"), counting those that vanished: each is  *)
(* charged to the attempt counter of the row, and none is allowed past it. *)
ExecutionsBounded ==
    \A j \in Jobs : runs[j] <= rows[j].attempt /\ runs[j] <= MaxAttempts

(* The transitions of lifecycle.py; mark_dead_letter passes FAILED, which  *)
(* is not committed, and a row is created by nobody's mark.                *)
Edge(from, to) ==
    from = to \/ from = "ABSENT" \/ CanMove(from, to) \/ (from = "RUNNING" /\ to = "DEAD_LETTER")

(* Somebody about to write has an object of before a cancellation and an   *)
(* execution met: the request that cancels loaded the job while it was     *)
(* active, and it has ended since; or the worker at work started before    *)
(* the row was cancelled, and moves along the graph from what it knows.    *)
Overtaken(j, from, to) ==
    \/ /\ from \in {"COMPLETED", "DEAD_LETTER"} /\ to = "CANCELLED"
       /\ \E c \in Clients : client[c].pc = "flagged" /\ client[c].job = j /\ client[c].status \in Active
    \/ /\ from = "CANCELLED"
       /\ \E w \in Workers :
             /\ Holds(w, j) /\ worker[w].pc \notin {"load", "drop"}
             /\ worker[w].status \in Active /\ Edge(worker[w].status, to)

(* The committed rows follow the transition graph of lifecycle.py, which   *)
(* is checked against ORM objects that nothing keeps fresh: always while   *)
(* nobody asked for a cancellation, and after that but for the two races   *)
(* of an execution and a cancellation.  One recorded before any worker     *)
(* committed to the job is final, and the worker that finds the entry      *)
(* discards it.                                                            *)
Unstarted(j) == \A w \in Workers : Holds(w, j) => worker[w].pc \in {"load", "drop"}
LegalTransition(j) ==
    LET from == rows[j].status  to == rows'[j].status IN
    /\ Edge(from, to) \/ (spent.cancel > 0 /\ Overtaken(j, from, to))
    /\ from = "CANCELLED" /\ Unstarted(j) => Unstarted(j)'
LegalTransitions == [][\A j \in Jobs : LegalTransition(j)]_vars

(* What lifecycle.py says of its graph, that COMPLETED and CANCELLED are   *)
(* terminal among the rest: every change of a row is an edge of it.        *)
RowsKeepToTheGraph == [][\A j \in Jobs : Edge(rows[j].status, rows'[j].status)]_vars

(* A job is dead-lettered for a fatal error or for exhausted attempts, and *)
(* for no other reason (task_23_jobs.md:104-105 and 190).                  *)
DeadLetterJustified ==
    \A j \in Jobs : rows[j].status = "DEAD_LETTER" =>
       j \in fatal \/ rows[j].attempt >= MaxAttempts

(* The broker sees dutiful clients: no job is enqueued while the broker    *)
(* knows of it, none is settled without a live lease.                      *)
DutifulClients == QueueSpec

(* Every created job is settled in the end: completed, cancelled or dead-  *)
(* lettered.                                                               *)
EventuallySettles ==
    \A j \in Jobs : rows[j].status \in Active ~> rows[j].status \in Terminal

(* The broker gets rid of every entry.                                     *)
EntriesDrain == \A j \in Jobs : Queued(j) ~> ~Queued(j)
=============================================================================
