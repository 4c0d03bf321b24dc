--------------------------- MODULE JobSystemProofs ---------------------------
(***************************************************************************)
(* Exclusive execution, for any sets of jobs, workers and clients, any     *)
(* number of crashes, broker faults, dying requests and cancellations:     *)
(* as long as no lease lapses under a worker and no job is retried by      *)
(* hand, every job is in the hands of one worker at a time, who has its    *)
(* lease.                                                                  *)
(***************************************************************************)
EXTENDS JobSystem, LeaseQueueProofs

(* The environment the theorems are about.                                 *)
Calm == MaxOverruns = 0 /\ MaxRetries = 0

(* The variables of the job system other than the broker's.                *)
StateTypeOK ==
    /\ rows \in [Jobs -> Rows]
    /\ worker \in [Workers -> {Idle} \cup [pc : WorkerPcs, job : Jobs,
                        status : Statuses \cup {"ABSENT"}, attempt : Nat]]
    /\ client \in [Clients -> {NoCall} \cup [pc : ClientPcs, job : Jobs,
                        status : Statuses]]
    /\ registry \subseteq Jobs
    /\ runs \in [Jobs -> Nat]
    /\ fatal \subseteq Jobs
    /\ spent \in [{"crash", "overrun", "fault", "death", "cancel", "retry"} -> Nat]

(* A job about to be enqueued is unknown to the broker, and one request is *)
(* about to enqueue it; a job without a row is unknown to all.             *)
Unqueued ==
    /\ \A c \in Clients : client[c].pc = "push" => ~Queued(client[c].job)
    /\ \A c, d \in Clients :
          client[c].pc = "push" /\ client[d].pc = "push" /\ client[c].job = client[d].job
             => c = d
    /\ \A j \in Jobs : rows[j] = NoRow => ~Queued(j) /\ \A c \in Clients : client[c].job # j
    /\ \A c \in Clients : client[c].pc # "retry"

JobInv == StateTypeOK /\ QueueInv /\ HoldersAreLeased /\ SingleExecutor /\ Unqueued
-----------------------------------------------------------------------------
LEMMA InitInv == Init => JobInv
  <1> SUFFICES ASSUME Init  PROVE JobInv
    OBVIOUS
  <1>1. QueueInv
    BY QueueInitInv DEF Init
  <1>2. StateTypeOK
    BY DEF Init, StateTypeOK, Rows, NoRow
  <1>3. HoldersAreLeased /\ SingleExecutor
    BY DEF Init, HoldersAreLeased, SingleExecutor, Holds, Idle
  <1>4. Unqueued
    BY JobSystemAssumption DEF Init, Unqueued, NoCall, Queued, QueueInit
  <1> QED
    BY <1>1, <1>2, <1>3, <1>4 DEF JobInv

(* Every step of the system is, for the broker, a step of dutiful clients. *)
LEMMA StepIsDutiful ==
  ASSUME Calm, JobInv, [Next]_vars  PROVE [QueueNext]_queue
  <1> USE DEF JobInv
  <1>1. ASSUME NEW c \in Clients, Push(c)  PROVE QueueNext
    <2>1. client[c].job \in Jobs
      BY <1>1 DEF StateTypeOK, Push, NoCall
    <2>2. ~Queued(client[c].job)
      BY <1>1 DEF Unqueued, Push
    <2> QED
      BY <1>1, <2>1, <2>2 DEF Push, QueueNext
  <1>2. ASSUME NEW w \in Workers, NEW j \in Jobs, Take(w, j)  PROVE QueueNext
    BY <1>2 DEF Take, QueueNext
  <1>3. ASSUME NEW w \in Workers, Drop(w) \/ Settle(w)  PROVE QueueNext
    <2>1. worker[w].pc # "idle" /\ worker[w].job \in Jobs
      BY <1>3 DEF StateTypeOK, Drop, Settle, Idle
    <2>2. lease[worker[w].job] = "live"
      BY <2>1 DEF HoldersAreLeased
    <2> QED
      BY <1>3, <2>1, <2>2 DEF Drop, Settle, QueueNext
  <1>4. ASSUME NEW j \in Jobs, Time(j)  PROVE QueueNext
    <2>1. {} \in SUBSET Jobs /\ {j} \in SUBSET Jobs
      OBVIOUS
    <2> QED
      BY <1>4, <2>1 DEF Time, DelayPasses, LeaseLapses, QueueNext
  <1>5. ASSUME NEW j \in Jobs, LeaseOverrun(j)  PROVE FALSE
    BY <1>5 DEF LeaseOverrun, Spend, Calm, StateTypeOK
  <1>6. ASSUME NEW c \in Clients, NEW j \in Jobs, Request(c, j)  PROVE UNCHANGED queue
    BY <1>6 DEF Request, Create, CancelLoad, RetryLoad
  <1>7. ASSUME NEW c \in Clients, CancelFlag(c) \/ CancelCommit(c) \/ RetryCommit(c) \/ RequestDies(c)
        PROVE  UNCHANGED queue
    BY <1>7 DEF CancelFlag, CancelCommit, RetryCommit, RequestDies
  <1>8. ASSUME NEW w \in Workers, WorkerStep(w), ~Drop(w), ~Settle(w)  PROVE UNCHANGED queue
    BY <1>8 DEF WorkerStep, Load, Start, StartRejected, Refresh, HandlerReturns,
                HandlerCancelled, HandlerRaises, Complete, CompleteRejected, Reload,
                Cancel, Schedule, Bury, Commit, MarkRejected, Escape
  <1>9. ASSUME NEW w \in Workers, Crash(w) \/ \E retryable \in BOOLEAN : SettleFails(w, retryable)
        PROVE  UNCHANGED queue
    BY <1>9 DEF Crash, SettleFails, Escape
  <1>10. CASE UNCHANGED vars
    BY <1>10 DEF vars, queue
  <1> QED
    BY <1>1, <1>2, <1>3, <1>4, <1>5, <1>6, <1>7, <1>8, <1>9, <1>10
       DEF Next, ClientStep, Misfortune

(* What the marks of lifecycle.py write is a row again.                    *)
LEMMA MarksKeepRows ==
  ASSUME NEW row \in Rows, NEW status \in Statuses, NEW attempt \in Nat
  PROVE  MarkAs(row, status) \in Rows /\ MarkRunning(row, attempt) \in Rows
  <1>1. row \in [status : Statuses \cup {"ABSENT"}, attempt : Nat]
    BY DEF Rows, NoRow
  <1>2. [row EXCEPT !.status = status] \in [status : Statuses, attempt : Nat]
    BY <1>1
  <1>3. \A c \in Statuses, n \in Nat :
           [row EXCEPT !.status = c, !.attempt = n] \in [status : Statuses, attempt : Nat]
    BY <1>1
  <1>4. "RUNNING" \in Statuses /\ attempt + 1 \in Nat
    BY DEF Statuses
  <1> QED
    BY <1>2, <1>3, <1>4 DEF MarkAs, MarkRunning, Rows

(* What a busy slot or a request holds.                                    *)
LEMMA BusyTypes ==
  ASSUME StateTypeOK
  PROVE  /\ \A w \in Workers : worker[w] # Idle =>
               worker[w] \in [pc : WorkerPcs, job : Jobs,
                             status : Statuses \cup {"ABSENT"}, attempt : Nat]
         /\ \A c \in Clients : client[c] # NoCall =>
               client[c] \in [pc : ClientPcs, job : Jobs, status : Statuses]
         /\ \A j \in Jobs : rows[j].status \in Statuses \cup {"ABSENT"}
                          /\ rows[j].attempt \in Nat
  <1>1. \A j \in Jobs : rows[j] \in Rows
    BY DEF StateTypeOK
  <1>2. \A row \in Rows : row.status \in Statuses \cup {"ABSENT"} /\ row.attempt \in Nat
    BY DEF Rows, NoRow
  <1> QED
    BY <1>1, <1>2 DEF StateTypeOK

(* Type correctness of rows, requests and executions.                      *)
LEMMA StepKeepsTypes ==
  ASSUME JobInv, [Next]_vars  PROVE StateTypeOK'
  <1> USE JobSystemAssumption DEF JobInv, StateTypeOK
  <1>1. ASSUME NEW c \in Clients, NEW j \in Jobs, Request(c, j)  PROVE StateTypeOK'
    <2>1. CASE Create(c, j)
      BY <1>1, <2>1 DEF Create, NewRow, Rows, ClientPcs, Statuses
    <2>2. CASE CancelLoad(c, j)
      BY <1>1, <2>2 DEF CancelLoad, Spend, Active, ClientPcs, Statuses
    <2>3. CASE \E force \in BOOLEAN : RetryLoad(c, j, force)
      BY <1>1, <2>3 DEF RetryLoad, RetryAccepts, CanMove, ALLOWED_TRANSITIONS, Spend,
                        ClientPcs, Statuses, Rows, NoRow
    <2> QED
      BY <1>1, <2>1, <2>2, <2>3 DEF Request
  <1>2. ASSUME NEW c \in Clients, ClientStep(c) \/ RequestDies(c)  PROVE StateTypeOK'
    <2>1. CASE Push(c)
      BY <1>2, <2>1 DEF Push
    <2>2. CASE CancelFlag(c)
      BY <1>2, <2>2 DEF CancelFlag, NoCall, ClientPcs
    <2>3. CASE CancelCommit(c)
      <3>1. client[c].job \in Jobs
        BY <2>3, BusyTypes DEF CancelCommit, NoCall
      <3>2. MarkAs(rows[client[c].job], "CANCELLED") \in Rows
        BY <3>1, MarksKeepRows DEF Statuses
      <3> QED
        BY <2>3, <3>1, <3>2 DEF CancelCommit
    <2>4. CASE RetryCommit(c)
      <3>1. client[c] \in [pc : ClientPcs, job : Jobs, status : Statuses]
        BY <2>4, BusyTypes DEF RetryCommit, NoCall
      <3>2. MarkAs(rows[client[c].job], "QUEUED") \in Rows
        BY <3>1, MarksKeepRows DEF Statuses
      <3> QED
        BY <2>4, <3>1, <3>2 DEF RetryCommit, ClientPcs, Statuses
    <2>5. CASE RequestDies(c)
      BY <1>2, <2>5 DEF RequestDies, Spend
    <2> QED
      BY <1>2, <2>1, <2>2, <2>3, <2>4, <2>5 DEF ClientStep
  <1>3. ASSUME NEW w \in Workers, NEW j \in Jobs, Take(w, j)  PROVE StateTypeOK'
    BY <1>3 DEF Take, Idle, WorkerPcs
  <1>4. ASSUME NEW w \in Workers, WorkerStep(w)  PROVE StateTypeOK'
    <2>1. CASE Load(w)
      BY <1>4, <2>1 DEF Load, WorkerPcs, Rows, NoRow, Idle
    <2>2. CASE Drop(w)
      BY <1>4, <2>2 DEF Drop, Leave
    <2>3. CASE Start(w)
      <3>1. worker[w] \in [pc : WorkerPcs, job : Jobs,
                            status : Statuses \cup {"ABSENT"}, attempt : Nat]
        BY <2>3, BusyTypes DEF Start, Idle
      <3>2. MarkRunning(rows[worker[w].job], worker[w].attempt) \in Rows
        BY <3>1, MarksKeepRows DEF Statuses
      <3> QED
        BY <2>3, <3>1, <3>2 DEF Start, GoTo, WorkerPcs
    <2>4. CASE StartRejected(w) \/ HandlerReturns(w) \/ HandlerCancelled(w) \/ CompleteRejected(w)
      BY <1>4, <2>4 DEF StartRejected, HandlerReturns, HandlerCancelled, CompleteRejected,
                        GoTo, WorkerPcs, Idle
    <2>5. CASE Refresh(w)
      BY <1>4, <2>5 DEF Refresh, WorkerPcs, Rows, NoRow, Idle
    <2>6. CASE \E retryable \in BOOLEAN : HandlerRaises(w, retryable)
      BY <1>4, <2>6 DEF HandlerRaises, GoTo, WorkerPcs, Idle
    <2>7. CASE Reload(w)
      <3>1. worker[w] \in [pc : WorkerPcs, job : Jobs,
                            status : Statuses \cup {"ABSENT"}, attempt : Nat]
        BY <2>7, BusyTypes DEF Reload, Idle
      <3>2. rows[worker[w].job].status \in Statuses \cup {"ABSENT"}
            /\ rows[worker[w].job].attempt \in Nat
        BY <3>1, BusyTypes
      <3> QED
        BY <2>7, <3>1, <3>2 DEF Reload, WorkerPcs
    <2>8. CASE Complete(w) \/ Cancel(w) \/ Schedule(w) \/ Bury(w)
      BY <1>4, <2>8 DEF Complete, Cancel, Schedule, Bury, Commit, MarkAs, Rows, NoRow,
                        Statuses, WorkerPcs, Idle
    <2>9. CASE MarkRejected(w)
      BY <1>4, <2>9 DEF MarkRejected, Escape, Leave, Unflag
    <2>10. CASE Settle(w)
      BY <1>4, <2>10 DEF Settle, Leave, Unflag
    <2> QED
      BY <1>4, <2>1, <2>2, <2>3, <2>4, <2>5, <2>6, <2>7, <2>8, <2>9, <2>10 DEF WorkerStep
  <1>5. ASSUME NEW j \in Jobs, Time(j) \/ LeaseOverrun(j)  PROVE StateTypeOK'
    BY <1>5 DEF Time, DelayPasses, LeaseLapses, LeaseOverrun, Spend
  <1>6. ASSUME NEW w \in Workers, \E retryable \in BOOLEAN : SettleFails(w, retryable)
        PROVE  StateTypeOK'
    BY <1>6 DEF SettleFails, Spend, GoTo, Escape, Leave, Unflag, WorkerPcs, Idle
  <1>7. ASSUME NEW w \in Workers, Crash(w)  PROVE StateTypeOK'
    BY <1>7 DEF Crash, Spend, Leave, Unflag
  <1>8. CASE UNCHANGED vars
    BY <1>8 DEF vars
  <1> QED
    BY <1>1, <1>2, <1>3, <1>4, <1>5, <1>6, <1>7, <1>8 DEF Next, Misfortune
-----------------------------------------------------------------------------
(* A step that hands out no job, and takes no lease from under a worker    *)
(* that remains, keeps execution exclusive.                                *)
LEMMA HoldersShrink ==
  ASSUME HoldersAreLeased, SingleExecutor,
         \A v \in Workers : worker'[v].pc # "idle" =>
            /\ worker[v].pc # "idle" /\ worker'[v].job = worker[v].job
            /\ lease'[worker[v].job] = "live"
  PROVE  (HoldersAreLeased /\ SingleExecutor)'
  BY DEF HoldersAreLeased, SingleExecutor, Holds

(* A job that can be taken is in nobody's hands: it has a ready copy, a    *)
(* lapsed lease or a due retry, so by OneEntry it has no live lease.       *)
LEMMA TakenIsFree ==
  ASSUME JobInv, NEW w \in Workers, NEW j \in Jobs, Take(w, j)
  PROVE  ~Held(j) /\ Queued(j)
  <1>1. lease[j] # "live" /\ Queued(j)
    BY DEF JobInv, QueueInv, QueueTypeOK, OneEntry, Take, Dequeue, Swept, Lapsed, Due, Queued
  <1> QED
    BY <1>1 DEF JobInv, HoldersAreLeased, Held, Holds

LEMMA StepKeepsHolders ==
  ASSUME Calm, JobInv, [Next]_vars  PROVE (HoldersAreLeased /\ SingleExecutor)'
  <1> DEFINE Shrinks(v) == worker'[v].pc # "idle" =>
                /\ worker[v].pc # "idle" /\ worker'[v].job = worker[v].job
                /\ lease'[worker[v].job] = "live"
  <1>0. worker = [w \in Workers |-> worker[w]]
        /\ \A w \in Workers : worker[w].pc # "idle" =>
              worker[w] \in [pc : WorkerPcs, job : Jobs,
                            status : Statuses \cup {"ABSENT"}, attempt : Nat]
    BY BusyTypes DEF JobInv, StateTypeOK, Idle
  <1>1. ASSUME NEW c \in Clients, ClientStep(c) \/ RequestDies(c) \/ \E j \in Jobs : Request(c, j)
        PROVE  \A v \in Workers : Shrinks(v)
    BY <1>1 DEF ClientStep, Push, CancelFlag, CancelCommit, RetryCommit, RequestDies, Request,
                Create, CancelLoad, RetryLoad, Enqueue, queue, JobInv, HoldersAreLeased
  <1>2. ASSUME NEW w \in Workers, Load(w) \/ Refresh(w) \/ Reload(w)
        PROVE  \A v \in Workers : Shrinks(v)
    BY <1>0, <1>2 DEF Load, Refresh, Reload, queue, JobInv, HoldersAreLeased, WorkerPcs
  <1>3. ASSUME NEW w \in Workers,
               \/ Start(w) \/ StartRejected(w) \/ HandlerReturns(w) \/ HandlerCancelled(w)
               \/ CompleteRejected(w) \/ \E retryable \in BOOLEAN : HandlerRaises(w, retryable)
        PROVE  \A v \in Workers : Shrinks(v)
    BY <1>0, <1>3 DEF Start, StartRejected, HandlerReturns, HandlerCancelled, CompleteRejected,
                      HandlerRaises, GoTo, queue, JobInv, HoldersAreLeased, WorkerPcs
  <1>4. ASSUME NEW w \in Workers, Complete(w) \/ Cancel(w) \/ Schedule(w) \/ Bury(w)
        PROVE  \A v \in Workers : Shrinks(v)
    BY <1>0, <1>4 DEF Complete, Cancel, Schedule, Bury, Commit, queue, JobInv,
                      HoldersAreLeased, WorkerPcs
  <1>5. ASSUME NEW w \in Workers, MarkRejected(w) \/ Crash(w)
        PROVE  \A v \in Workers : Shrinks(v)
    BY <1>0, <1>5 DEF MarkRejected, Crash, Escape, Leave, Idle, queue, JobInv, HoldersAreLeased
  <1>6. ASSUME NEW w \in Workers, \E retryable \in BOOLEAN : SettleFails(w, retryable)
        PROVE  \A v \in Workers : Shrinks(v)
    BY <1>0, <1>6 DEF SettleFails, GoTo, Escape, Leave, Idle, queue, JobInv,
                      HoldersAreLeased, WorkerPcs
  <1>7. ASSUME NEW w \in Workers, Drop(w) \/ Settle(w)
        PROVE  \A v \in Workers : Shrinks(v)
    <2>1. worker' = [worker EXCEPT ![w] = Idle] /\ worker[w].pc # "idle"
      BY <1>7 DEF Drop, Settle, Leave
    <2>2. \A k \in Jobs : k # worker[w].job => lease'[k] = lease[k]
      BY <1>7 DEF Drop, Settle, Ack, NackDelayed, JobInv, QueueInv, QueueTypeOK
    <2>3. ASSUME NEW v \in Workers, v # w, worker[v].pc # "idle"
          PROVE  worker[v].job # worker[w].job /\ worker[v].job \in Jobs
                 /\ lease[worker[v].job] = "live"
      BY <1>0, <2>1, <2>3 DEF JobInv, SingleExecutor, HoldersAreLeased, Holds
    <2> QED
      BY <1>0, <2>1, <2>2, <2>3 DEF Idle
  <1>8. ASSUME NEW j \in Jobs, Time(j)  PROVE \A v \in Workers : Shrinks(v)
    <2>1. \A k \in Jobs : Held(k) => lease'[k] = lease[k]
      BY <1>8 DEF Time, DelayPasses, LeaseLapses, Elapse
    <2> QED
      BY <1>0, <1>8, <2>1 DEF Time, DelayPasses, LeaseLapses, Held, Holds, JobInv,
                              HoldersAreLeased
  <1>9. ASSUME NEW j \in Jobs, LeaseOverrun(j)  PROVE FALSE
    BY <1>9 DEF LeaseOverrun, Spend, Calm, JobInv, StateTypeOK
  <1>10. ASSUME NEW w \in Workers, NEW j \in Jobs, Take(w, j)
         PROVE  (HoldersAreLeased /\ SingleExecutor)'
    <2>1. ~Held(j)
      BY <1>10, TakenIsFree
    <2>2. worker' = [worker EXCEPT ![w] = [Idle EXCEPT !.pc = "load", !.job = j]]
      BY <1>10 DEF Take
    <2>3. worker'[w].job = j /\ lease'[j] = "live"
      BY <1>0, <1>10, <2>2 DEF Take, Dequeue, Idle
    <2>4. ASSUME NEW v \in Workers, v # w, worker'[v].pc # "idle"
          PROVE  worker'[v] = worker[v] /\ worker[v].job # j /\ lease'[worker[v].job] = "live"
      <3>1. worker'[v] = worker[v]
        BY <1>0, <2>2, <2>4
      <3>2. worker[v].job # j /\ worker[v].job \in Jobs /\ lease[worker[v].job] = "live"
        BY <1>0, <2>1, <2>4, <3>1 DEF Held, Holds, JobInv, HoldersAreLeased
      <3> QED
        BY <1>10, <3>1, <3>2 DEF Take, Dequeue, Lapsed
    <2> QED
      BY <2>3, <2>4 DEF JobInv, HoldersAreLeased, SingleExecutor, Holds
  <1>11. CASE UNCHANGED vars
    BY <1>11 DEF vars, JobInv, HoldersAreLeased, SingleExecutor, Holds
  <1> HIDE DEF Shrinks
  <1>12. (\A v \in Workers : Shrinks(v)) => (HoldersAreLeased /\ SingleExecutor)'
    BY HoldersShrink DEF JobInv, Shrinks
  <1> QED
    BY <1>1, <1>2, <1>3, <1>4, <1>5, <1>6, <1>7, <1>8, <1>9, <1>10, <1>11, <1>12
       DEF Next, WorkerStep, Misfortune
-----------------------------------------------------------------------------
(* Only an enqueue makes the broker know of a job.                         *)
LEMMA OnlyPushQueues ==
  ASSUME JobInv, [Next]_vars, NEW j \in Jobs, ~Queued(j), Queued(j)'
  PROVE  \E c \in Clients : Push(c) /\ client[c].job = j
  <1> USE DEF JobInv
  <1>1. ASSUME NEW c \in Clients, Push(c)  PROVE client[c].job = j
    <2>1. client[c].job \in Jobs
      BY <1>1 DEF StateTypeOK, Push, NoCall
    <2> QED
      BY <1>1, <2>1 DEF Push, Enqueue, Queued, QueueInv, QueueTypeOK
  <1>2. ASSUME NEW w \in Workers, NEW k \in Jobs, Take(w, k)  PROVE FALSE
    <2>1. k # j
      BY <1>2, TakenIsFree
    <2> QED
      BY <1>2, <2>1 DEF Take, Dequeue, Swept, Queued, Lapsed, Due, QueueInv, QueueTypeOK
  <1>3. ASSUME NEW w \in Workers, Drop(w) \/ Settle(w)  PROVE FALSE
    <2>1. worker[w].pc # "idle" /\ worker[w].job \in Jobs
      BY <1>3 DEF StateTypeOK, Drop, Settle, Idle
    <2>2. lease[worker[w].job] = "live"
      BY <2>1 DEF HoldersAreLeased
    <2> QED
      BY <1>3, <2>1, <2>2
         DEF Drop, Settle, Ack, NackDelayed, Queued, QueueInv, QueueTypeOK
  <1>4. ASSUME NEW k \in Jobs, Time(k) \/ LeaseOverrun(k)  PROVE FALSE
    BY <1>4 DEF Time, DelayPasses, LeaseLapses, LeaseOverrun, Elapse, Queued, QueueInv,
                QueueTypeOK
  <1>5. UNCHANGED queue => FALSE
    BY DEF queue, Queued
  <1>6. ASSUME NEW c \in Clients, NEW k \in Jobs, Request(c, k)  PROVE UNCHANGED queue
    BY <1>6 DEF Request, Create, CancelLoad, RetryLoad
  <1>7. ASSUME NEW c \in Clients, CancelFlag(c) \/ CancelCommit(c) \/ RetryCommit(c) \/ RequestDies(c)
        PROVE  UNCHANGED queue
    BY <1>7 DEF CancelFlag, CancelCommit, RetryCommit, RequestDies
  <1>8. ASSUME NEW w \in Workers, WorkerStep(w), ~Drop(w), ~Settle(w)  PROVE UNCHANGED queue
    BY <1>8 DEF WorkerStep, Load, Start, StartRejected, Refresh, HandlerReturns,
                HandlerCancelled, HandlerRaises, Complete, CompleteRejected, Reload,
                Cancel, Schedule, Bury, Commit, MarkRejected, Escape
  <1>9. ASSUME NEW w \in Workers, Crash(w) \/ \E retryable \in BOOLEAN : SettleFails(w, retryable)
        PROVE  UNCHANGED queue
    BY <1>9 DEF Crash, SettleFails, Escape
  <1>10. UNCHANGED vars => UNCHANGED queue
    BY DEF vars, queue
  <1> QED
    BY <1>1, <1>2, <1>3, <1>4, <1>5, <1>6, <1>7, <1>8, <1>9, <1>10
       DEF Next, ClientStep, Misfortune

(* A row, once there, stays.                                               *)
LEMMA RowsStay ==
  ASSUME JobInv, [Next]_vars, NEW j \in Jobs, rows[j] # NoRow  PROVE rows'[j] # NoRow
  <1>1. \A k \in Jobs, s \in Statuses, n \in Nat :
           MarkAs(rows[k], s) # NoRow /\ MarkRunning(rows[k], n) # NoRow
    <2>1. \A row \in Rows : row \in [status : Statuses \cup {"ABSENT"}, attempt : Nat]
      BY DEF Rows, NoRow
    <2>2. \A k \in Jobs : rows[k] \in [status : Statuses \cup {"ABSENT"}, attempt : Nat]
      BY <2>1 DEF JobInv, StateTypeOK
    <2> QED
      BY <2>2 DEF MarkAs, MarkRunning, NoRow, Statuses
  <1>2. NewRow # NoRow
    BY DEF NewRow, NoRow
  <1>3. rows \in [Jobs -> Rows]
    BY DEF JobInv, StateTypeOK
  <1>4. ASSUME NEW c \in Clients, NEW k \in Jobs, Request(c, k)  PROVE rows'[j] # NoRow
    BY <1>2, <1>3, <1>4 DEF Request, Create, CancelLoad, RetryLoad
  <1>5. ASSUME NEW c \in Clients, ClientStep(c) \/ RequestDies(c)  PROVE rows'[j] # NoRow
    BY <1>1, <1>3, <1>5 DEF ClientStep, Push, CancelFlag, CancelCommit, RetryCommit, RequestDies,
                            Statuses
  <1>6. ASSUME NEW w \in Workers, Start(w)  PROVE rows'[j] # NoRow
    <2>1. worker[w] \in [pc : WorkerPcs, job : Jobs,
                        status : Statuses \cup {"ABSENT"}, attempt : Nat]
      BY <1>6, BusyTypes DEF Start, Idle, JobInv
    <2> QED
      BY <1>1, <1>3, <1>6, <2>1 DEF Start, Statuses
  <1>7. ASSUME NEW w \in Workers, Complete(w) \/ Cancel(w) \/ Schedule(w) \/ Bury(w)
        PROVE  rows'[j] # NoRow
    BY <1>1, <1>3, <1>7 DEF Complete, Cancel, Schedule, Bury, Commit, Statuses
  <1>8. ASSUME NEW w \in Workers, WorkerStep(w), ~Start(w),
               ~(Complete(w) \/ Cancel(w) \/ Schedule(w) \/ Bury(w))
        PROVE  rows' = rows
    BY <1>8 DEF WorkerStep, Load, Drop, StartRejected, Refresh, HandlerReturns,
                HandlerCancelled, HandlerRaises, CompleteRejected, Reload, MarkRejected,
                Escape, Settle
  <1>9. ASSUME NEW w \in Workers, NEW k \in Jobs, Take(w, k)  PROVE rows' = rows
    BY <1>9 DEF Take
  <1>10. ASSUME NEW k \in Jobs, Time(k) \/ LeaseOverrun(k)  PROVE rows' = rows
    BY <1>10 DEF Time, DelayPasses, LeaseLapses, LeaseOverrun
  <1>11. ASSUME NEW w \in Workers, Crash(w) \/ \E retryable \in BOOLEAN : SettleFails(w, retryable)
         PROVE  rows' = rows
    BY <1>11 DEF Crash, SettleFails, Escape
  <1>12. UNCHANGED vars => rows' = rows
    BY DEF vars
  <1> QED
    BY <1>4, <1>5, <1>6, <1>7, <1>8, <1>9, <1>10, <1>11, <1>12 DEF Next, Misfortune

(* One request at a time is about to enqueue a job, and no one else has.   *)
LEMMA StepKeepsUnqueued ==
  ASSUME Calm, JobInv, [Next]_vars  PROVE Unqueued'
  <1>1. \A j \in Jobs : Queued(j)' => Queued(j) \/ \E c \in Clients : Push(c) /\ client[c].job = j
    BY OnlyPushQueues
  <1>2. \A j \in Jobs : rows'[j] = NoRow => rows[j] = NoRow
    BY RowsStay
  <1>3. client \in [Clients -> {NoCall} \cup [pc : ClientPcs, job : Jobs, status : Statuses]]
        /\ NoCall.pc = "idle" /\ NoCall.job \notin Jobs
        /\ \A c \in Clients : client[c].pc # "idle" => client[c].job \in Jobs
    BY JobSystemAssumption DEF JobInv, StateTypeOK, NoCall
  <1>4. CASE client' = client
    <2>1. \A c \in Clients : ~Push(c)
      BY <1>3, <1>4 DEF Push
    <2> QED
      BY <1>1, <1>2, <1>3, <1>4, <2>1 DEF JobInv, Unqueued
  <1>5. ASSUME NEW c \in Clients, Push(c)  PROVE Unqueued'
    <2>1. client' = [client EXCEPT ![c] = NoCall] /\ client[c].pc = "push" /\ client[c].job \in Jobs
      BY <1>3, <1>5 DEF Push
    <2>2. \A j \in Jobs : Queued(j)' => Queued(j) \/ client[c].job = j
      BY <1>3, <1>5, <2>1 DEF Push, Enqueue, Queued, JobInv, QueueInv, QueueTypeOK
    <2>3. \A d \in Clients : d # c => client'[d] = client[d]
      BY <1>3, <2>1
    <2>4. client'[c] = NoCall /\ \A d \in Clients : client'[d].pc = "push" => d # c
      BY <1>3, <2>1
    <2>5. \A d \in Clients : client[d].pc = "push" /\ d # c => client[d].job # client[c].job
      BY <2>1 DEF JobInv, Unqueued
    <2>6. rows[client[c].job] # NoRow
      BY <2>1 DEF JobInv, Unqueued
    <2>7. \A d \in Clients : client'[d].pc = "push" => ~Queued(client[d].job)'
      BY <1>3, <2>2, <2>3, <2>4, <2>5 DEF JobInv, Unqueued, Queued
    <2>8. \A j \in Jobs : rows'[j] = NoRow =>
             ~Queued(j)' /\ \A d \in Clients : client'[d].job # j
      BY <1>2, <1>3, <2>2, <2>3, <2>4, <2>6 DEF JobInv, Unqueued
    <2> QED
      BY <1>3, <2>3, <2>4, <2>7, <2>8 DEF JobInv, Unqueued
  <1>6. ASSUME NEW c \in Clients, NEW j \in Jobs, Create(c, j)  PROVE Unqueued'
    <2>1. /\ client[c] = NoCall /\ rows[j] = NoRow
          /\ client' = [client EXCEPT ![c] = [pc |-> "push", job |-> j, status |-> "QUEUED"]]
          /\ rows'[j] # NoRow
      BY <1>6 DEF Create, JobInv, StateTypeOK, NewRow, NoRow
    <2>2. \A k \in Jobs : Queued(k)' <=> Queued(k)
      BY <1>6 DEF Create, queue, Queued
    <2>3. ~Queued(j) /\ \A d \in Clients : client[d].job # j
      BY <2>1 DEF JobInv, Unqueued
    <2> QED
      BY <1>2, <1>3, <2>1, <2>2, <2>3 DEF JobInv, Unqueued
  <1>7. ASSUME NEW c \in Clients, NEW j \in Jobs, CancelLoad(c, j)  PROVE Unqueued'
    <2>1. /\ client' = [client EXCEPT ![c] =
                          [pc |-> "cancel", job |-> j, status |-> rows[j].status]]
          /\ rows' = rows /\ rows[j] # NoRow
      BY <1>7 DEF CancelLoad, Active, NoRow
    <2>2. \A k \in Jobs : Queued(k)' <=> Queued(k)
      BY <1>7 DEF CancelLoad, queue, Queued
    <2> QED
      BY <1>3, <2>1, <2>2 DEF JobInv, Unqueued
  <1>8. ASSUME NEW c \in Clients, CancelFlag(c) \/ CancelCommit(c) \/ RequestDies(c)  PROVE Unqueued'
    <2>1. \A d \in Clients :
             \/ client'[d] = client[d]
             \/ client'[d] = NoCall
             \/ client'[d].pc = "flagged" /\ client'[d].job = client[d].job
      BY <1>3, <1>8 DEF CancelFlag, CancelCommit, RequestDies
    <2>2. \A k \in Jobs : Queued(k)' <=> Queued(k)
      BY <1>8 DEF CancelFlag, CancelCommit, RequestDies, queue, Queued
    <2> QED
      BY <1>2, <1>3, <2>1, <2>2 DEF JobInv, Unqueued
  <1>9. ASSUME NEW c \in Clients,
               RetryCommit(c) \/ \E j \in Jobs, force \in BOOLEAN : RetryLoad(c, j, force)
        PROVE  FALSE
    BY <1>9 DEF RetryCommit, RetryLoad, Spend, Calm, JobInv, StateTypeOK, Unqueued
  <1>10. ASSUME NEW w \in Workers, WorkerStep(w) \/ \E j \in Jobs : Take(w, j)  PROVE client' = client
    BY <1>10 DEF WorkerStep, Load, Drop, Start, StartRejected, Refresh, HandlerReturns,
                 HandlerCancelled, HandlerRaises, Complete, CompleteRejected, Reload,
                 Cancel, Schedule, Bury, Commit, MarkRejected, Escape, Settle, Take
  <1>11. ASSUME NEW w \in Workers, Crash(w) \/ \E retryable \in BOOLEAN : SettleFails(w, retryable)
         PROVE  client' = client
    BY <1>11 DEF Crash, SettleFails, Escape
  <1>12. ASSUME NEW j \in Jobs, Time(j) \/ LeaseOverrun(j)  PROVE client' = client
    BY <1>12 DEF Time, DelayPasses, LeaseLapses, LeaseOverrun
  <1>13. UNCHANGED vars => client' = client
    BY DEF vars
  <1> QED
    BY <1>4, <1>5, <1>6, <1>7, <1>8, <1>9, <1>10, <1>11, <1>12, <1>13
       DEF Next, ClientStep, Request, Misfortune
-----------------------------------------------------------------------------
LEMMA StepKeepsInv == ASSUME Calm, JobInv, [Next]_vars  PROVE JobInv'
  <1>1. QueueInv'
    BY StepIsDutiful, QueueNextInv DEF JobInv
  <1> QED
    BY <1>1, StepKeepsTypes, StepKeepsHolders, StepKeepsUnqueued DEF JobInv

(* While leases outlast executions (visibility_timeout_seconds = 300) and  *)
(* nobody retries by hand, the job system is a dutiful client of the       *)
(* broker, however many workers crash and settling calls fail: dispatch    *)
(* enqueues a job once (dispatcher.py:102-104), and a worker acknowledges  *)
(* or returns only what it has reserved (worker.py:217-283).               *)
THEOREM JobSystemIsDutiful == Calm /\ Spec => DutifulClients
  <1> SUFFICES ASSUME Calm  PROVE Spec => DutifulClients
    OBVIOUS
  <1>1. JobInv /\ [Next]_vars => JobInv'
    BY StepKeepsInv
  <1>2. JobInv /\ [Next]_vars => [QueueNext]_queue
    BY StepIsDutiful
  <1>3. Init => QueueInit
    BY DEF Init
  <1> QED
    BY InitInv, <1>1, <1>2, <1>3, PTL DEF Spec, DutifulClients, QueueSpec

(* The rows, the broker, the ORM objects and the counters stay well-typed. *)
THEOREM JobSystemTypes == Calm /\ Spec => []JobTypeOK
  <1> SUFFICES ASSUME Calm  PROVE Spec => []JobTypeOK
    OBVIOUS
  <1>1. JobInv /\ [Next]_vars => JobInv'
    BY StepKeepsInv
  <1>2. JobInv => JobTypeOK
    BY DEF JobInv, JobTypeOK, StateTypeOK, QueueInv
  <1> QED
    BY InitInv, <1>1, <1>2, PTL DEF Spec

(* And no job is ever executed by two workers at once: nothing in          *)
(* worker.py checks that, it follows from the leases.                      *)
THEOREM ExclusiveExecution == Calm /\ Spec => []SingleExecutor
  <1> SUFFICES ASSUME Calm  PROVE Spec => []SingleExecutor
    OBVIOUS
  <1>1. JobInv /\ [Next]_vars => JobInv'
    BY StepKeepsInv
  <1>2. JobInv => SingleExecutor
    BY DEF JobInv
  <1> QED
    BY InitInv, <1>1, <1>2, PTL DEF Spec

(* A worker at work on a job has its reservation: if it vanishes now, the  *)
(* lease lapses and the job is handed out again.                           *)
THEOREM ExecutionsAreLeased == Calm /\ Spec => []HoldersAreLeased
  <1> SUFFICES ASSUME Calm  PROVE Spec => []HoldersAreLeased
    OBVIOUS
  <1>1. JobInv /\ [Next]_vars => JobInv'
    BY StepKeepsInv
  <1>2. JobInv => HoldersAreLeased
    BY DEF JobInv
  <1> QED
    BY InitInv, <1>1, <1>2, PTL DEF Spec
-----------------------------------------------------------------------------
(***************************************************************************)
(* What becomes of jobs: the attempts of a job are bounded, its row follows*)
(* the transition graph, it is dead-lettered for a reason and never lost.  *)
(* All of it rests on one fact, which exclusive execution gives: the ORM   *)
(* object of a worker is the only one that writes the row of its job,      *)
(* cancellations apart, so that the object and the row agree although      *)
(* nothing keeps the object fresh.                                         *)
(***************************************************************************)
Startable == {"QUEUED", "RETRY_SCHEDULED"}

(* A row, and how often its handler has run.                               *)
Soundly(row, n) ==
    /\ row.status # "FAILED"
    /\ row.attempt <= MaxAttempts /\ n <= row.attempt
    /\ row.status \in Startable => row.attempt < MaxAttempts

(* The object of an execution agrees with the row, except that the row may *)
(* have been cancelled since; and what its place in _execute_job says of   *)
(* its status and attempt.                                                 *)
Agrees(x, row, n) ==
    /\ x.pc \notin {"idle", "load", "drop", "refresh"} =>
          row.status \in {x.status, "CANCELLED"} /\ row.attempt = x.attempt
          /\ x.status \notin {"ABSENT", "FAILED"}
    /\ x.pc = "start" /\ x.status \in Startable => x.attempt < MaxAttempts
    /\ x.pc = "refresh" =>
          row.status \in {"RUNNING", "CANCELLED"} /\ row.attempt = x.attempt + 1 /\ n <= x.attempt
    /\ x.pc = "schedule" => x.attempt < MaxAttempts
    /\ x.pc \in {"run", "complete", "cancel"} => x.status \in {"RUNNING", "CANCELLED"}
    /\ x.pc \in {"reload", "done"} => x.status \in {"COMPLETED", "CANCELLED"}
    /\ x.pc = "ack" => x.status \in {"CANCELLED", "DEAD_LETTER"}
    /\ x.pc = "nack" => x.status = "RETRY_SCHEDULED"

RowsSound == \A j \in Jobs : Soundly(rows[j], runs[j])
ObjectsAgree ==
    \A w \in Workers : worker[w].pc # "idle" =>
       Agrees(worker[w], rows[worker[w].job], runs[worker[w].job])

OutcomeInv == JobInv /\ RowsSound /\ ObjectsAgree
-----------------------------------------------------------------------------
(* The transition graph, as far as the marks of a worker go along it.      *)
LEMMA Moves ==
  ASSUME NEW s \in Statuses \cup {"ABSENT"}
  PROVE  /\ CanMove(s, "RUNNING") <=> s \in Startable
         /\ CanMove(s, "COMPLETED") <=> s = "RUNNING"
         /\ CanMove(s, "RETRY_SCHEDULED") <=> s = "RUNNING"
         /\ CanMove(s, "CANCELLED") <=> s \in Active
         /\ CanBury(s) <=> s \in {"RUNNING", "FAILED"}
  BY DEF CanMove, CanBury, ALLOWED_TRANSITIONS, Statuses, Startable, Active

(* What the marks leave of a row.                                          *)
LEMMA MarkFields ==
  ASSUME NEW row \in Rows, NEW status \in Statuses, NEW attempt \in Nat
  PROVE  /\ MarkAs(row, status).status = status /\ MarkAs(row, status).attempt = row.attempt
         /\ MarkRunning(row, attempt).status = "RUNNING"
         /\ MarkRunning(row, attempt).attempt = attempt + 1
  BY DEF MarkAs, MarkRunning, Rows, NoRow

(* The steps of an execution under way.                                    *)
Executes(w) == WorkerStep(w) \/ Crash(w) \/ \E retryable \in BOOLEAN : SettleFails(w, retryable)

LEMMA OnlyOwn ==
  ASSUME JobInv, NEW w \in Workers, Executes(w)
  PROVE  /\ worker[w].pc # "idle" /\ worker[w].job \in Jobs
         /\ worker[w] \in [pc : WorkerPcs, job : Jobs,
                          status : Statuses \cup {"ABSENT"}, attempt : Nat]
         /\ \A v \in Workers : v # w => worker'[v] = worker[v]
         /\ worker'[w].pc # "idle" => worker'[w].job = worker[w].job
         /\ \A k \in Jobs : k # worker[w].job => rows'[k] = rows[k] /\ runs'[k] = runs[k]
         /\ client' = client
  <1>1. StateTypeOK
    BY DEF JobInv
  <1>2. worker[w].pc # "idle"
    BY <1>1 DEF Executes, WorkerStep, Load, Drop, Start, StartRejected, Refresh, HandlerReturns,
           HandlerCancelled, HandlerRaises, Complete, CompleteRejected, Reload, Cancel, Schedule,
           Bury, Commit, MarkRejected, Settle, SettleFails, Crash, StateTypeOK, Idle, WorkerPcs
  <1>3. worker[w] \in [pc : WorkerPcs, job : Jobs, status : Statuses \cup {"ABSENT"}, attempt : Nat]
    BY <1>1, <1>2, BusyTypes DEF Idle
  <1>4. \A v \in Workers : v # w => worker'[v] = worker[v]
    BY <1>1 DEF Executes, WorkerStep, Load, Drop, Start, StartRejected, Refresh, HandlerReturns,
           HandlerCancelled, HandlerRaises, Complete, CompleteRejected, Reload, Cancel, Schedule,
           Bury, Commit, MarkRejected, Settle, SettleFails, Crash, GoTo, Leave, Escape, StateTypeOK
  <1>5. worker'[w].pc # "idle" => worker'[w].job = worker[w].job
    BY <1>1, <1>3 DEF Executes, WorkerStep, Load, Drop, Start, StartRejected, Refresh, HandlerReturns,
           HandlerCancelled, HandlerRaises, Complete, CompleteRejected, Reload, Cancel, Schedule,
           Bury, Commit, MarkRejected, Settle, SettleFails, Crash, GoTo, Leave, Escape, StateTypeOK, Idle
  <1>6. \A k \in Jobs : k # worker[w].job => rows'[k] = rows[k] /\ runs'[k] = runs[k]
    BY <1>1, <1>3 DEF Executes, WorkerStep, Load, Drop, Start, StartRejected, Refresh, HandlerReturns,
           HandlerCancelled, HandlerRaises, Complete, CompleteRejected, Reload, Cancel, Schedule,
           Bury, Commit, MarkRejected, Settle, SettleFails, Crash, Escape, StateTypeOK
  <1>7. client' = client
    BY DEF Executes, WorkerStep, Load, Drop, Start, StartRejected, Refresh, HandlerReturns,
           HandlerCancelled, HandlerRaises, Complete, CompleteRejected, Reload, Cancel, Schedule,
           Bury, Commit, MarkRejected, Settle, SettleFails, Crash, Escape
  <1> QED
    BY <1>2, <1>3, <1>4, <1>5, <1>6, <1>7

(* If a step of an execution leaves its own row and object sound, it       *)
(* leaves all of them so: no other worker has the job.                     *)
LEMMA OwnSuffices ==
  ASSUME OutcomeInv, NEW w \in Workers, Executes(w), NEW j \in Jobs, j = worker[w].job,
         Soundly(rows'[j], runs'[j]),
         worker'[w].pc # "idle" => Agrees(worker'[w], rows'[j], runs'[j])
  PROVE  (RowsSound /\ ObjectsAgree)'
  <1>1. RowsSound'
    BY OnlyOwn DEF OutcomeInv, RowsSound
  <1>2. ASSUME NEW v \in Workers, v # w, worker'[v].pc # "idle"
        PROVE  Agrees(worker'[v], rows'[worker'[v].job], runs'[worker'[v].job])
    <2>1. worker'[v] = worker[v] /\ worker[w].pc # "idle"
      BY <1>2, OnlyOwn DEF OutcomeInv
    <2>2. worker[v].job # j /\ worker[v].job \in Jobs
      BY <1>2, <2>1, BusyTypes DEF OutcomeInv, JobInv, SingleExecutor, Holds, Idle
    <2>3. rows'[worker[v].job] = rows[worker[v].job] /\ runs'[worker[v].job] = runs[worker[v].job]
      BY <2>2, OnlyOwn DEF OutcomeInv
    <2> QED
      BY <1>2, <2>1, <2>3 DEF OutcomeInv, ObjectsAgree
  <1>3. worker'[w].pc # "idle" =>
           Agrees(worker'[w], rows'[worker'[w].job], runs'[worker'[w].job])
    BY OnlyOwn DEF OutcomeInv
  <1> QED
    BY <1>1, <1>2, <1>3 DEF ObjectsAgree

(* One step of an execution, by where it is in _execute_job.               *)
LEMMA ExecutionKeepsOutcome ==
  ASSUME OutcomeInv, NEW w \in Workers, Executes(w)
  PROVE  (RowsSound /\ ObjectsAgree)'
  <1> DEFINE x == worker[w]
             j == worker[w].job
             y == worker'[w]
  <1>1. /\ x.pc # "idle" /\ j \in Jobs
        /\ x \in [pc : WorkerPcs, job : Jobs, status : Statuses \cup {"ABSENT"}, attempt : Nat]
    BY OnlyOwn DEF OutcomeInv
  <1>2. /\ worker \in [Workers -> {Idle} \cup [pc : WorkerPcs, job : Jobs,
                        status : Statuses \cup {"ABSENT"}, attempt : Nat]]
        /\ rows \in [Jobs -> Rows] /\ runs \in [Jobs -> Nat]
        /\ rows[j].status \in Statuses \cup {"ABSENT"} /\ rows[j].attempt \in Nat
        /\ runs[j] \in Nat /\ rows[j] \in Rows
    BY <1>1, BusyTypes DEF OutcomeInv, JobInv, StateTypeOK
  <1>3. Soundly(rows[j], runs[j]) /\ Agrees(x, rows[j], runs[j])
    BY <1>1 DEF OutcomeInv, RowsSound, ObjectsAgree
  <1>4. MaxAttempts \in Nat \ {0}
    BY JobSystemAssumption
  <1>5. SUFFICES Soundly(rows'[j], runs'[j]) /\ (y.pc # "idle" => Agrees(y, rows'[j], runs'[j]))
    BY <1>1, OwnSuffices
  <1>6. CASE Load(w)
    <2>1. rows' = rows /\ runs' = runs
      BY <1>6 DEF Load
    <2>2. /\ y.pc \in {"drop", "start"} /\ y.status = rows[j].status /\ y.attempt = rows[j].attempt
          /\ y.pc = "start" => rows[j] # NoRow
      BY <1>2, <1>6 DEF Load
    <2>3. rows[j].status = "ABSENT" => rows[j] = NoRow
      BY <1>2 DEF Rows, NoRow, Statuses
    <2> QED
      BY <1>2, <1>3, <2>1, <2>2, <2>3 DEF Soundly, Agrees, Statuses
  <1>7. CASE Start(w)
    <2>1. /\ x.pc = "start" /\ x.status \in Startable
          /\ rows'[j] = MarkRunning(rows[j], x.attempt) /\ runs' = runs
          /\ y.pc = "refresh" /\ y.attempt = x.attempt
      BY <1>1, <1>2, <1>7, Moves DEF Start, GoTo
    <2>2. rows'[j].status = "RUNNING" /\ rows'[j].attempt = x.attempt + 1
      BY <1>1, <1>2, <2>1, MarkFields DEF Statuses
    <2>3. x.attempt < MaxAttempts /\ x.attempt = rows[j].attempt /\ runs[j] <= x.attempt
      BY <1>3, <2>1 DEF Agrees, Soundly
    <2> QED
      BY <1>1, <1>2, <1>4, <2>1, <2>2, <2>3 DEF Soundly, Agrees, Startable
  <1>8. CASE Refresh(w)
    <2>1. /\ x.pc = "refresh" /\ rows' = rows /\ runs'[j] = runs[j] + 1
          /\ y.pc = "run" /\ y.status = rows[j].status /\ y.attempt = rows[j].attempt
      BY <1>1, <1>2, <1>8 DEF Refresh
    <2> QED
      BY <1>1, <1>2, <1>3, <1>4, <2>1 DEF Soundly, Agrees
  <1>9. CASE Reload(w)
    <2>1. /\ x.pc = "reload" /\ rows' = rows /\ runs' = runs
          /\ y.pc = "done" /\ y.status = rows[j].status /\ y.attempt = rows[j].attempt
      BY <1>1, <1>2, <1>9 DEF Reload
    <2> QED
      BY <1>1, <1>2, <1>3, <2>1 DEF Soundly, Agrees
  <1>10. CASE StartRejected(w) \/ HandlerReturns(w) \/ HandlerCancelled(w) \/ CompleteRejected(w)
    <2>1. /\ rows' = rows /\ runs' = runs /\ y.status = x.status /\ y.attempt = x.attempt
          /\ \/ x.pc = "start" /\ y.pc = "bury"
             \/ x.pc = "run" /\ y.pc \in {"complete", "cancel"}
             \/ x.pc = "complete" /\ y.pc = "bury"
      BY <1>1, <1>2, <1>10 DEF StartRejected, HandlerReturns, HandlerCancelled, CompleteRejected, GoTo
    <2> QED
      BY <1>1, <1>2, <1>3, <2>1 DEF Soundly, Agrees
  <1>11. CASE \E retryable \in BOOLEAN : HandlerRaises(w, retryable)
    <2>1. /\ rows' = rows /\ runs' = runs /\ y.status = x.status /\ y.attempt = x.attempt
          /\ x.pc = "run" /\ y.pc \in {"schedule", "bury"}
          /\ y.pc = "schedule" => x.attempt < MaxAttempts
      BY <1>1, <1>2, <1>11 DEF HandlerRaises, GoTo
    <2> QED
      BY <1>1, <1>2, <1>3, <2>1 DEF Soundly, Agrees
  <1>12. CASE Complete(w) \/ Cancel(w) \/ Schedule(w) \/ Bury(w)
    <2>1. \E s \in Statuses :
             /\ rows'[j] = MarkAs(rows[j], s) /\ runs' = runs
             /\ y.status = s /\ y.attempt = x.attempt
             /\ \/ x.pc = "complete" /\ y.pc = "reload" /\ s = "COMPLETED"
                \/ x.pc = "cancel" /\ y.pc = "ack" /\ s = "CANCELLED"
                \/ x.pc = "schedule" /\ y.pc = "nack" /\ s = "RETRY_SCHEDULED"
                \/ x.pc = "bury" /\ y.pc = "ack" /\ s = "DEAD_LETTER"
      BY <1>1, <1>2, <1>12 DEF Complete, Cancel, Schedule, Bury, Commit, Statuses
    <2>2. PICK s \in Statuses : <2>1!(s)
      BY <2>1
    <2>3. rows'[j].status = s /\ rows'[j].attempt = rows[j].attempt
      BY <1>1, <1>2, <2>2, MarkFields
    <2> QED
      BY <1>1, <1>2, <1>3, <1>4, <2>2, <2>3 DEF Soundly, Agrees, Startable
  <1>13. CASE Drop(w) \/ MarkRejected(w) \/ Settle(w) \/ Crash(w)
    <2>1. rows' = rows /\ runs' = runs /\ y = Idle
      BY <1>2, <1>13 DEF Drop, MarkRejected, Settle, Crash, Escape, Leave
    <2> QED
      BY <1>3, <2>1 DEF Idle
  <1>14. CASE \E retryable \in BOOLEAN : SettleFails(w, retryable)
    <2>1. rows' = rows /\ runs' = runs
      BY <1>14 DEF SettleFails, Escape
    <2>2. \/ y = Idle
          \/ /\ x.pc = "done" /\ y.pc \in {"schedule", "bury"}
             /\ y.status = x.status /\ y.attempt = x.attempt
             /\ y.pc = "schedule" => x.attempt < MaxAttempts
      BY <1>1, <1>2, <1>14 DEF SettleFails, Escape, Leave, GoTo
    <2> QED
      BY <1>1, <1>2, <1>3, <2>1, <2>2 DEF Soundly, Agrees, Idle
  <1> QED
    BY <1>6, <1>7, <1>8, <1>9, <1>10, <1>11, <1>12, <1>13, <1>14 DEF Executes, WorkerStep

(* Steps that write no row and move no execution.                          *)
Aside == UNCHANGED <<rows, worker, runs>>

LEMMA StepKinds ==
  ASSUME Calm, JobInv, [Next]_vars
  PROVE  \/ \E w \in Workers : Executes(w)
         \/ \E w \in Workers, j \in Jobs : Take(w, j)
         \/ \E c \in Clients, j \in Jobs : Create(c, j)
         \/ \E c \in Clients : CancelCommit(c)
         \/ Aside
  <1>1. ASSUME NEW c \in Clients, RetryCommit(c)  PROVE FALSE
    BY <1>1 DEF RetryCommit, JobInv, Unqueued
  <1>2. ASSUME NEW c \in Clients,
               \/ Push(c) \/ CancelFlag(c) \/ RequestDies(c)
               \/ \E j \in Jobs : CancelLoad(c, j) \/ \E force \in BOOLEAN : RetryLoad(c, j, force)
        PROVE  Aside
    BY <1>2 DEF Push, CancelFlag, RequestDies, CancelLoad, RetryLoad, Aside
  <1>3. ASSUME NEW j \in Jobs, Time(j) \/ LeaseOverrun(j)  PROVE Aside
    BY <1>3 DEF Time, DelayPasses, LeaseLapses, LeaseOverrun, Aside
  <1>4. CASE UNCHANGED vars
    BY <1>4 DEF vars, Aside
  <1> QED
    BY <1>1, <1>2, <1>3, <1>4 DEF Next, ClientStep, Request, Misfortune, Executes

LEMMA InitOutcome == Init => OutcomeInv
  <1> SUFFICES ASSUME Init  PROVE RowsSound /\ ObjectsAgree
    BY InitInv DEF OutcomeInv
  <1> QED
    BY JobSystemAssumption
       DEF Init, RowsSound, ObjectsAgree, Soundly, Agrees, NoRow, Idle, Startable

LEMMA StepKeepsOutcome ==
  ASSUME Calm, OutcomeInv, [Next]_vars  PROVE OutcomeInv'
  <1>1. JobInv'
    BY StepKeepsInv DEF OutcomeInv
  <1>2. /\ worker \in [Workers -> {Idle} \cup [pc : WorkerPcs, job : Jobs,
                        status : Statuses \cup {"ABSENT"}, attempt : Nat]]
        /\ rows \in [Jobs -> Rows] /\ runs \in [Jobs -> Nat]
    BY DEF OutcomeInv, JobInv, StateTypeOK
  <1>3. ASSUME NEW w \in Workers, Executes(w)  PROVE (RowsSound /\ ObjectsAgree)'
    BY <1>3, ExecutionKeepsOutcome
  <1>4. ASSUME NEW w \in Workers, NEW j \in Jobs, Take(w, j)  PROVE (RowsSound /\ ObjectsAgree)'
    <2>1. /\ rows' = rows /\ runs' = runs /\ worker'[w].pc = "load"
          /\ \A v \in Workers : v # w => worker'[v] = worker[v]
      BY <1>2, <1>4 DEF Take, Idle
    <2>2. \A row, n : Agrees(worker'[w], row, n)
      BY <2>1 DEF Agrees
    <2> QED
      BY <2>1, <2>2 DEF OutcomeInv, RowsSound, ObjectsAgree
  <1>5. ASSUME NEW c \in Clients, NEW j \in Jobs, Create(c, j)  PROVE (RowsSound /\ ObjectsAgree)'
    <2>1. /\ rows[j] = NoRow /\ worker' = worker /\ runs' = runs
          /\ rows'[j] = NewRow /\ \A k \in Jobs : k # j => rows'[k] = rows[k]
      BY <1>2, <1>5 DEF Create
    <2>2. ~Held(j)
      BY <2>1 DEF OutcomeInv, JobInv, Unqueued, HoldersAreLeased, Queued, Held, Holds
    <2>3. Soundly(NewRow, runs[j])
      BY <1>2, <2>1, JobSystemAssumption DEF OutcomeInv, RowsSound, Soundly, NoRow, NewRow
    <2>4. RowsSound'
      BY <2>1, <2>3 DEF OutcomeInv, RowsSound
    <2>5. \A w \in Workers : worker[w].pc # "idle" => worker[w].job \in Jobs /\ worker[w].job # j
      BY <1>2, <2>2 DEF Held, Holds, Idle
    <2>6. ObjectsAgree'
      BY <2>1, <2>5 DEF OutcomeInv, ObjectsAgree
    <2> QED
      BY <2>4, <2>6
  <1>6. ASSUME NEW c \in Clients, CancelCommit(c)  PROVE (RowsSound /\ ObjectsAgree)'
    <2>1. /\ worker' = worker /\ runs' = runs
          /\ \A k \in Jobs :
                \/ rows'[k] = rows[k]
                \/ rows'[k] = MarkAs(rows[k], "CANCELLED")
      BY <1>2, <1>6 DEF CancelCommit
    <2>2. \A k \in Jobs : rows'[k].attempt = rows[k].attempt
                          /\ rows'[k].status \in {rows[k].status, "CANCELLED"}
      BY <1>2, <2>1, MarkFields DEF Statuses
    <2>3. RowsSound'
      BY <1>2, <2>1, <2>2 DEF OutcomeInv, RowsSound, Soundly, Startable
    <2>4. \A w \in Workers : worker[w].pc # "idle" => worker[w].job \in Jobs
      BY <1>2 DEF Idle
    <2>5. ASSUME NEW w \in Workers, worker'[w].pc # "idle"
          PROVE  Agrees(worker'[w], rows'[worker'[w].job], runs'[worker'[w].job])
      <3>1. worker'[w] = worker[w] /\ worker[w].job \in Jobs
            /\ Agrees(worker[w], rows[worker[w].job], runs[worker[w].job])
        BY <2>1, <2>4, <2>5 DEF OutcomeInv, ObjectsAgree
      <3> QED
        BY <2>1, <2>2, <3>1 DEF Agrees
    <2>6. ObjectsAgree'
      BY <2>5 DEF ObjectsAgree
    <2> QED
      BY <2>3, <2>6
  <1>7. CASE Aside
    <2>1. rows' = rows /\ worker' = worker /\ runs' = runs
      BY <1>7 DEF Aside
    <2>2. RowsSound'
      BY <2>1 DEF OutcomeInv, RowsSound, Soundly
    <2>3. ObjectsAgree'
      BY <2>1 DEF OutcomeInv, ObjectsAgree, Agrees
    <2> QED
      BY <1>1, <2>2, <2>3 DEF OutcomeInv
  <1> QED
    BY <1>1, <1>3, <1>4, <1>5, <1>6, <1>7, StepKinds DEF OutcomeInv

(* Only a request makes a cancellation: without one nothing is flagged,    *)
(* and neither a row nor an execution is cancelled.                        *)
CancelsAreCounted ==
    /\ spent.cancel <= MaxCancels
    /\ \A c \in Clients : client[c].pc \in {"cancel", "flagged"} => client[c].status \in Active
    /\ spent.cancel = 0 =>
          /\ registry = {}
          /\ \A c \in Clients : client[c].pc \notin {"cancel", "flagged"}
          /\ \A w \in Workers : worker[w].pc # "cancel"
          /\ \A j \in Jobs : rows[j].status # "CANCELLED"
GraphInv == OutcomeInv /\ CancelsAreCounted

LEMMA InitGraph == Init => GraphInv
  <1> SUFFICES ASSUME Init  PROVE CancelsAreCounted
    BY InitOutcome DEF GraphInv
  <1> QED
    BY JobSystemAssumption DEF Init, CancelsAreCounted, NoRow, NoCall, Idle

LEMMA StepCountsCancels ==
  ASSUME Calm, GraphInv, [Next]_vars  PROVE CancelsAreCounted'
  <1>1. /\ worker \in [Workers -> {Idle} \cup [pc : WorkerPcs, job : Jobs,
                        status : Statuses \cup {"ABSENT"}, attempt : Nat]]
        /\ client \in [Clients -> {NoCall} \cup [pc : ClientPcs, job : Jobs, status : Statuses]]
        /\ rows \in [Jobs -> Rows]
        /\ spent \in [{"crash", "overrun", "fault", "death", "cancel", "retry"} -> Nat]
    BY DEF GraphInv, OutcomeInv, JobInv, StateTypeOK
  <1>2. ASSUME NEW w \in Workers, Executes(w)  PROVE CancelsAreCounted'
    <2>1. /\ client' = client /\ spent'.cancel = spent.cancel /\ registry' \subseteq registry
          /\ \A v \in Workers : v # w => worker'[v] = worker[v]
          /\ \A j \in Jobs : j # worker[w].job => rows'[j] = rows[j]
          /\ worker[w].job \in Jobs /\ worker[w].pc # "idle"
      <3>1. client' = client /\ spent'.cancel = spent.cancel
        BY <1>1, <1>2
           DEF Executes, WorkerStep, Load, Drop, Start, StartRejected, Refresh, HandlerReturns,
               HandlerCancelled, HandlerRaises, Complete, CompleteRejected, Reload, Cancel, Schedule,
               Bury, Commit, MarkRejected, Settle, SettleFails, Crash, Escape, Spend
      <3>2. registry' \subseteq registry
        BY <1>2
           DEF Executes, WorkerStep, Load, Drop, Start, StartRejected, Refresh, HandlerReturns,
               HandlerCancelled, HandlerRaises, Complete, CompleteRejected, Reload, Cancel, Schedule,
               Bury, Commit, MarkRejected, Settle, SettleFails, Crash, Escape, Unflag
      <3> QED
        BY <1>2, <3>1, <3>2, OnlyOwn DEF GraphInv, OutcomeInv
    <2>2. ASSUME spent.cancel = 0
          PROVE  worker'[w].pc # "cancel" /\ rows'[worker[w].job].status # "CANCELLED"
      <3>1. worker[w].pc # "cancel" /\ rows[worker[w].job].status # "CANCELLED" /\ ~Flagged(worker[w].job)
            /\ rows[worker[w].job] \in Rows
        BY <1>1, <2>1, <2>2 DEF GraphInv, CancelsAreCounted, Flagged
      <3>2. worker'[w].pc # "cancel"
        BY <1>1, <1>2, <3>1
           DEF Executes, WorkerStep, Load, Drop, Start, StartRejected, Refresh, HandlerReturns,
               HandlerCancelled, HandlerRaises, Complete, CompleteRejected, Reload, Cancel, Schedule,
               Bury, Commit, MarkRejected, Settle, SettleFails, Crash, Escape, Leave, GoTo, Idle
      <3>3. \/ rows' = rows
            \/ rows'[worker[w].job] = MarkRunning(rows[worker[w].job], worker[w].attempt)
            \/ \E s \in Statuses \ {"CANCELLED"} : rows'[worker[w].job] = MarkAs(rows[worker[w].job], s)
        BY <1>1, <1>2, <2>1, <3>1
           DEF Executes, WorkerStep, Load, Drop, Start, StartRejected, Refresh, HandlerReturns,
               HandlerCancelled, HandlerRaises, Complete, CompleteRejected, Reload, Cancel, Schedule,
               Bury, Commit, MarkRejected, Settle, SettleFails, Crash, Escape, Statuses
      <3> QED
        BY <3>1, <3>2, <3>3 DEF MarkAs, MarkRunning, Rows, NoRow
    <2> QED
      BY <2>1, <2>2 DEF GraphInv, CancelsAreCounted
  <1>3. ASSUME NEW w \in Workers, NEW k \in Jobs, Take(w, k)  PROVE CancelsAreCounted'
    <2>1. /\ rows' = rows /\ client' = client /\ registry' = registry /\ spent' = spent
          /\ \A v \in Workers : worker'[v] = worker[v] \/ worker'[v].pc = "load"
      BY <1>1, <1>3 DEF Take, Idle
    <2> QED
      BY <2>1 DEF GraphInv, CancelsAreCounted
  <1>4. ASSUME NEW c \in Clients, NEW k \in Jobs, CancelLoad(c, k)  PROVE CancelsAreCounted'
    <2>1. /\ spent'.cancel = spent.cancel + 1 /\ spent.cancel < MaxCancels
          /\ \A d \in Clients : client'[d] = client[d] \/ client'[d].status \in Active
      BY <1>1, <1>4 DEF CancelLoad, Spend
    <2> QED
      BY <1>1, <2>1, JobSystemAssumption DEF GraphInv, CancelsAreCounted
  <1>5. ASSUME NEW c \in Clients, CancelFlag(c) \/ CancelCommit(c)  PROVE CancelsAreCounted'
    <2>1. /\ spent.cancel # 0 /\ spent' = spent
          /\ \A d \in Clients : client'[d].status = client[d].status \/ client'[d].pc = "idle"
      BY <1>1, <1>5 DEF CancelFlag, CancelCommit, NoCall, GraphInv, CancelsAreCounted
    <2>2. \A d \in Clients : client'[d].pc \in {"cancel", "flagged"} => client[d].pc \in {"cancel", "flagged"}
      BY <1>1, <1>5 DEF CancelFlag, CancelCommit, NoCall
    <2> QED
      BY <2>1, <2>2 DEF GraphInv, CancelsAreCounted
  <1>6. ASSUME NEW c \in Clients, Push(c) \/ RequestDies(c) \/
                  \E k \in Jobs : Create(c, k) \/ \E force \in BOOLEAN : RetryLoad(c, k, force)
        PROVE  CancelsAreCounted'
    <2>1. /\ worker' = worker /\ registry' = registry /\ spent'.cancel = spent.cancel
          /\ \A d \in Clients : client'[d] = client[d] \/ client'[d].pc \notin {"cancel", "flagged"}
      BY <1>1, <1>6 DEF Push, RequestDies, Create, RetryLoad, Spend, NoCall
    <2>2. \A j \in Jobs : rows'[j] = rows[j] \/ rows'[j] = NewRow
      BY <1>1, <1>6 DEF Push, RequestDies, Create, RetryLoad
    <2> QED
      BY <2>1, <2>2 DEF GraphInv, CancelsAreCounted, NewRow
  <1>7. ASSUME NEW c \in Clients, RetryCommit(c)  PROVE FALSE
    BY <1>7 DEF RetryCommit, GraphInv, OutcomeInv, JobInv, Unqueued
  <1>8. ASSUME NEW j \in Jobs, Time(j) \/ LeaseOverrun(j)  PROVE CancelsAreCounted'
    <2>1. /\ rows' = rows /\ worker' = worker /\ client' = client /\ registry' = registry
          /\ spent'.cancel = spent.cancel
      BY <1>1, <1>8 DEF Time, DelayPasses, LeaseLapses, LeaseOverrun, Spend
    <2> QED
      BY <2>1 DEF GraphInv, CancelsAreCounted
  <1>9. CASE UNCHANGED vars
    BY <1>9 DEF vars, GraphInv, CancelsAreCounted
  <1> QED
    BY <1>2, <1>3, <1>4, <1>5, <1>6, <1>7, <1>8, <1>9
       DEF Next, ClientStep, Request, Misfortune, Executes

(* A step of an execution that moves its row: the object tells from where, *)
(* unless a cancellation came in between.                                  *)
LEMMA StepIsLegal ==
  ASSUME Calm, GraphInv, [Next]_vars  PROVE \A j \in Jobs : LegalTransition(j)
  <1>1. ASSUME NEW w \in Workers, Executes(w), NEW j \in Jobs  PROVE LegalTransition(j)
    <2> DEFINE x == worker[w]
    <2>1. /\ x.pc # "idle" /\ x.job \in Jobs
          /\ x \in [pc : WorkerPcs, job : Jobs, status : Statuses \cup {"ABSENT"}, attempt : Nat]
          /\ \A v \in Workers : v # w => worker'[v] = worker[v]
          /\ worker'[w].pc # "idle" => worker'[w].job = x.job
          /\ j # x.job => rows'[j] = rows[j]
      BY <1>1, OnlyOwn DEF GraphInv, OutcomeInv
    <2>2. CASE j # x.job
      BY <2>1, <2>2 DEF LegalTransition, Edge, Unstarted, Holds
    <2>3. CASE j = x.job
      <3>1. /\ worker \in [Workers -> {Idle} \cup [pc : WorkerPcs, job : Jobs,
                        status : Statuses \cup {"ABSENT"}, attempt : Nat]]
            /\ rows \in [Jobs -> Rows] /\ rows[j] \in Rows
            /\ rows[j].status \in Statuses \cup {"ABSENT"}
        BY BusyTypes DEF GraphInv, OutcomeInv, JobInv, StateTypeOK
      <3>2. Agrees(x, rows[j], runs[j])
        BY <2>1, <2>3 DEF GraphInv, OutcomeInv, ObjectsAgree
      <3>3. \A v \in Workers : v # w => ~Holds(v, j)
        BY <2>1, <2>3 DEF GraphInv, OutcomeInv, JobInv, SingleExecutor, Holds
      <3>3a. Holds(w, j) /\ (rows[j].status = "CANCELLED" => spent.cancel > 0)
        BY <2>1, <2>3 DEF Holds, GraphInv, CancelsAreCounted, OutcomeInv, JobInv, StateTypeOK
      <3>4. Unstarted(j) <=> x.pc \in {"load", "drop"}
        BY <2>1, <2>3, <3>3 DEF Unstarted, Holds
      <3>5. Unstarted(j)' <=> (worker'[w].pc # "idle" => worker'[w].pc \in {"load", "drop"})
        BY <2>1, <2>3, <3>3 DEF Unstarted, Holds
      <3>6. CASE Load(w)
        <4>1. rows' = rows /\ (rows[j].status = "CANCELLED" => worker'[w].pc = "drop")
          BY <2>3, <3>1, <3>6 DEF Load
        <4> QED
          BY <3>5, <4>1 DEF LegalTransition, Edge
      <3>7. CASE Start(w)
        <4>1. x.status \in Startable /\ x.pc = "start" /\ rows'[j] = MarkRunning(rows[j], x.attempt)
          BY <2>1, <2>3, <3>1, <3>7, Moves DEF Start
        <4>2. rows'[j].status = "RUNNING"
          BY <2>1, <3>1, <4>1, MarkFields DEF Statuses
        <4>3. CanMove(x.status, "RUNNING")
          BY <2>1, <4>1, Moves
        <4>4. rows[j].status = x.status \/ (rows[j].status = "CANCELLED" /\ x.status \in Active)
          BY <3>2, <4>1 DEF Agrees, Startable, Active
        <4> QED
          BY <3>3a, <3>4, <4>1, <4>2, <4>3, <4>4 DEF LegalTransition, Overtaken, Edge
      <3>8. CASE Complete(w) \/ Cancel(w) \/ Schedule(w) \/ Bury(w)
        <4>1. \E s \in Statuses :
                 /\ rows'[j] = MarkAs(rows[j], s) /\ x.pc \in {"complete", "cancel", "schedule", "bury"}
                 /\ x.status \in Active \cup {"FAILED"}
                 /\ CanMove(x.status, s) \/ (s = "DEAD_LETTER" /\ x.status \in {"RUNNING", "FAILED"})
          BY <2>1, <2>3, <3>1, <3>8, Moves
             DEF Complete, Cancel, Schedule, Bury, Commit, Statuses, Active
        <4>2. PICK s \in Statuses : <4>1!(s)
          BY <4>1
        <4>3. rows'[j].status = s
          BY <3>1, <4>2, MarkFields
        <4>4. x.status # "FAILED"
          BY <3>2, <4>2 DEF Agrees
        <4>5. Edge(x.status, s)
          BY <4>2, <4>4 DEF Edge
        <4>6. rows[j].status = x.status \/ rows[j].status = "CANCELLED"
          BY <3>2, <4>2 DEF Agrees
        <4>7. x.status \in Active
          BY <4>2, <4>4
        <4> QED
          BY <3>3a, <3>4, <4>2, <4>3, <4>5, <4>6, <4>7 DEF LegalTransition, Overtaken
      <3>9. CASE ~(Load(w) \/ Start(w) \/ Complete(w) \/ Cancel(w) \/ Schedule(w) \/ Bury(w))
        <4>1. rows' = rows
          BY <1>1, <3>9 DEF Executes, WorkerStep, Drop, StartRejected, Refresh, HandlerReturns,
             HandlerCancelled, HandlerRaises, CompleteRejected, Reload, MarkRejected, Settle,
             SettleFails, Crash, Escape
        <4>2. x.pc \in {"load", "drop"} => worker'[w].pc = "idle"
          BY <1>1, <2>1, <3>1, <3>9 DEF Executes, WorkerStep, Drop, StartRejected, Refresh,
             HandlerReturns, HandlerCancelled, HandlerRaises, CompleteRejected, Reload, MarkRejected,
             Settle, SettleFails, Crash, Escape, Leave, GoTo, Idle
        <4> QED
          BY <3>4, <3>5, <4>1, <4>2 DEF LegalTransition, Edge
      <3> QED
        BY <3>6, <3>7, <3>8, <3>9
    <2> QED
      BY <2>2, <2>3
  <1>2. ASSUME NEW w \in Workers, NEW k \in Jobs, Take(w, k), NEW j \in Jobs  PROVE LegalTransition(j)
    <2>1. /\ rows' = rows /\ worker'[w].pc = "load"
          /\ \A v \in Workers : v # w => worker'[v] = worker[v]
      BY <1>2 DEF Take, Idle, GraphInv, OutcomeInv, JobInv, StateTypeOK
    <2> QED
      BY <2>1 DEF LegalTransition, Edge, Unstarted, Holds
  <1>3. ASSUME NEW c \in Clients, NEW k \in Jobs, Create(c, k), NEW j \in Jobs  PROVE LegalTransition(j)
    <2>1. worker' = worker /\ (rows'[j] = rows[j] \/ rows[j] = NoRow)
      BY <1>3 DEF Create, GraphInv, OutcomeInv, JobInv, StateTypeOK
    <2> QED
      BY <2>1 DEF LegalTransition, Edge, Unstarted, Holds, NoRow
  <1>4. ASSUME NEW c \in Clients, CancelCommit(c), NEW j \in Jobs  PROVE LegalTransition(j)
    <2>1. worker' = worker /\ (rows'[j] = rows[j] \/ rows'[j] = MarkAs(rows[j], "CANCELLED"))
          /\ rows[j] \in Rows
      BY <1>4 DEF CancelCommit, GraphInv, OutcomeInv, JobInv, StateTypeOK
    <2>2. CASE j # client[c].job
      <3>1. rows'[j] = rows[j]
        BY <1>4, <2>2 DEF CancelCommit, GraphInv, OutcomeInv, JobInv, StateTypeOK
      <3> QED
        BY <2>1, <3>1 DEF LegalTransition, Edge, Unstarted, Holds
    <2>3. CASE j = client[c].job
      <3>1. /\ rows'[j].status \in {rows[j].status, "CANCELLED"}
            /\ client[c].pc = "flagged" /\ client[c].status \in Active /\ spent.cancel > 0
            /\ rows[j].status \in Statuses \cup {"ABSENT"} /\ rows[j].status # "FAILED"
        BY <1>4, <2>1, <2>3, MarkFields, BusyTypes
           DEF CancelCommit, GraphInv, CancelsAreCounted, OutcomeInv, JobInv, StateTypeOK, Statuses,
               RowsSound, Soundly
      <3>2. rows[j].status \in {"QUEUED", "RUNNING", "RETRY_SCHEDULED"} => CanMove(rows[j].status, "CANCELLED")
        BY DEF CanMove, ALLOWED_TRANSITIONS
      <3>3. Edge(rows[j].status, rows'[j].status)
            \/ (rows[j].status \in {"COMPLETED", "DEAD_LETTER"} /\ rows'[j].status = "CANCELLED")
        BY <3>1, <3>2 DEF Edge, Statuses
      <3>4. Unstarted(j)' <=> Unstarted(j)
        BY <2>1 DEF Unstarted, Holds
      <3> QED
        BY <2>3, <3>1, <3>3, <3>4 DEF LegalTransition, Overtaken
    <2> QED
      BY <2>2, <2>3
  <1>5. CASE Aside
    BY <1>5 DEF Aside, LegalTransition, Edge, Unstarted, Holds
  <1> QED
    BY <1>1, <1>2, <1>3, <1>4, <1>5, StepKinds DEF GraphInv, OutcomeInv
-----------------------------------------------------------------------------
(* The attempt counter of the row is charged before each execution of the  *)
(* handler and never exceeds max_attempts (worker.py:235-246), however     *)
(* many executions vanish, settling calls fail and cancellations race.     *)
THEOREM AttemptsBoundExecutions == Calm /\ Spec => []ExecutionsBounded
  <1> SUFFICES ASSUME Calm  PROVE Spec => []ExecutionsBounded
    OBVIOUS
  <1>1. OutcomeInv /\ [Next]_vars => OutcomeInv'
    BY StepKeepsOutcome
  <1>2. OutcomeInv => ExecutionsBounded
    <2> SUFFICES ASSUME OutcomeInv, NEW j \in Jobs
                 PROVE  runs[j] <= rows[j].attempt /\ runs[j] <= MaxAttempts
      BY DEF ExecutionsBounded
    <2>1. runs[j] \in Nat /\ rows[j].attempt \in Nat /\ Soundly(rows[j], runs[j])
      BY BusyTypes DEF OutcomeInv, JobInv, StateTypeOK, RowsSound
    <2> QED
      BY <2>1, JobSystemAssumption DEF Soundly
  <1> QED
    BY InitOutcome, <1>1, <1>2, PTL DEF Spec

(* The committed rows follow the graph of lifecycle.py:19-41 although each *)
(* mark is checked against an object that may be stale: before the first   *)
(* cancellation without exception, and after it but for the two races of   *)
(* a cancellation and an execution, whose writer still has an active job   *)
(* in its hands.                                                           *)
THEOREM RowsFollowTheGraph == Calm /\ Spec => LegalTransitions
  <1> SUFFICES ASSUME Calm  PROVE Spec => LegalTransitions
    OBVIOUS
  <1>1. GraphInv /\ [Next]_vars => GraphInv'
    BY StepKeepsOutcome, StepCountsCancels DEF GraphInv
  <1>2. GraphInv /\ [Next]_vars => [\A j \in Jobs : LegalTransition(j)]_vars
    BY StepIsLegal
  <1> QED
    BY InitGraph, <1>1, <1>2, PTL DEF Spec, LegalTransitions

(* Where nobody cancels, every change of a committed row is an edge of the *)
(* graph, whatever crashes, is redelivered or fails to be acknowledged:    *)
(* COMPLETED and CANCELLED are terminal (lifecycle.py:40-41).              *)
THEOREM UncancelledRowsKeepToTheGraph == Calm /\ MaxCancels = 0 /\ Spec => RowsKeepToTheGraph
  <1> SUFFICES ASSUME Calm, MaxCancels = 0  PROVE Spec => RowsKeepToTheGraph
    OBVIOUS
  <1>1. GraphInv /\ [Next]_vars => GraphInv'
    BY StepKeepsOutcome, StepCountsCancels DEF GraphInv
  <1>2. ASSUME GraphInv, [Next]_vars  PROVE [\A j \in Jobs : Edge(rows[j].status, rows'[j].status)]_vars
    <2>1. ~(spent.cancel > 0)
      BY <1>2 DEF GraphInv, CancelsAreCounted, OutcomeInv, JobInv, StateTypeOK
    <2> QED
      BY <1>2, <2>1, StepIsLegal DEF LegalTransition
  <1> QED
    BY InitGraph, <1>1, <1>2, PTL DEF Spec, RowsKeepToTheGraph
-----------------------------------------------------------------------------
(* Without crashes a RUNNING row is in the hands of a worker past its      *)
(* start, and one about to be buried has its reason.                       *)
Startless == {"idle", "load", "drop", "start"}
Attended(j) == \E w \in Workers : Holds(w, j) /\ worker[w].pc \notin Startless
RunningIsAttended == \A j \in Jobs : rows[j].status = "RUNNING" => Attended(j)
Reason(j, attempt, errors) == j \in errors \/ attempt >= MaxAttempts
BurialsHaveReason ==
    \A w \in Workers :
       /\ worker[w].pc = "start" => worker[w].status # "RUNNING"
       /\ worker[w].pc = "bury" /\ worker[w].status = "RUNNING" =>
             Reason(worker[w].job, worker[w].attempt, fatal)

BurialInv == OutcomeInv /\ RunningIsAttended /\ BurialsHaveReason /\ DeadLetterJustified

(* A step of an execution, as far as burials are concerned.                *)
LEMMA BurialByExecution ==
  ASSUME BurialInv, MaxCrashes = 0, NEW w \in Workers, Executes(w), NEW j \in Jobs, j = worker[w].job
  PROVE  /\ fatal \subseteq fatal'
         /\ worker'[w].pc \in Startless => rows'[j].status # "RUNNING"
         /\ worker'[w].pc = "start" => worker'[w].status # "RUNNING"
         /\ worker'[w].pc = "bury" /\ worker'[w].status = "RUNNING" => Reason(j, worker'[w].attempt, fatal')
         /\ rows'[j].status = "DEAD_LETTER" => Reason(j, rows'[j].attempt, fatal')
  <1> DEFINE x == worker[w]
             y == worker'[w]
  <1>1. /\ x.pc # "idle"
        /\ x \in [pc : WorkerPcs, job : Jobs, status : Statuses \cup {"ABSENT"}, attempt : Nat]
    BY OnlyOwn DEF BurialInv, OutcomeInv
  <1>2. /\ worker \in [Workers -> {Idle} \cup [pc : WorkerPcs, job : Jobs,
                        status : Statuses \cup {"ABSENT"}, attempt : Nat]]
        /\ rows \in [Jobs -> Rows] /\ rows[j] \in Rows
        /\ rows[j].status \in Statuses \cup {"ABSENT"} /\ rows[j].attempt \in Nat
    BY BusyTypes DEF BurialInv, OutcomeInv, JobInv, StateTypeOK
  <1>3. Soundly(rows[j], runs[j]) /\ Agrees(x, rows[j], runs[j])
    BY <1>1 DEF BurialInv, OutcomeInv, RowsSound, ObjectsAgree
  <1>4. x.pc \in Startless => rows[j].status # "RUNNING"
    <2>1. \A v \in Workers : Holds(v, j) => v = w
      BY <1>1 DEF BurialInv, OutcomeInv, JobInv, SingleExecutor, Holds
    <2> QED
      BY <2>1 DEF BurialInv, RunningIsAttended, Attended
  <1>5. /\ x.pc = "start" => x.status # "RUNNING"
        /\ x.pc = "bury" /\ x.status = "RUNNING" => Reason(j, x.attempt, fatal)
        /\ rows[j].status = "DEAD_LETTER" => Reason(j, rows[j].attempt, fatal)
    BY DEF BurialInv, BurialsHaveReason, DeadLetterJustified, Reason
  <1>6. fatal \subseteq fatal'
    BY DEF Executes, WorkerStep, Load, Drop, Start, StartRejected, Refresh, HandlerReturns,
           HandlerCancelled, HandlerRaises, Complete, CompleteRejected, Reload, Cancel, Schedule,
           Bury, Commit, MarkRejected, Settle, SettleFails, Crash, Escape
  <1>7. CASE Load(w)
    BY <1>1, <1>2, <1>4, <1>5, <1>6, <1>7 DEF Load, Startless, Reason
  <1>8. CASE Start(w)
    <2>1. rows'[j].status = "RUNNING" /\ y.pc = "refresh"
      BY <1>1, <1>2, <1>8, MarkFields DEF Start, GoTo, Statuses
    <2> QED
      BY <1>6, <2>1 DEF Startless
  <1>9. CASE Refresh(w) \/ Reload(w) \/ HandlerReturns(w) \/ HandlerCancelled(w)
    BY <1>1, <1>2, <1>5, <1>6, <1>9
       DEF Refresh, Reload, HandlerReturns, HandlerCancelled, GoTo, Startless, Reason
  <1>10. CASE StartRejected(w) \/ CompleteRejected(w)
    <2>1. /\ y.pc = "bury" /\ y.status = x.status /\ rows' = rows
          /\ x.status # "RUNNING"
      BY <1>1, <1>2, <1>5, <1>10, Moves DEF StartRejected, CompleteRejected, GoTo
    <2> QED
      BY <1>5, <1>6, <2>1 DEF Startless, Reason
  <1>11. CASE \E retryable \in BOOLEAN : HandlerRaises(w, retryable)
    <2>1. /\ y.pc \in {"schedule", "bury"} /\ y.attempt = x.attempt /\ rows' = rows
          /\ y.pc = "bury" => j \in fatal' \/ ~(x.attempt < MaxAttempts)
      BY <1>1, <1>2, <1>11 DEF HandlerRaises, GoTo
    <2> QED
      BY <1>1, <1>5, <1>6, <2>1, JobSystemAssumption DEF Startless, Reason
  <1>12. CASE Complete(w) \/ Cancel(w) \/ Schedule(w) \/ Bury(w)
    <2>1. \E s \in Statuses :
             /\ rows'[j] = MarkAs(rows[j], s) /\ y.pc \in {"reload", "ack", "nack"} /\ s # "RUNNING"
             /\ s = "DEAD_LETTER" => x.pc = "bury" /\ CanBury(x.status)
      BY <1>1, <1>2, <1>12 DEF Complete, Cancel, Schedule, Bury, Commit, Statuses
    <2>2. PICK s \in Statuses : <2>1!(s)
      BY <2>1
    <2>3. rows'[j].status = s /\ rows'[j].attempt = rows[j].attempt
      BY <1>2, <2>2, MarkFields
    <2>4. s = "DEAD_LETTER" => x.status = "RUNNING" /\ rows[j].attempt = x.attempt
      BY <1>1, <1>3, <2>2, Moves DEF Agrees
    <2> QED
      BY <1>5, <1>6, <2>2, <2>3, <2>4 DEF Startless, Reason
  <1>13. CASE Drop(w)
    BY <1>2, <1>4, <1>5, <1>6, <1>13 DEF Drop, Leave, Idle, Startless, Reason
  <1>14. CASE MarkRejected(w) \/ Settle(w)
    <2>1. rows' = rows /\ y = Idle
      BY <1>2, <1>14 DEF MarkRejected, Settle, Escape, Leave
    <2>2. x.status # "RUNNING" /\ x.pc \in {"cancel", "schedule", "bury", "done", "ack", "nack"}
      BY <1>1, <1>3, <1>14, Moves DEF MarkRejected, Settle, Agrees, Active
    <2> QED
      BY <1>3, <1>5, <1>6, <2>1, <2>2 DEF Agrees, Idle, Reason
  <1>15. CASE \E retryable \in BOOLEAN : SettleFails(w, retryable)
    <2>1. /\ rows' = rows /\ x.pc \in {"done", "ack", "nack"}
          /\ y.pc = "idle" \/ (y.pc \in {"schedule", "bury"} /\ y.status = x.status)
      BY <1>1, <1>2, <1>15 DEF SettleFails, Escape, Leave, GoTo, Idle
    <2> QED
      BY <1>3, <1>5, <1>6, <2>1 DEF Agrees, Startless, Reason
  <1>16. CASE Crash(w)
    BY <1>16 DEF Crash, Spend, BurialInv, OutcomeInv, JobInv, StateTypeOK
  <1> QED
    BY <1>7, <1>8, <1>9, <1>10, <1>11, <1>12, <1>13, <1>14, <1>15, <1>16 DEF Executes, WorkerStep

LEMMA StepKeepsBurials ==
  ASSUME Calm, MaxCrashes = 0, BurialInv, [Next]_vars  PROVE BurialInv'
  <1>1. OutcomeInv'
    BY StepKeepsOutcome DEF BurialInv
  <1>2. ASSUME NEW w \in Workers, Executes(w)
        PROVE  (RunningIsAttended /\ BurialsHaveReason /\ DeadLetterJustified)'
    <2> DEFINE i == worker[w].job
    <2>1. /\ i \in Jobs /\ worker[w].pc # "idle"
          /\ \A v \in Workers : v # w => worker'[v] = worker[v]
          /\ worker'[w].pc # "idle" => worker'[w].job = i
          /\ \A k \in Jobs : k # i => rows'[k] = rows[k]
      BY <1>2, OnlyOwn DEF BurialInv, OutcomeInv
    <2>2. /\ fatal \subseteq fatal'
          /\ worker'[w].pc \in Startless => rows'[i].status # "RUNNING"
          /\ worker'[w].pc = "start" => worker'[w].status # "RUNNING"
          /\ worker'[w].pc = "bury" /\ worker'[w].status = "RUNNING" => Reason(i, worker'[w].attempt, fatal')
          /\ rows'[i].status = "DEAD_LETTER" => Reason(i, rows'[i].attempt, fatal')
      BY <1>2, <2>1, BurialByExecution
    <2>3. RunningIsAttended'
      <3> SUFFICES ASSUME NEW j \in Jobs, rows'[j].status = "RUNNING"  PROVE Attended(j)'
        BY DEF RunningIsAttended
      <3>1. CASE j = i
        BY <2>1, <2>2, <3>1 DEF Attended, Holds, Startless
      <3>2. CASE j # i
        <4>1. PICK v \in Workers : Holds(v, j) /\ worker[v].pc \notin Startless
          BY <2>1, <3>2 DEF BurialInv, RunningIsAttended, Attended
        <4>2. worker'[v] = worker[v]
          BY <2>1, <3>2, <4>1 DEF Holds
        <4> QED
          BY <4>1, <4>2 DEF Attended, Holds
      <3> QED
        BY <3>1, <3>2
    <2>4. BurialsHaveReason'
      BY <2>1, <2>2 DEF BurialInv, BurialsHaveReason, Reason, Startless
    <2>5. DeadLetterJustified'
      BY <2>1, <2>2 DEF BurialInv, DeadLetterJustified, Reason
    <2> QED
      BY <2>3, <2>4, <2>5
  <1>3. ASSUME NEW w \in Workers, NEW k \in Jobs, Take(w, k)
        PROVE  (RunningIsAttended /\ BurialsHaveReason /\ DeadLetterJustified)'
    <2>1. /\ rows' = rows /\ fatal' = fatal /\ worker'[w].pc = "load" /\ worker[w].pc = "idle"
          /\ \A v \in Workers : v # w => worker'[v] = worker[v]
      BY <1>3 DEF Take, Idle, BurialInv, OutcomeInv, JobInv, StateTypeOK
    <2>2. \A j \in Jobs : Attended(j) => Attended(j)'
      BY <2>1 DEF Attended, Holds
    <2> QED
      BY <2>1, <2>2 DEF BurialInv, RunningIsAttended, BurialsHaveReason, DeadLetterJustified, Reason
  <1>4. ASSUME NEW c \in Clients, CancelCommit(c) \/ \E k \in Jobs : Create(c, k)
        PROVE  (RunningIsAttended /\ BurialsHaveReason /\ DeadLetterJustified)'
    <2>1. /\ worker' = worker /\ fatal' = fatal
          /\ \A j \in Jobs : rows'[j] = rows[j] \/ rows'[j].status \in {"QUEUED", "CANCELLED"}
      <3>1. rows \in [Jobs -> Rows]
        BY DEF BurialInv, OutcomeInv, JobInv, StateTypeOK
      <3>2. \A j \in Jobs : MarkAs(rows[j], "CANCELLED").status = "CANCELLED"
        BY <3>1, MarkFields DEF Statuses
      <3> QED
        BY <1>4, <3>1, <3>2 DEF CancelCommit, Create, NewRow
    <2>2. \A j \in Jobs : Attended(j) => Attended(j)'
      BY <2>1 DEF Attended, Holds
    <2> QED
      BY <2>1, <2>2 DEF BurialInv, RunningIsAttended, BurialsHaveReason, DeadLetterJustified, Reason
  <1>5. ASSUME Aside, fatal' = fatal
        PROVE  (RunningIsAttended /\ BurialsHaveReason /\ DeadLetterJustified)'
    BY <1>5 DEF Aside, BurialInv, RunningIsAttended, Attended, Holds, BurialsHaveReason,
                DeadLetterJustified, Reason
  <1>6. \/ \E w \in Workers : Executes(w) \/ \E j \in Jobs : Take(w, j)
        \/ \E c \in Clients : CancelCommit(c) \/ \E j \in Jobs : Create(c, j)
        \/ Aside /\ fatal' = fatal
    <2>1. (\A w \in Workers : ~Executes(w)) => fatal' = fatal
      BY DEF Next, vars, ClientStep, Request, Misfortune, Executes, Push, CancelFlag, CancelCommit,
             RetryCommit, Create, CancelLoad, RetryLoad, RequestDies, Take, Time, DelayPasses,
             LeaseLapses, LeaseOverrun
    <2> QED
      BY <2>1, StepKinds DEF BurialInv, OutcomeInv
  <1> QED
    BY <1>1, <1>2, <1>3, <1>4, <1>5, <1>6 DEF BurialInv

(* Without crashes a job is dead-lettered for a fatal error or exhausted   *)
(* attempts only (worker.py:270-283): no transition is rejected but those  *)
(* of cancelled jobs, and those are not buried.                            *)
THEOREM DeadLettersHaveReason == Calm /\ MaxCrashes = 0 /\ Spec => []DeadLetterJustified
  <1> SUFFICES ASSUME Calm, MaxCrashes = 0  PROVE Spec => []DeadLetterJustified
    OBVIOUS
  <1>1. Init => BurialInv
    BY InitOutcome DEF Init, NoRow, Idle, BurialInv, RunningIsAttended, BurialsHaveReason,
                       DeadLetterJustified
  <1>2. BurialInv /\ [Next]_vars => BurialInv'
    BY StepKeepsBurials
  <1>3. BurialInv => DeadLetterJustified
    BY DEF BurialInv
  <1> QED
    BY <1>1, <1>2, <1>3, PTL DEF Spec
-----------------------------------------------------------------------------
(* While no request dies midway, whatever the broker forgets is settled or *)
(* about to be recorded as cancelled.                                      *)
Flagging(j) == \E c \in Clients : client[c].job = j /\ client[c].pc = "flagged"
Recorded(j) == rows[j].status \notin Active \/ Flagging(j)
DropsAreRecorded == \A w \in Workers : worker[w].pc = "drop" => Recorded(worker[w].job)

(* A cancellation flag stands for a recorded cancellation, or for one that *)
(* the execution under way has overwritten and will clear.                 *)
FlagsAreKept ==
    \A j \in registry : rows[j] # NoRow /\ (SharedRegistry => Recorded(j) \/ Attended(j))

LossInv == OutcomeInv /\ NoJobLost /\ DropsAreRecorded /\ FlagsAreKept

(* What an execution does to the broker and the flags.                     *)
LEMMA QueueByExecution ==
  ASSUME LossInv, NEW w \in Workers, Executes(w)
  PROVE  /\ registry' \subseteq registry
         /\ \A k \in Jobs : k # worker[w].job => (Queued(k)' <=> Queued(k))
  <1>1. worker[w].pc # "idle" /\ worker[w].job \in Jobs
    BY OnlyOwn DEF LossInv, OutcomeInv
  <1>2. registry' \subseteq registry
    BY DEF Executes, WorkerStep, Load, Drop, Start, StartRejected, Refresh, HandlerReturns,
           HandlerCancelled, HandlerRaises, Complete, CompleteRejected, Reload, Cancel, Schedule,
           Bury, Commit, MarkRejected, Settle, SettleFails, Crash, Escape, Unflag
  <1>3. ASSUME NEW k \in Jobs, k # worker[w].job  PROVE Queued(k)' <=> Queued(k)
    <2>1. CASE Drop(w) \/ Settle(w)
      BY <1>1, <1>3, <2>1 DEF Drop, Settle, Ack, NackDelayed, Queued, LossInv, OutcomeInv, JobInv,
                              QueueInv, QueueTypeOK
    <2>2. CASE ~(Drop(w) \/ Settle(w))
      BY <2>2 DEF Executes, WorkerStep, Load, Start, StartRejected, Refresh, HandlerReturns,
           HandlerCancelled, HandlerRaises, Complete, CompleteRejected, Reload, Cancel, Schedule,
           Bury, Commit, MarkRejected, SettleFails, Crash, Escape, queue, Queued
    <2> QED
      BY <2>1, <2>2
  <1> QED
    BY <1>2, <1>3

(* And to its own job: it stays queued or is settled; a flag that outlives *)
(* the step stands for as much as it did.                                  *)
LEMMA LossByExecution ==
  ASSUME LossInv, NEW w \in Workers, Executes(w), NEW j \in Jobs, j = worker[w].job
  PROVE  /\ Queued(j)' \/ rows'[j].status \notin Active \/ Flagging(j)
         /\ worker'[w].pc = "drop" => rows'[j].status \notin Active \/ Flagging(j)
         /\ SharedRegistry /\ j \in registry' =>
               rows'[j].status \notin Active \/ Flagging(j) \/ worker'[w].pc \notin Startless
         /\ rows[j] # NoRow /\ rows'[j] # NoRow
  <1> DEFINE x == worker[w]
             y == worker'[w]
  <1>1. /\ x.pc # "idle"
        /\ x \in [pc : WorkerPcs, job : Jobs, status : Statuses \cup {"ABSENT"}, attempt : Nat]
    BY OnlyOwn DEF LossInv, OutcomeInv
  <1>2. /\ worker \in [Workers -> {Idle} \cup [pc : WorkerPcs, job : Jobs,
                        status : Statuses \cup {"ABSENT"}, attempt : Nat]]
        /\ rows \in [Jobs -> Rows] /\ rows[j] \in Rows
        /\ rows[j].status \in Statuses \cup {"ABSENT"} /\ rows[j].attempt \in Nat
        /\ ready \in [Jobs -> Nat] /\ lease \in [Jobs -> LeaseStates] /\ delay \in [Jobs -> DelayStates]
    BY BusyTypes DEF LossInv, OutcomeInv, JobInv, StateTypeOK, QueueInv, QueueTypeOK
  <1>3. Agrees(x, rows[j], runs[j])
    BY <1>1 DEF LossInv, OutcomeInv, ObjectsAgree
  <1>4. lease[j] = "live" /\ Queued(j) /\ rows[j] # NoRow
    BY <1>1 DEF LossInv, OutcomeInv, JobInv, HoldersAreLeased, Queued, Unqueued
  <1>5. rows'[j] # NoRow
    <2>1. [Next]_vars
      BY DEF Next, Executes, Misfortune
    <2> QED
      BY <1>4, <2>1, RowsStay DEF LossInv, OutcomeInv
  <1>6. SharedRegistry /\ j \in registry =>
           rows[j].status \notin Active \/ Flagging(j) \/ x.pc \notin Startless
    <2>1. \A v \in Workers : Holds(v, j) => v = w
      BY <1>1 DEF LossInv, OutcomeInv, JobInv, SingleExecutor, Holds
    <2> QED
      BY <2>1 DEF LossInv, FlagsAreKept, Recorded, Attended
  <1>7. x.pc = "drop" => rows[j].status \notin Active \/ Flagging(j)
    BY DEF LossInv, DropsAreRecorded, Recorded
  <1>8. registry' \subseteq registry
    BY QueueByExecution
  <1>9. CASE Drop(w)
    BY <1>2, <1>4, <1>5, <1>7, <1>9 DEF Drop, Leave, Idle
  <1>10. CASE Settle(w)
    <2>1. rows' = rows /\ y = Idle /\ (SharedRegistry => j \notin registry')
      BY <1>2, <1>10 DEF Settle, Leave, Unflag
    <2>2. CASE x.pc \in {"done", "ack"}
      BY <1>3, <1>5, <2>1, <2>2, <1>4 DEF Agrees, Active, Idle
    <2>3. CASE x.pc = "nack"
      BY <1>2, <1>5, <1>10, <2>1, <2>3, <1>4 DEF Settle, NackDelayed, Queued, Idle
    <2> QED
      BY <1>10, <2>2, <2>3 DEF Settle
  <1>11. ASSUME ~(Drop(w) \/ Settle(w))  PROVE Queued(j)'
    <2>1. UNCHANGED queue
      BY <1>11 DEF Executes, WorkerStep, Load, Start, StartRejected, Refresh, HandlerReturns,
           HandlerCancelled, HandlerRaises, Complete, CompleteRejected, Reload, Cancel, Schedule,
           Bury, Commit, MarkRejected, SettleFails, Crash, Escape
    <2> QED
      BY <1>4, <2>1 DEF queue, Queued
  <1>12. CASE Load(w)
    <2>1. /\ rows' = rows /\ x.pc = "load" /\ y.pc \in {"drop", "start"}
          /\ y.pc = "drop" => rows[j].status \notin Active \/ (SharedRegistry /\ j \in registry)
      BY <1>1, <1>2, <1>4, <1>12 DEF Load, Flagged, Active
    <2> QED
      BY <1>4, <1>5, <1>6, <1>8, <1>11, <1>12, <2>1 DEF Load, Drop, Settle, Startless
  <1>13. CASE \/ Start(w) \/ StartRejected(w) \/ Refresh(w) \/ HandlerReturns(w) \/ HandlerCancelled(w)
              \/ CompleteRejected(w) \/ Reload(w) \/ \E retryable \in BOOLEAN : HandlerRaises(w, retryable)
              \/ Complete(w) \/ Cancel(w) \/ Schedule(w) \/ Bury(w)
    <2>1. y.pc \notin Startless /\ y.pc # "drop" /\ ~(Drop(w) \/ Settle(w))
      BY <1>1, <1>2, <1>13 DEF Start, StartRejected, Refresh, HandlerReturns, HandlerCancelled,
         CompleteRejected, Reload, HandlerRaises, Complete, Cancel, Schedule, Bury, Commit, GoTo,
         Startless, Drop, Settle
    <2> QED
      BY <1>4, <1>5, <1>11, <2>1
  <1>14. CASE MarkRejected(w)
    BY <1>2, <1>4, <1>5, <1>11, <1>14 DEF MarkRejected, Escape, Leave, Unflag, Idle, Drop, Settle
  <1>15. CASE \E retryable \in BOOLEAN : SettleFails(w, retryable)
    <2>1. /\ ~(Drop(w) \/ Settle(w)) \/ Queued(j)'
          /\ y.pc # "drop"
          /\ y.pc \notin Startless \/ (SharedRegistry => j \notin registry')
      <3>1. Queued(j)'
        BY <1>4, <1>15 DEF SettleFails, Escape, queue, Queued
      <3> QED
        BY <1>2, <1>15, <3>1 DEF SettleFails, Escape, Leave, GoTo, Unflag, Idle, Startless
    <2> QED
      BY <1>4, <1>5, <1>11, <2>1
  <1>16. CASE Crash(w)
    <2>1. /\ rows' = rows /\ y = Idle /\ Queued(j)'
          /\ x.pc \in Startless \/ (SharedRegistry => j \notin registry')
      BY <1>2, <1>4, <1>16 DEF Crash, Leave, Unflag, Startless, queue, Queued
    <2> QED
      BY <1>4, <1>5, <1>6, <1>8, <2>1 DEF Idle
  <1> QED
    BY <1>9, <1>10, <1>12, <1>13, <1>14, <1>15, <1>16 DEF Executes, WorkerStep

LEMMA ExecutionLosesNothing ==
  ASSUME LossInv, NEW w \in Workers, Executes(w)
  PROVE  (NoJobLost /\ DropsAreRecorded /\ FlagsAreKept)'
  <1>0. PICK i \in Jobs : i = worker[w].job
    BY OnlyOwn DEF LossInv, OutcomeInv
  <1>1. /\ worker[w].pc # "idle" /\ client' = client
        /\ \A v \in Workers : v # w => worker'[v] = worker[v]
        /\ worker'[w].pc # "idle" => worker'[w].job = i
        /\ \A k \in Jobs : k # i => rows'[k] = rows[k]
    BY <1>0, OnlyOwn DEF LossInv, OutcomeInv
  <1>2. /\ Queued(i)' \/ rows'[i].status \notin Active \/ Flagging(i)
        /\ worker'[w].pc = "drop" => rows'[i].status \notin Active \/ Flagging(i)
        /\ SharedRegistry /\ i \in registry' =>
              rows'[i].status \notin Active \/ Flagging(i) \/ worker'[w].pc \notin Startless
        /\ rows'[i] # NoRow
    BY <1>0, LossByExecution
  <1>3. registry' \subseteq registry /\ \A k \in Jobs : k # i => (Queued(k)' <=> Queued(k))
    BY <1>0, QueueByExecution
  <1>4. \A k \in Jobs : Flagging(k)' <=> Flagging(k)
    BY <1>1 DEF Flagging
  <1>5. NoJobLost'
    BY <1>1, <1>2, <1>3 DEF LossInv, NoJobLost, Flagging
  <1>6. DropsAreRecorded'
    <2> SUFFICES ASSUME NEW v \in Workers, worker'[v].pc = "drop"  PROVE Recorded(worker[v].job)'
      BY DEF DropsAreRecorded
    <2>1. CASE v = w
      BY <1>1, <1>2, <1>4, <2>1 DEF Recorded
    <2>2. CASE v # w
      <3>1. worker'[v] = worker[v] /\ worker[v].pc = "drop"
        BY <1>1, <2>2
      <3>2. worker[v].job # i /\ worker[v].job \in Jobs
        BY <1>0, <1>1, <2>2, <3>1, BusyTypes
           DEF LossInv, OutcomeInv, JobInv, SingleExecutor, Holds, Idle
      <3>3. Recorded(worker[v].job)
        BY <3>1 DEF LossInv, DropsAreRecorded
      <3> QED
        BY <1>1, <1>4, <3>1, <3>2, <3>3 DEF Recorded
    <2> QED
      BY <2>1, <2>2
  <1>7. FlagsAreKept'
    <2> SUFFICES ASSUME NEW k \in registry'
                 PROVE  rows'[k] # NoRow /\ (SharedRegistry => Recorded(k)' \/ Attended(k)')
      BY DEF FlagsAreKept
    <2>1. k \in registry /\ k \in Jobs
      BY <1>3 DEF LossInv, OutcomeInv, JobInv, StateTypeOK
    <2>2. CASE k = i
      BY <1>1, <1>2, <1>4, <2>2 DEF Recorded, Attended, Holds, Startless
    <2>3. CASE k # i
      <3>1. rows[k] # NoRow /\ (SharedRegistry => Recorded(k) \/ Attended(k))
        BY <2>1 DEF LossInv, FlagsAreKept
      <3>2. Attended(k) => Attended(k)'
        BY <1>0, <1>1, <2>3 DEF Attended, Holds
      <3>3. Recorded(k) => Recorded(k)'
        BY <1>1, <1>4, <2>1, <2>3 DEF Recorded
      <3> QED
        BY <1>1, <2>1, <2>3, <3>1, <3>2, <3>3
    <2> QED
      BY <2>2, <2>3
  <1> QED
    BY <1>5, <1>6, <1>7

(* A dequeue keeps every job queued.                                       *)
LEMMA TakeLosesNothing ==
  ASSUME LossInv, NEW w \in Workers, NEW j \in Jobs, Take(w, j)
  PROVE  (NoJobLost /\ DropsAreRecorded /\ FlagsAreKept)'
  <1>1. /\ rows' = rows /\ client' = client /\ registry' = registry
        /\ worker[w].pc = "idle" /\ worker'[w].pc = "load"
        /\ \A v \in Workers : v # w => worker'[v] = worker[v]
    BY DEF Take, Idle, LossInv, OutcomeInv, JobInv, StateTypeOK
  <1>2. \A k \in Jobs : Queued(k) => Queued(k)'
    BY DEF Take, Dequeue, Swept, Queued, LossInv, OutcomeInv, JobInv, QueueInv, QueueTypeOK
  <1>3. \A k \in Jobs : Attended(k) => Attended(k)'
    BY <1>1 DEF Attended, Holds
  <1>4. NoJobLost'
    BY <1>1, <1>2 DEF LossInv, NoJobLost
  <1>5. DropsAreRecorded'
    BY <1>1 DEF LossInv, DropsAreRecorded, Recorded, Flagging
  <1>6. FlagsAreKept'
    BY <1>1, <1>3 DEF LossInv, FlagsAreKept, Recorded, Flagging, OutcomeInv, JobInv, StateTypeOK
  <1> QED
    BY <1>4, <1>5, <1>6

(* The steps of requests.                                                  *)
LEMMA RequestsLoseNothing ==
  ASSUME LossInv, NEW c \in Clients,
         \/ Push(c) \/ CancelFlag(c) \/ CancelCommit(c)
         \/ \E j \in Jobs : Create(c, j) \/ CancelLoad(c, j)
  PROVE  (NoJobLost /\ DropsAreRecorded /\ FlagsAreKept)'
  <1>1. /\ client \in [Clients -> {NoCall} \cup [pc : ClientPcs, job : Jobs, status : Statuses]]
        /\ rows \in [Jobs -> Rows] /\ worker' = worker /\ NoCall.pc = "idle" /\ registry \subseteq Jobs
        /\ \A w \in Workers : worker[w].pc # "idle" => worker[w].job \in Jobs
    BY DEF LossInv, OutcomeInv, JobInv, StateTypeOK, Push, CancelFlag, CancelCommit, Create,
           CancelLoad, NoCall, Idle
  <1>2. \A k \in Jobs : Attended(k) => Attended(k)'
    BY <1>1 DEF Attended, Holds
  <1>3. CASE Push(c)
    <2>1. /\ client[c].job \in Jobs /\ client' = [client EXCEPT ![c] = NoCall] /\ client[c].pc = "push"
          /\ rows' = rows /\ registry' = registry
      BY <1>1, <1>3 DEF Push
    <2>2. \A k \in Jobs : Queued(k) \/ k = client[c].job => Queued(k)'
      BY <1>1, <1>3, <2>1 DEF Push, Enqueue, Queued, LossInv, OutcomeInv, JobInv, QueueInv, QueueTypeOK
    <2>3. \A k \in Jobs : Flagging(k) => Flagging(k)'
      BY <1>1, <2>1 DEF Flagging
    <2>4. NoJobLost'
      BY <1>1, <2>1, <2>2 DEF LossInv, NoJobLost
    <2> QED
      BY <1>1, <1>2, <2>1, <2>3, <2>4 DEF LossInv, DropsAreRecorded, FlagsAreKept, Recorded
  <1>4. CASE CancelFlag(c)
    <2>1. /\ client[c].job \in Jobs /\ client[c].pc = "cancel" /\ rows' = rows /\ UNCHANGED queue
          /\ client' = [client EXCEPT ![c].pc = "flagged"]
          /\ registry' = registry \cup {client[c].job}
      BY <1>1, <1>4 DEF CancelFlag
    <2>2. \A k \in Jobs : Queued(k) => Queued(k)'
      BY <2>1 DEF queue, Queued
    <2>3. \A d \in Clients : client'[d].job = client[d].job
                            /\ (d # c => client'[d].pc = client[d].pc) /\ client'[c].pc = "flagged"
      BY <1>1, <2>1
    <2>4. \A k \in Jobs : Flagging(k) \/ k = client[c].job => Flagging(k)'
      BY <1>1, <2>3 DEF Flagging
    <2>5. NoJobLost'
      BY <2>1, <2>2, <2>3 DEF LossInv, NoJobLost
    <2>6. rows[client[c].job] # NoRow
      BY <2>1 DEF LossInv, OutcomeInv, JobInv, Unqueued
    <2> QED
      BY <1>1, <1>2, <2>1, <2>4, <2>5, <2>6
         DEF LossInv, DropsAreRecorded, FlagsAreKept, Recorded
  <1>5. CASE CancelCommit(c)
    <2> DEFINE i == client[c].job
    <2>1. /\ i \in Jobs /\ client[c].pc = "flagged" /\ UNCHANGED queue /\ registry' = registry
          /\ client' = [client EXCEPT ![c] = NoCall]
          /\ rows'[i] = MarkAs(rows[i], "CANCELLED")
          /\ \A k \in Jobs : k # i => rows'[k] = rows[k]
      BY <1>1, <1>5 DEF CancelCommit
    <2>2. rows'[i].status = "CANCELLED" /\ rows'[i] # NoRow
      BY <1>1, <2>1, MarkFields DEF Statuses, NoRow
    <2>3. \A k \in Jobs : Queued(k) => Queued(k)'
      BY <2>1 DEF queue, Queued
    <2>4. \A k \in Jobs : k # i => \A d \in Clients : client[d].job = k => client'[d] = client[d]
      BY <1>1, <2>1
    <2>5. \A k \in Jobs : Recorded(k) => Recorded(k)'
      BY <1>1, <2>1, <2>2, <2>4 DEF Recorded, Flagging, Active
    <2>6. NoJobLost'
      BY <2>1, <2>2, <2>3, <2>4 DEF LossInv, NoJobLost, Active
    <2>7. DropsAreRecorded'
      BY <1>1, <2>5 DEF LossInv, DropsAreRecorded, Recorded, Flagging
    <2>8. FlagsAreKept'
      BY <1>1, <1>2, <2>1, <2>2, <2>5 DEF LossInv, FlagsAreKept
    <2> QED
      BY <2>6, <2>7, <2>8
  <1>6. ASSUME NEW j \in Jobs, Create(c, j)  PROVE (NoJobLost /\ DropsAreRecorded /\ FlagsAreKept)'
    <2>1. /\ rows[j] = NoRow /\ client[c] = NoCall /\ UNCHANGED queue /\ registry' = registry
          /\ client'[c].pc = "push" /\ client'[c].job = j
          /\ \A d \in Clients : d # c => client'[d] = client[d]
          /\ \A k \in Jobs : k # j => rows'[k] = rows[k]
      BY <1>1, <1>6 DEF Create
    <2>2. ~Held(j) /\ j \notin registry
      BY <2>1 DEF LossInv, FlagsAreKept, OutcomeInv, JobInv, Unqueued, HoldersAreLeased, Queued, Held, Holds
    <2>3. \A k \in Jobs : Queued(k) => Queued(k)'
      BY <2>1 DEF queue, Queued
    <2>4. \A k \in Jobs : k # j => (Recorded(k) => Recorded(k)')
      BY <1>1, <2>1 DEF Recorded, Flagging
    <2>5. NoJobLost'
      BY <1>1, <2>1, <2>3 DEF LossInv, NoJobLost
    <2>6. DropsAreRecorded'
      <3> SUFFICES ASSUME NEW v \in Workers, worker'[v].pc = "drop"  PROVE Recorded(worker[v].job)'
        BY DEF DropsAreRecorded
      <3>1. worker'[v] = worker[v] /\ worker[v].job # j /\ worker[v].job \in Jobs
        BY <1>1, <2>2 DEF Held, Holds
      <3> QED
        BY <2>4, <3>1 DEF LossInv, DropsAreRecorded, Recorded, Flagging
    <2>7. FlagsAreKept'
      BY <1>1, <1>2, <2>1, <2>2, <2>4 DEF LossInv, FlagsAreKept
    <2> QED
      BY <2>5, <2>6, <2>7
  <1>7. ASSUME NEW j \in Jobs, CancelLoad(c, j)  PROVE (NoJobLost /\ DropsAreRecorded /\ FlagsAreKept)'
    <2>1. /\ client[c] = NoCall /\ UNCHANGED queue /\ registry' = registry /\ rows' = rows
          /\ \A d \in Clients : d # c => client'[d] = client[d]
      BY <1>1, <1>7 DEF CancelLoad
    <2>2. \A k \in Jobs : Queued(k) => Queued(k)'
      BY <2>1 DEF queue, Queued
    <2>3. \A k \in Jobs : Flagging(k) => Flagging(k)'
      BY <1>1, <2>1 DEF Flagging
    <2>4. NoJobLost'
      BY <1>1, <2>1, <2>2 DEF LossInv, NoJobLost
    <2> QED
      BY <1>1, <1>2, <2>1, <2>3, <2>4 DEF LossInv, DropsAreRecorded, FlagsAreKept, Recorded
  <1> QED
    BY <1>3, <1>4, <1>5, <1>6, <1>7

LEMMA StepLosesNothing ==
  ASSUME Calm, MaxDeaths = 0, LossInv, [Next]_vars  PROVE LossInv'
  <1>1. OutcomeInv'
    BY StepKeepsOutcome DEF LossInv
  <1>2. ASSUME NEW c \in Clients,
               \/ RetryCommit(c) \/ RequestDies(c)
               \/ \E j \in Jobs, force \in BOOLEAN : RetryLoad(c, j, force)
        PROVE  FALSE
    BY <1>2 DEF RetryCommit, RetryLoad, RequestDies, Spend, Calm, LossInv, OutcomeInv, JobInv,
                StateTypeOK, Unqueued
  <1>3. ASSUME NEW j \in Jobs, Time(j)  PROVE (NoJobLost /\ DropsAreRecorded /\ FlagsAreKept)'
    <2>1. rows' = rows /\ client' = client /\ worker' = worker /\ registry' = registry
      BY <1>3 DEF Time, DelayPasses, LeaseLapses
    <2>2. \A k \in Jobs : Queued(k) => Queued(k)'
      BY <1>3 DEF Time, DelayPasses, LeaseLapses, Elapse, Queued
    <2> QED
      BY <2>1, <2>2 DEF LossInv, NoJobLost, DropsAreRecorded, FlagsAreKept, Recorded, Flagging,
                        Attended, Holds
  <1>4. ASSUME NEW j \in Jobs, LeaseOverrun(j)  PROVE FALSE
    BY <1>4 DEF LeaseOverrun, Spend, Calm, LossInv, OutcomeInv, JobInv, StateTypeOK
  <1>5. CASE UNCHANGED vars
    BY <1>1, <1>5 DEF vars, LossInv, NoJobLost, Queued, DropsAreRecorded, FlagsAreKept, Recorded, Flagging,
                Attended, Holds
  <1> QED
    BY <1>1, <1>2, <1>3, <1>4, <1>5, ExecutionLosesNothing, TakeLosesNothing, RequestsLoseNothing
       DEF LossInv, Next, ClientStep, Request, Misfortune, Executes

(* While requests run to their end, the row and the queue do not part: an  *)
(* unsettled job stays with the broker or with a request about to act on   *)
(* it, however many workers crash and settling calls fail, and the         *)
(* cancellation flag that lets a worker acknowledge an unsettled job       *)
(* (worker.py:217-223) is only ever seen when the row is about to follow.  *)
THEOREM JobsAreNotLost == Calm /\ MaxDeaths = 0 /\ Spec => []NoJobLost
  <1> SUFFICES ASSUME Calm, MaxDeaths = 0  PROVE Spec => []NoJobLost
    OBVIOUS
  <1>1. Init => LossInv
    BY InitOutcome DEF Init, NoRow, Idle, LossInv, NoJobLost, DropsAreRecorded, FlagsAreKept, Active
  <1>2. LossInv /\ [Next]_vars => LossInv'
    BY StepLosesNothing
  <1>3. LossInv => NoJobLost
    BY DEF LossInv
  <1> QED
    BY <1>1, <1>2, <1>3, PTL DEF Spec
=============================================================================
