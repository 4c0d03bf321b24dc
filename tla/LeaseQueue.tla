----------------------------- MODULE LeaseQueue -----------------------------
(***************************************************************************)
(* What the JobQueue interface of backend/app/jobs/queue.py promises: a    *)
(* broker that hands a job out under a lease (the "visibility timeout")    *)
(* and takes it back when the lease lapses without an acknowledgement.     *)
(*                                                                         *)
(* The broker is kept at the level the rest of the job system can observe: *)
(* how many copies of a job are ready, whether it is leased, whether it is *)
(* parked until a retry is due.  Order, priority and clock readings belong *)
(* to the implementations (InMemoryJobQueue, RedisJobQueue).               *)
(***************************************************************************)
EXTENDS Naturals

CONSTANT Jobs       \* identities of jobs

VARIABLES ready,   \* ready[j]: copies of j waiting in the ready lists
          lease,   \* lease[j]: the in-flight reservation of j
          delay    \* delay[j]: the delayed (backoff) entry of j

queue == <<ready, lease, delay>>

LeaseStates == {"none", "live", "lapsed"}
DelayStates == {"none", "waiting", "due"}

QueueTypeOK ==
    /\ ready \in [Jobs -> Nat]
    /\ lease \in [Jobs -> LeaseStates]
    /\ delay \in [Jobs -> DelayStates]

QueueInit ==
    /\ ready = [j \in Jobs |-> 0]
    /\ lease = [j \in Jobs |-> "none"]
    /\ delay = [j \in Jobs |-> "none"]

(* The broker still knows of job j.                                        *)
Queued(j) == ready[j] > 0 \/ lease[j] # "none" \/ delay[j] # "none"

(* Mutant: the expiry of a lease is not looked at.                         *)
LapsedIgnoresExpiry == {j \in Jobs : lease[j] # "none"}

Lapsed == {j \in Jobs : lease[j] = "lapsed"}
Due    == {j \in Jobs : delay[j] = "due"}
-----------------------------------------------------------------------------
(* The operations, each one atomic step, with whatever arguments.          *)

(* Copies ready once the leases in L and the retries in D are swept in.    *)
Swept(j, L, D) == ready[j] + (IF j \in L THEN 1 ELSE 0) + (IF j \in D THEN 1 ELSE 0)

Enqueue(j) ==
    /\ ready' = [ready EXCEPT ![j] = @ + 1]
    /\ UNCHANGED <<lease, delay>>

(* Housekeeping: lapsed leases and due retries go back to the ready lists. *)
Sweep(L, D) ==
    /\ L \subseteq Lapsed /\ D \subseteq Due
    /\ ready' = [j \in Jobs |-> Swept(j, L, D)]
    /\ lease' = [j \in Jobs |-> IF j \in L THEN "none" ELSE lease[j]]
    /\ delay' = [j \in Jobs |-> IF j \in D THEN "none" ELSE delay[j]]

(* Mutant: pops without looking whether the list is empty.                 *)
DequeueUnguarded(j, L, D) ==
    /\ L \subseteq Lapsed /\ D \subseteq Due
    /\ ready' = [k \in Jobs |-> IF k = j THEN Swept(k, L, D) - 1 ELSE Swept(k, L, D)]
    /\ lease' = [k \in Jobs |-> IF k = j THEN "live"
                                ELSE IF k \in L THEN "none" ELSE lease[k]]
    /\ delay' = [k \in Jobs |-> IF k \in D THEN "none" ELSE delay[k]]

(* Sweep, then take a copy of j under a fresh lease.                       *)
Dequeue(j, L, D) ==
    /\ L \subseteq Lapsed /\ D \subseteq Due
    /\ Swept(j, L, D) > 0
    /\ ready' = [k \in Jobs |-> IF k = j THEN Swept(k, L, D) - 1 ELSE Swept(k, L, D)]
    /\ lease' = [k \in Jobs |-> IF k = j THEN "live"
                                ELSE IF k \in L THEN "none" ELSE lease[k]]
    /\ delay' = [k \in Jobs |-> IF k \in D THEN "none" ELSE delay[k]]

(* An acknowledgement names the job, not the lease: it drops whatever      *)
(* reservation the job has, even one that another worker now holds.        *)
Ack(j) ==
    /\ lease' = [lease EXCEPT ![j] = "none"]
    /\ UNCHANGED <<ready, delay>>

NackDelayed(j) ==
    /\ lease' = [lease EXCEPT ![j] = "none"]
    /\ delay' = [delay EXCEPT ![j] = "waiting"]
    /\ UNCHANGED ready

(* nack without a delay, and requeue: back into the ready lists at once.   *)
NackNow(j) ==
    /\ lease' = [lease EXCEPT ![j] = "none"]
    /\ ready' = [ready EXCEPT ![j] = @ + 1]
    /\ UNCHANGED delay

(* Time passes: the leases in L lapse and the retries in D become due.     *)
Elapse(L, D) ==
    /\ \A j \in L : lease[j] = "live"
    /\ \A j \in D : delay[j] = "waiting"
    /\ lease' = [j \in Jobs |-> IF j \in L THEN "lapsed" ELSE lease[j]]
    /\ delay' = [j \in Jobs |-> IF j \in D THEN "due" ELSE delay[j]]
    /\ UNCHANGED ready
-----------------------------------------------------------------------------
(* The broker with dutiful clients: a job is enqueued only while the       *)
(* broker does not know of it, and settled only under a lease still live.  *)
QueueNext ==
    \/ \E j \in Jobs :
          \/ ~Queued(j) /\ Enqueue(j)
          \/ \E L \in SUBSET Lapsed, D \in SUBSET Due : Dequeue(j, L, D)
          \/ lease[j] = "live" /\ (Ack(j) \/ NackDelayed(j) \/ NackNow(j))
    \/ \E L \in SUBSET Lapsed, D \in SUBSET Due : Sweep(L, D)
    \/ \E L, D \in SUBSET Jobs : Elapse(L, D)

QueueSpec == QueueInit /\ [][QueueNext]_queue

(* A job is in one place of the broker: one ready copy, or a lease, or a   *)
(* delayed entry.  A second entry is a second, concurrent, execution of    *)
(* the job (the broker hands each entry to whichever worker asks next).    *)
OneEntry ==
    \A j \in Jobs :
       /\ ready[j] <= 1
       /\ ready[j] = 1 => lease[j] = "none" /\ delay[j] = "none"
       /\ lease[j] # "none" => delay[j] = "none"

(* The broker never drops a job on its own: a job it knows of stays known  *)
(* until an acknowledgement under its live lease (the "at-least-once" of   *)
(* docs/architecture/task_23_jobs.md, section 1).                          *)
DropOnlyByAck ==
    [][\A j \in Jobs : Queued(j) /\ ~Queued(j)' => lease[j] = "live"]_queue
=============================================================================
