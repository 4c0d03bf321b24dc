---------------------------- MODULE RedisJobQueue ----------------------------
(***************************************************************************)
(* RedisJobQueue of backend/app/jobs/queue.py, one step per Redis command  *)
(* or transaction: other processes' commands fall between any two of them. *)
(* A poller is a process inside dequeue; a task is the execution a job was *)
(* handed to, which settles it.  The Redis keys are the ready lists, the   *)
(* sorted sets inflight and delayed, and the hashes of their priorities.   *)
(* Scores are kept as what a ZRANGEBYSCORE 0..now would say of them: still *)
(* in the future, or past.                                                 *)
(***************************************************************************)
EXTENDS Naturals, FiniteSets, Sequences, SequencesExt

CONSTANTS Jobs, Pollers,
          PriorityOf,       \* the priority column of each job's record
          NoJob,            \* no item in hand
          MaxTaskCrashes,   \* bound: tasks that vanish while holding a job
          MaxPollerCrashes  \* bound: processes that die inside dequeue

Priorities == {"high", "normal", "low"}
NoPriority == "none"

VARIABLES lists,          \* jobs:ready:<priority>
          inflight,       \* jobs:inflight, as the phase of each lease
          inflightPrio,   \* jobs:inflight:prios
          delayed,        \* jobs:delayed, as the phase of each delay
          delayedPrio,    \* jobs:delayed:prios
          poller,         \* where each poller is in dequeue
          task,           \* what the task holding each job is doing
          owed,           \* jobs enqueued and not yet acknowledged (history)
          dropped,        \* jobs in the hand of a poller that died (history)
          crashes         \* crashes so far

keys == <<lists, inflight, inflightPrio, delayed, delayedPrio>>
vars == <<keys, poller, task, owed, dropped, crashes>>

Resting == [pc |-> "idle", todo |-> {}, job |-> NoJob, prio |-> NoPriority]
NoTask  == [pc |-> "none", prio |-> NoPriority]

Or(prio, default) == IF prio = NoPriority THEN default ELSE prio

InHand(j) == \E p \in Pollers : poller[p].pc = "reserve" /\ poller[p].job = j
Known(j) ==
    \/ \E p \in Priorities : j \in ToSet(lists[p])
    \/ inflight[j] # "none" \/ delayed[j] # "none"

TypeOK ==
    /\ lists \in [Priorities -> Seq(Jobs)]
    /\ inflight \in [Jobs -> {"none", "live", "lapsed"}]
    /\ delayed \in [Jobs -> {"none", "waiting", "due"}]
    /\ {inflightPrio, delayedPrio} \subseteq [Jobs -> Priorities \cup {NoPriority}]
    /\ poller \in [Pollers -> [pc : {"idle", "promote", "reclaim", "reserve"} \cup Priorities,
                               todo : SUBSET Jobs, job : Jobs \cup {NoJob},
                               prio : Priorities \cup {NoPriority}]]
    /\ task \in [Jobs -> [pc : {"none", "held", "nack", "requeue"},
                          prio : Priorities \cup {NoPriority}]]
    /\ owed \subseteq Jobs /\ dropped \subseteq Jobs
    /\ crashes \in [task : 0..MaxTaskCrashes, poller : 0..MaxPollerCrashes]

Init ==
    /\ lists = [p \in Priorities |-> << >>]
    /\ inflight = [j \in Jobs |-> "none"] /\ delayed = [j \in Jobs |-> "none"]
    /\ inflightPrio = [j \in Jobs |-> NoPriority]
    /\ delayedPrio = [j \in Jobs |-> NoPriority]
    /\ poller = [p \in Pollers |-> Resting]
    /\ task = [j \in Jobs |-> NoTask]
    /\ owed = {} /\ dropped = {}
    /\ crashes = [task |-> 0, poller |-> 0]
-----------------------------------------------------------------------------
Enqueue(j) ==
    /\ j \notin owed /\ task[j] = NoTask
    /\ lists' = [lists EXCEPT ![PriorityOf[j]] = Append(@, j)]
    /\ owed' = owed \cup {j}
    /\ UNCHANGED <<inflight, inflightPrio, delayed, delayedPrio, poller, task, dropped, crashes>>
-----------------------------------------------------------------------------
(* dequeue                                                                 *)

(* _promote_delayed: ZRANGEBYSCORE of the delayed set.                     *)
ScanDelayed(p) ==
    /\ poller[p] = Resting
    /\ poller' = [poller EXCEPT ![p].pc = "promote",
                                ![p].todo = {j \in Jobs : delayed[j] = "due"}]
    /\ UNCHANGED <<keys, task, owed, dropped, crashes>>

(* HGET of the next item's priority.                                       *)
FetchPriority(p, pc, prios) ==
    /\ poller[p].pc = pc /\ poller[p].job = NoJob
    /\ \E j \in poller[p].todo :
          poller' = [poller EXCEPT ![p].job = j, ![p].todo = @ \ {j},
                                   ![p].prio = Or(prios[j], "normal")]
    /\ UNCHANGED <<keys, task, owed, dropped, crashes>>

(* The transaction that moves the item to its ready list: ZREM and HDEL    *)
(* are happy to find nothing, RPUSH pushes regardless.                     *)
PushBack(p, pc) ==
    /\ poller[p].pc = pc /\ poller[p].job # NoJob
    /\ lists' = [lists EXCEPT ![poller[p].prio] = Append(@, poller[p].job)]
    /\ poller' = [poller EXCEPT ![p].job = NoJob, ![p].prio = NoPriority]
    /\ UNCHANGED <<task, owed, dropped, crashes>>

(* Mutant: the priority is looked up in the hash of the in-flight set.     *)
PromoteFromWrongHash(p) ==
    \/ FetchPriority(p, "promote", inflightPrio)
    \/ /\ PushBack(p, "promote")
       /\ delayed' = [delayed EXCEPT ![poller[p].job] = "none"]
       /\ delayedPrio' = [delayedPrio EXCEPT ![poller[p].job] = NoPriority]
       /\ UNCHANGED <<inflight, inflightPrio>>

Promote(p) ==
    \/ FetchPriority(p, "promote", delayedPrio)
    \/ /\ PushBack(p, "promote")
       /\ delayed' = [delayed EXCEPT ![poller[p].job] = "none"]
       /\ delayedPrio' = [delayedPrio EXCEPT ![poller[p].job] = NoPriority]
       /\ UNCHANGED <<inflight, inflightPrio>>

(* Mutant: the range of ZRANGEBYSCORE is now..+inf.                        *)
ScanInflightOfFuture(p) ==
    /\ poller[p] = [Resting EXCEPT !.pc = "promote"]
    /\ poller' = [poller EXCEPT ![p].pc = "reclaim",
                                ![p].todo = {j \in Jobs : inflight[j] = "live"}]
    /\ UNCHANGED <<keys, task, owed, dropped, crashes>>

(* reclaim_expired_inflight: ZRANGEBYSCORE of the in-flight set.           *)
ScanInflight(p) ==
    /\ poller[p] = [Resting EXCEPT !.pc = "promote"]
    /\ poller' = [poller EXCEPT ![p].pc = "reclaim",
                                ![p].todo = {j \in Jobs : inflight[j] = "lapsed"}]
    /\ UNCHANGED <<keys, task, owed, dropped, crashes>>

(* Mutant: the ZREM is missing from the transaction.                       *)
ReclaimKeepsEntry(p) ==
    \/ FetchPriority(p, "reclaim", inflightPrio)
    \/ PushBack(p, "reclaim") /\ UNCHANGED <<inflight, inflightPrio, delayed, delayedPrio>>

Reclaim(p) ==
    \/ FetchPriority(p, "reclaim", inflightPrio)
    \/ /\ PushBack(p, "reclaim")
       /\ inflight' = [inflight EXCEPT ![poller[p].job] = "none"]
       /\ inflightPrio' = [inflightPrio EXCEPT ![poller[p].job] = NoPriority]
       /\ UNCHANGED <<delayed, delayedPrio>>

(* LPOP of the three lists in turn.                                        *)
StartPopping(p) ==
    /\ poller[p] = [Resting EXCEPT !.pc = "reclaim"]
    /\ poller' = [poller EXCEPT ![p].pc = "high"]
    /\ UNCHANGED <<keys, task, owed, dropped, crashes>>

After(prio) == CASE prio = "high" -> "normal" [] prio = "normal" -> "low" [] prio = "low" -> "idle"

Pop(p) ==
    /\ poller[p].pc \in Priorities
    /\ LET prio == poller[p].pc  list == lists[prio] IN
       IF list = << >>
       THEN /\ poller' = [poller EXCEPT ![p].pc = After(prio)]
            /\ UNCHANGED lists
       ELSE /\ poller' = [poller EXCEPT ![p] =
                   [pc |-> "reserve", todo |-> {}, job |-> Head(list), prio |-> prio]]
            /\ lists' = [lists EXCEPT ![prio] = Tail(@)]
    /\ UNCHANGED <<inflight, inflightPrio, delayed, delayedPrio, task, owed, dropped, crashes>>

(* The transaction that records the reservation; the job is handed out.    *)
Reserve(p) ==
    /\ poller[p].pc = "reserve"
    /\ LET j == poller[p].job IN
       /\ inflight' = [inflight EXCEPT ![j] = "live"]
       /\ inflightPrio' = [inflightPrio EXCEPT ![j] = poller[p].prio]
       /\ task' = [task EXCEPT ![j] = [NoTask EXCEPT !.pc = "held"]]
    /\ poller' = [poller EXCEPT ![p] = Resting]
    /\ UNCHANGED <<lists, delayed, delayedPrio, owed, dropped, crashes>>
-----------------------------------------------------------------------------
Unreserve(j) ==
    /\ inflight' = [inflight EXCEPT ![j] = "none"]
    /\ inflightPrio' = [inflightPrio EXCEPT ![j] = NoPriority]
    /\ task' = [task EXCEPT ![j] = NoTask]

Ack(j) ==
    /\ task[j].pc = "held"
    /\ Unreserve(j)
    /\ owed' = owed \ {j}
    /\ UNCHANGED <<lists, delayed, delayedPrio, poller, dropped, crashes>>

(* nack and requeue first HGET the priority of the reservation.            *)
Return(j, how, default) ==
    /\ task[j].pc = "held"
    /\ task' = [task EXCEPT ![j] = [pc |-> how, prio |-> Or(inflightPrio[j], default)]]
    /\ UNCHANGED <<keys, poller, owed, dropped, crashes>>

NackDelayed(j) ==
    /\ task[j].pc = "nack"
    /\ Unreserve(j)
    /\ delayed' = [delayed EXCEPT ![j] = "waiting"]
    /\ delayedPrio' = [delayedPrio EXCEPT ![j] = task[j].prio]
    /\ UNCHANGED <<lists, poller, owed, dropped, crashes>>

NackNow(j) ==
    /\ task[j].pc = "nack"
    /\ Unreserve(j)
    /\ lists' = [lists EXCEPT ![task[j].prio] = Append(@, j)]
    /\ UNCHANGED <<delayed, delayedPrio, poller, owed, dropped, crashes>>

Requeue(j) ==
    /\ task[j].pc = "requeue"
    /\ Unreserve(j)
    /\ lists' = [lists EXCEPT ![task[j].prio] = <<j>> \o @]
    /\ UNCHANGED <<delayed, delayedPrio, poller, owed, dropped, crashes>>
-----------------------------------------------------------------------------
(* Time and crashes.  A lease lapses only after its task is gone: the      *)
(* tasks here are those that finish within the visibility timeout.         *)
DelayPasses(j) ==
    /\ delayed[j] = "waiting"
    /\ delayed' = [delayed EXCEPT ![j] = "due"]
    /\ UNCHANGED <<lists, inflight, inflightPrio, delayedPrio, poller, task, owed, dropped, crashes>>

LeaseLapses(j) ==
    /\ inflight[j] = "live" /\ task[j] = NoTask
    /\ inflight' = [inflight EXCEPT ![j] = "lapsed"]
    /\ UNCHANGED <<lists, inflightPrio, delayed, delayedPrio, poller, task, owed, dropped, crashes>>

TaskCrashes(j) ==
    /\ task[j] # NoTask
    /\ crashes.task < MaxTaskCrashes
    /\ crashes' = [crashes EXCEPT !.task = @ + 1]
    /\ task' = [task EXCEPT ![j] = NoTask]
    /\ UNCHANGED <<keys, poller, owed, dropped>>

PollerCrashes(p) ==
    /\ poller[p] # Resting
    /\ crashes.poller < MaxPollerCrashes
    /\ crashes' = [crashes EXCEPT !.poller = @ + 1]
    /\ poller' = [poller EXCEPT ![p] = Resting]
    /\ dropped' = dropped \cup {j \in Jobs : poller[p].pc = "reserve" /\ poller[p].job = j}
    /\ UNCHANGED <<keys, task, owed>>
-----------------------------------------------------------------------------
PollerStep(p) ==
    \/ ScanDelayed(p) \/ Promote(p) \/ ScanInflight(p) \/ Reclaim(p)
    \/ StartPopping(p) \/ Pop(p) \/ Reserve(p)

TaskStep(j) ==
    \/ Ack(j)
    \/ Return(j, "nack", "normal") \/ NackDelayed(j) \/ NackNow(j)
    \/ Return(j, "requeue", "high") \/ Requeue(j)

Next ==
    \/ \E p \in Pollers : PollerStep(p) \/ PollerCrashes(p)
    \/ \E j \in Jobs :
          \/ Enqueue(j) \/ TaskStep(j) \/ TaskCrashes(j)
          \/ DelayPasses(j) \/ LeaseLapses(j)

Spec == Init /\ [][Next]_vars
-----------------------------------------------------------------------------
(* Reliable delivery: a job enqueued and not acknowledged is in some key   *)
(* of Redis, or in the hand of the poller about to reserve it; it can be   *)
(* lost there, between LPOP and the reservation, and nowhere else.         *)
NothingLost == \A j \in owed : Known(j) \/ InHand(j) \/ j \in dropped

(* A job waiting in the broker waits at the priority of its record: no     *)
(* HGET finds the hash entry already deleted by another process, and the   *)
(* keys and processes keep their types.                                    *)
PriorityKept ==
    /\ TypeOK
    /\ \A p \in Priorities : \A j \in ToSet(lists[p]) : p = PriorityOf[j]
    /\ \A j \in Jobs : inflight[j] # "none" => inflightPrio[j] = PriorityOf[j]
    /\ \A j \in Jobs : delayed[j] # "none" => delayedPrio[j] = PriorityOf[j]

(* The queue keeps the promise of the JobQueue interface, as its in-memory *)
(* twin does ("identical-semantics queue", task_23_jobs.md:125): a popped  *)
(* job counts as leased from the LPOP on, for ever if its poller died.     *)
Copies(j, s) == Cardinality({i \in DOMAIN s : s[i] = j})

Abstract == INSTANCE LeaseQueue WITH
    ready <- [j \in Jobs |-> Copies(j, lists["high"]) + Copies(j, lists["normal"])
                                + Copies(j, lists["low"])],
    lease <- [j \in Jobs |-> IF InHand(j) \/ j \in dropped THEN "live" ELSE inflight[j]],
    delay <- delayed

ImplementsLeaseQueue == Abstract!QueueSpec

(* A high-priority job is delivered again and again until acknowledged,    *)
(* through crashes, retries and whatever the lower priorities do, while    *)
(* its poller keeps polling, unless a poller that dies drops it.  (Lower   *)
(* priorities can starve: dequeue's order is strict.)                      *)
LiveSpec ==
    /\ Spec
    /\ \A p \in Pollers : WF_vars(PollerStep(p))
    /\ \A j \in Jobs : WF_vars(DelayPasses(j) \/ LeaseLapses(j)) /\ WF_vars(TaskStep(j))

HighIsDelivered ==
    \A j \in Jobs : PriorityOf[j] = "high" => (Known(j) ~> task[j].pc = "held" \/ j \in dropped)
=============================================================================
