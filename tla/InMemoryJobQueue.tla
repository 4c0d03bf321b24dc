--------------------------- MODULE InMemoryJobQueue ---------------------------
(***************************************************************************)
(* InMemoryJobQueue of backend/app/jobs/queue.py: three ready lists, a     *)
(* dictionary of in-flight reservations with an expiry time and one of     *)
(* delayed entries with a ready time, every method under one asyncio lock. *)
(* A dictionary holds at most one entry per job; the lists may repeat one. *)
(* The worker id stored with a reservation is never read and is left out.  *)
(***************************************************************************)
EXTENDS Integers, FiniteSets, Sequences, SequencesExt

CONSTANTS Jobs,
          PriorityOf,   \* the priority column of each job's record
          Visibility,   \* visibility_timeout
          Delays,       \* the delay_seconds clients pass to nack
          MaxTime       \* bound on the clock

Priorities == {"high", "normal", "low"}

ASSUME InMemoryAssumption ==
    /\ PriorityOf \in [Jobs -> Priorities]
    /\ Visibility \in Nat \ {0}
    /\ Delays \subseteq Nat
    /\ MaxTime \in Nat

VARIABLES now,        \* time.time()
          lists,      \* _ready: priority -> list of jobs
          inflight,   \* _inflight: job -> expiry and priority, or NoEntry
          delayed     \* _delayed: job -> ready time and priority, or NoEntry

memoryVars == <<now, lists, inflight, delayed>>

NoEntry == [at |-> -1, prio |-> "normal"]
Present(entry) == entry # NoEntry
Entries == {NoEntry} \cup [at : Nat, prio : Priorities]

(* Mutant: a lease is reclaimed one tick before its expiry.                *)
PastDueEarly(entries, t) == {j \in Jobs : Present(entries[j]) /\ entries[j].at <= t + 1}

PastDue(entries, t) == {j \in Jobs : Present(entries[j]) /\ entries[j].at <= t}
Without(entries, S) == [j \in Jobs |-> IF j \in S THEN NoEntry ELSE entries[j]]

(* The lists once the jobs of s, in that order, are appended each to the   *)
(* list of the priority its entry names.                                   *)
AppendAll(l, s, entries) ==
    LET after[n \in 0..Len(s)] ==
            IF n = 0 THEN l
            ELSE [after[n - 1] EXCEPT ![entries[s[n]].prio] = Append(@, s[n])]
    IN  after[Len(s)]

(* The list that dequeue pops from: high, then normal, then low.           *)
FirstReady(l) ==
    CASE l["high"] # << >>   -> "high"
      [] l["high"] = << >> /\ l["normal"] # << >> -> "normal"
      [] OTHER -> "low"

Known(j) ==
    \/ \E p \in Priorities : j \in ToSet(lists[p])
    \/ Present(inflight[j]) \/ Present(delayed[j])
-----------------------------------------------------------------------------
MemoryInit ==
    /\ now = 0
    /\ lists = [p \in Priorities |-> << >>]
    /\ inflight = [j \in Jobs |-> NoEntry]
    /\ delayed = [j \in Jobs |-> NoEntry]

Enqueue(j) ==
    /\ lists' = [lists EXCEPT ![PriorityOf[j]] = Append(@, j)]
    /\ UNCHANGED <<now, inflight, delayed>>

(* One turn of dequeue's loop: promote what is due, reclaim what expired,  *)
(* pop the first job in priority order.  The dictionaries are walked in    *)
(* insertion order, which the model leaves open.  With nothing to pop the  *)
(* turn changes nothing.                                                   *)
Dequeue ==
    \E promoted \in SetToSeqs(PastDue(delayed, now)),
       expired \in SetToSeqs(PastDue(inflight, now)) :
       LET swept == AppendAll(AppendAll(lists, promoted, delayed), expired, inflight)
           prio  == FirstReady(swept)
       IN  /\ swept[prio] # << >>
           /\ lists' = [swept EXCEPT ![prio] = Tail(@)]
           /\ delayed' = Without(delayed, ToSet(promoted))
           /\ inflight' = [Without(inflight, ToSet(expired)) EXCEPT
                              ![Head(swept[prio])] = [at |-> now + Visibility, prio |-> prio]]
           /\ UNCHANGED now

Ack(j) ==
    /\ inflight' = Without(inflight, {j})
    /\ UNCHANGED <<now, lists, delayed>>

PriorityLeft(j, default) == IF Present(inflight[j]) THEN inflight[j].prio ELSE default

Nack(j, delay) ==
    /\ inflight' = Without(inflight, {j})
    /\ LET prio == PriorityLeft(j, "normal") IN
       IF delay > 0
       THEN /\ delayed' = [delayed EXCEPT ![j] = [at |-> now + delay, prio |-> prio]]
            /\ UNCHANGED lists
       ELSE /\ lists' = [lists EXCEPT ![prio] = Append(@, j)]
            /\ UNCHANGED delayed
    /\ UNCHANGED now

Requeue(j) ==
    /\ inflight' = Without(inflight, {j})
    /\ lists' = [lists EXCEPT ![PriorityLeft(j, "high")] = <<j>> \o @]
    /\ UNCHANGED <<now, delayed>>

(* reclaim_expired_inflight reads the clock at t and then waits for the    *)
(* lock.                                                                   *)
Reclaim(t) ==
    \E expired \in SetToSeqs(PastDue(inflight, t)) :
       /\ expired # << >>
       /\ lists' = AppendAll(lists, expired, inflight)
       /\ inflight' = Without(inflight, ToSet(expired))
       /\ UNCHANGED <<now, delayed>>

Tick ==
    /\ now < MaxTime
    /\ now' = now + 1
    /\ UNCHANGED <<lists, inflight, delayed>>
-----------------------------------------------------------------------------
(* The queue under dutiful clients: the dispatcher enqueues a job once, a  *)
(* worker settles a job while its reservation is still in force.           *)
Reserved(j) == Present(inflight[j]) /\ inflight[j].at > now

MemoryNext ==
    \/ \E j \in Jobs :
          \/ ~Known(j) /\ Enqueue(j)
          \/ Reserved(j) /\ Ack(j)
          \/ \E delay \in Delays : Reserved(j) /\ Nack(j, delay)
          \/ Reserved(j) /\ Requeue(j)
    \/ Dequeue
    \/ \E t \in 0..now : Reclaim(t)
    \/ Tick

MemorySpec == MemoryInit /\ [][MemoryNext]_memoryVars
-----------------------------------------------------------------------------
MemoryTypeOK ==
    /\ now \in 0..MaxTime
    /\ lists \in [Priorities -> Seq(Jobs)]
    /\ inflight \in [Jobs -> Entries]
    /\ delayed \in [Jobs -> Entries]

(* Whatever round of leases, expiries, retries and requeues a job has been *)
(* through, the broker still schedules it at the priority of its record    *)
(* (nack and requeue fall back to a default when the reservation is gone,  *)
(* queue.py:121 and 130: no dutiful client meets the fallback).  The keys  *)
(* keep their types, too.                                                  *)
PriorityKept ==
    MemoryTypeOK /\ \A j \in Jobs :
       /\ \A p \in Priorities : j \in ToSet(lists[p]) => p = PriorityOf[j]
       /\ Present(inflight[j]) => inflight[j].prio = PriorityOf[j]
       /\ Present(delayed[j]) => delayed[j].prio = PriorityOf[j]

(* The queue keeps the promise of the JobQueue interface: every state maps *)
(* to ready counts, leases that lapse when the clock reaches their expiry, *)
(* and delays that fall due likewise.                                      *)
Copies(j, s) == Cardinality({i \in DOMAIN s : s[i] = j})
Phase(entry, early, late) ==
    CASE ~Present(entry) -> "none"
      [] Present(entry) /\ entry.at > now -> early
      [] OTHER -> late

Abstract == INSTANCE LeaseQueue WITH
    ready <- [j \in Jobs |-> Copies(j, lists["high"]) + Copies(j, lists["normal"])
                                + Copies(j, lists["low"])],
    lease <- [j \in Jobs |-> Phase(inflight[j], "live", "lapsed")],
    delay <- [j \in Jobs |-> Phase(delayed[j], "waiting", "due")]

ImplementsLeaseQueue == Abstract!QueueSpec
=============================================================================
