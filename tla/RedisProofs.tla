------------------------------ MODULE RedisProofs ------------------------------
(***************************************************************************)
(* The Redis queue keeps the promise of the JobQueue interface, command by *)
(* command, as long as one process at a time polls: for any set of jobs,   *)
(* any priorities, and any number of crashes of tasks and of the poller.   *)
(* The argument is one equation: a job stands in the lists, in the hand of *)
(* the poller, among those dropped, in the in-flight set and in the        *)
(* delayed set exactly once while it is owed, and nowhere otherwise.       *)
(***************************************************************************)
EXTENDS RedisJobQueue, TLAPS

Leased(j) == IF InHand(j) \/ j \in dropped THEN "live" ELSE inflight[j]
Ready(j) == Copies(j, lists["high"]) + Copies(j, lists["normal"]) + Copies(j, lists["low"])

Broker == INSTANCE LeaseQueueProofs WITH
    ready <- [j \in Jobs |-> Ready(j)], lease <- [j \in Jobs |-> Leased(j)], delay <- delayed

(* What the theorems assume: the other processes share the keys, but one   *)
(* at a time is inside dequeue.                                            *)
OnePoller == \A p, q \in Pollers : p = q
RedisConstants ==
    /\ PriorityOf \in [Jobs -> Priorities] /\ NoJob \notin Jobs
    /\ MaxTaskCrashes \in Nat /\ MaxPollerCrashes \in Nat

One(condition) == IF condition THEN 1 ELSE 0

InOnePlace ==
    \A j \in Jobs :
       Broker!CopiesOf(j, lists) + One(InHand(j)) + One(j \in dropped)
          + One(inflight[j] # "none") + One(delayed[j] # "none") = One(j \in owed)

(* A task holds a live lease, and has read the priority of its job.        *)
TasksHold ==
    \A j \in Jobs :
       /\ task[j].pc # "none" => inflight[j] = "live"
       /\ task[j].pc \in {"nack", "requeue"} => task[j].prio = PriorityOf[j]

(* What a poller has scanned is still as it was: due, or lapsed; and what  *)
(* it has in hand goes by the priority of the job.                         *)
Sure(x) ==
    /\ x.pc = "reserve" => x.job \in Jobs
    /\ x.pc \in {"promote", "reclaim", "reserve"} /\ x.job # NoJob => x.prio = PriorityOf[x.job]
    /\ x.job \notin x.todo
    /\ \A j \in x.todo \cup {x.job} : j # NoJob =>
          /\ x.pc = "promote" => delayed[j] = "due"
          /\ x.pc = "reclaim" => inflight[j] = "lapsed"
ScansHold == \A p \in Pollers : Sure(poller[p])

RedisInv == PriorityKept /\ InOnePlace /\ TasksHold /\ ScansHold
-----------------------------------------------------------------------------
LEMMA SameRanks == Priorities = Broker!Ranks
  BY DEF Priorities, Broker!Ranks

LEMMA SameTerms ==
  /\ \A s : ToSet(s) = Broker!Standing(s)
  /\ \A j, s : Copies(j, s) = Broker!CopiesIn(j, s)
  BY DEF ToSet, Broker!Standing, Copies, Broker!CopiesIn, Broker!Places,
         Cardinality, Broker!Cardinality

LEMMA ReadyCopies ==
  \A j : Ready(j) = Broker!CopiesOf(j, lists) /\ Ready(j)' = Broker!CopiesOf(j, lists')
  BY SameTerms DEF Ready, Broker!CopiesOf

(* The lists, all of whose jobs stand at the priority of their record.     *)
Placed(l) == l \in Broker!Lists /\ \A p \in Priorities : \A j \in Broker!Standing(l[p]) : p = PriorityOf[j]
Hashed(set, prios) == \A j \in Jobs : set[j] # "none" => prios[j] = PriorityOf[j]

LEMMA KeptLists ==
  /\ PriorityKept <=> TypeOK /\ Placed(lists) /\ Hashed(inflight, inflightPrio) /\ Hashed(delayed, delayedPrio)
  /\ PriorityKept' <=> TypeOK' /\ Placed(lists') /\ Hashed(inflight', inflightPrio') /\ Hashed(delayed', delayedPrio')
  BY SameTerms, SameRanks DEF PriorityKept, TypeOK, Placed, Hashed, Broker!Lists

LEMMA ListsHold ==
  ASSUME NEW l, Placed(l), NEW j
  PROVE  Broker!CopiesOf(j, l) \in Nat
         /\ (Broker!CopiesOf(j, l) > 0 <=> \E p \in Priorities : j \in Broker!Standing(l[p]))
  BY Broker!ListsCount, SameRanks DEF Placed

PollerStates == [pc : {"idle", "promote", "reclaim", "reserve"} \cup Priorities, todo : SUBSET Jobs,
                 job : Jobs \cup {NoJob}, prio : Priorities \cup {NoPriority}]

(* The jobs' places, before and after a step: only lists, hand and dropped *)
(* are ever in question.                                                   *)
Hand(x, j) == x.pc = "reserve" /\ x.job = j

LEMMA OnePollersHand ==
  ASSUME OnePoller, NEW p \in Pollers
  PROVE  \A j : (InHand(j) <=> Hand(poller[p], j)) /\ (InHand(j)' <=> Hand(poller'[p], j))
  BY DEF OnePoller, InHand, Hand

(* A job put at the end or the head of its own list is ready once more.    *)
PutIn(m, k) == m = Broker!Appended(lists, PriorityOf[k], k) \/ m = Broker!Prepended(lists, PriorityOf[k], k)

LEMMA JobPlaced ==
  ASSUME RedisConstants, Placed(lists), NEW k \in Jobs, NEW m, PutIn(m, k)
  PROVE  Placed(m) /\ \A j : Broker!CopiesOf(j, m) = Broker!CopiesOf(j, lists) + One(j = k)
  <1>1. PICK p \in Priorities : p = PriorityOf[k]
    BY DEF RedisConstants
  <1>2. lists \in Broker!Lists /\ p \in Broker!Ranks /\ \A j : Broker!CopiesOf(j, lists) \in Nat
    BY <1>1, ListsHold, SameRanks DEF Placed
  <1>3. Broker!Changed(lists, m, p, k, 1) /\ Broker!Standing(m[p]) \subseteq Broker!Standing(lists[p]) \cup {k}
    <2>1. CASE m = Broker!Appended(lists, p, k)
      BY <1>2, <2>1, Broker!ListAppended
    <2>2. CASE m = Broker!Prepended(lists, p, k)
      BY <1>2, <2>2, Broker!ListPrepended
    <2> QED
      BY <1>1, <2>1, <2>2 DEF PutIn
  <1>4. Placed(m)
    BY <1>1, <1>2, <1>3, SameRanks DEF Placed, Broker!Changed
  <1>5. \A j : Broker!CopiesOf(j, m) = Broker!CopiesOf(j, lists) + (IF k = j THEN 1 ELSE 0)
    BY <1>2, <1>3, Broker!ChangedCounts
  <1> QED
    BY <1>4, <1>5 DEF One

(* What InOnePlace says of one job, with its five places as numbers.       *)
LEMMA OneOfFive ==
  ASSUME RedisInv, NEW j \in Jobs
  PROVE  /\ Broker!CopiesOf(j, lists) \in {0, 1}
         /\ Broker!CopiesOf(j, lists) = 1 =>
               ~InHand(j) /\ j \notin dropped /\ inflight[j] = "none" /\ delayed[j] = "none" /\ j \in owed
         /\ InHand(j) => Broker!CopiesOf(j, lists) = 0 /\ j \notin dropped /\ inflight[j] = "none"
                         /\ delayed[j] = "none" /\ j \in owed
         /\ j \in dropped => Broker!CopiesOf(j, lists) = 0 /\ inflight[j] = "none"
                             /\ delayed[j] = "none" /\ j \in owed
         /\ inflight[j] # "none" => Broker!CopiesOf(j, lists) = 0 /\ ~InHand(j) /\ j \notin dropped
                                    /\ delayed[j] = "none" /\ j \in owed
         /\ delayed[j] # "none" => Broker!CopiesOf(j, lists) = 0 /\ ~InHand(j) /\ j \notin dropped
                                   /\ inflight[j] = "none" /\ j \in owed
         /\ j \in owed => \/ Broker!CopiesOf(j, lists) = 1 \/ InHand(j) \/ j \in dropped
                          \/ inflight[j] # "none" \/ delayed[j] # "none"
  <1>1. Broker!CopiesOf(j, lists) \in Nat
    BY KeptLists, ListsHold DEF RedisInv
  <1>2. Broker!CopiesOf(j, lists) + One(InHand(j)) + One(j \in dropped)
           + One(inflight[j] # "none") + One(delayed[j] # "none") = One(j \in owed)
    BY DEF RedisInv, InOnePlace
  <1> QED
    BY <1>1, <1>2 DEF One
-----------------------------------------------------------------------------
(* A step of the poller that touches no key and no hand.                   *)
LEMMA PollerMoves ==
  ASSUME RedisInv, NEW p \in Pollers, NEW x, poller' = [poller EXCEPT ![p] = x],
         UNCHANGED <<keys, task, owed, dropped, crashes>>,
         x \in PollerStates,
         Sure(x), poller[p].pc # "reserve", x.pc # "reserve"
  PROVE  RedisInv' /\ UNCHANGED Broker!queue
  <1>1. /\ lists' = lists /\ inflight' = inflight /\ inflightPrio' = inflightPrio /\ delayed' = delayed
        /\ delayedPrio' = delayedPrio /\ task' = task /\ owed' = owed /\ dropped' = dropped
        /\ crashes' = crashes
    BY DEF keys
  <1>2. TypeOK /\ p \in DOMAIN poller
    BY DEF RedisInv, PriorityKept, TypeOK
  <1>3. \A j : InHand(j)' <=> InHand(j)
    BY <1>2 DEF InHand
  <1>4. TypeOK'
    BY <1>1, <1>2 DEF TypeOK, PollerStates
  <1>5. PriorityKept'
    BY <1>1, <1>4, KeptLists DEF RedisInv
  <1>6. InOnePlace'
    BY <1>1, <1>3 DEF RedisInv, InOnePlace, One
  <1>7. TasksHold'
    BY <1>1 DEF RedisInv, TasksHold
  <1>8. ScansHold'
    BY <1>1, <1>2 DEF RedisInv, ScansHold, Sure
  <1>9. UNCHANGED Broker!queue
    BY <1>1, <1>3 DEF Broker!queue, Ready, Leased
  <1> QED
    BY <1>5, <1>6, <1>7, <1>8, <1>9 DEF RedisInv

(* The scans, the fetches of priorities and the LPOPs that find nothing.   *)
Scanned(pc, todo) == [pc |-> pc, todo |-> todo, job |-> NoJob, prio |-> NoPriority]
Moved(p, pc) == [poller EXCEPT ![p].pc = pc]
MovedWith(p, pc, todo) == [poller EXCEPT ![p].pc = pc, ![p].todo = todo]

LEMMA ScannedFields ==
  ASSUME TypeOK, NEW p \in Pollers, NEW a, NEW b, poller[p] = Scanned(a, b), NEW pc, NEW todo
  PROVE  /\ MovedWith(p, pc, todo) = [poller EXCEPT ![p] = Scanned(pc, todo)]
         /\ Moved(p, pc) = [poller EXCEPT ![p] = Scanned(pc, b)]
  <1>1. [Scanned(a, b) EXCEPT !.pc = pc] = Scanned(pc, b) /\ [Scanned(pc, b) EXCEPT !.todo = todo] = Scanned(pc, todo)
    BY DEF Scanned
  <1>2. [poller EXCEPT ![p].pc = pc] = [poller EXCEPT ![p] = Scanned(pc, b)]
    BY <1>1 DEF TypeOK
  <1>3. PICK f : f = [poller EXCEPT ![p] = Scanned(pc, b)]
    OBVIOUS
  <1>4. [f EXCEPT ![p].todo = todo] = [poller EXCEPT ![p] = Scanned(pc, todo)]
    BY <1>1, <1>3 DEF TypeOK
  <1>5. [poller EXCEPT ![p].pc = pc, ![p].todo = todo] = [f EXCEPT ![p].todo = todo]
    BY <1>2, <1>3
  <1> QED
    BY <1>2, <1>4, <1>5 DEF Moved, MovedWith

LEMMA ScanMoves ==
  ASSUME RedisConstants, RedisInv, NEW p \in Pollers, NEW todo \in SUBSET Jobs,
         NEW pc \in {"promote", "reclaim", "high"},
         poller' = [poller EXCEPT ![p] = Scanned(pc, todo)], poller[p].pc # "reserve",
         pc = "promote" => \A j \in todo : delayed[j] = "due",
         pc = "reclaim" => \A j \in todo : inflight[j] = "lapsed",
         UNCHANGED <<keys, task, owed, dropped, crashes>>
  PROVE  RedisInv' /\ UNCHANGED Broker!queue
  <1>1. PICK x : x = Scanned(pc, todo)
    OBVIOUS
  <1>2. x.pc = pc /\ x.todo = todo /\ x.job = NoJob /\ x.prio = NoPriority
        /\ x \in PollerStates
    BY <1>1 DEF Scanned, Priorities, PollerStates
  <1>3. Sure(x)
    BY <1>2 DEF Sure, RedisConstants
  <1> QED
    BY <1>1, <1>2, <1>3, PollerMoves

LEMMA ScanStep ==
  ASSUME RedisConstants, RedisInv, NEW p \in Pollers, ScanDelayed(p) \/ ScanInflight(p) \/ StartPopping(p)
  PROVE  RedisInv' /\ UNCHANGED Broker!queue
  <1>1. CASE ScanDelayed(p)
    <2>0. PICK todo : todo = {j \in Jobs : delayed[j] = "due"}
      OBVIOUS
    <2>1. poller' = [poller EXCEPT ![p] = Scanned("promote", todo)] /\ poller[p].pc # "reserve"
          /\ UNCHANGED <<keys, task, owed, dropped, crashes>>
      <3>1. poller[p] = Scanned("idle", {}) /\ poller[p].pc = "idle"
        BY <1>1 DEF ScanDelayed, Resting, Scanned
      <3>2. TypeOK
        BY DEF RedisInv, PriorityKept
      <3>3. MovedWith(p, "promote", todo) = [poller EXCEPT ![p] = Scanned("promote", todo)]
        BY <3>1, <3>2, ScannedFields
      <3> QED
        BY <1>1, <2>0, <3>1, <3>3 DEF MovedWith, ScanDelayed
    <2>2. todo \in SUBSET Jobs /\ \A j \in todo : delayed[j] = "due"
      BY <2>0
    <2> QED
      BY <2>1, <2>2, ScanMoves
  <1>2. CASE ScanInflight(p)
    <2>0. PICK todo : todo = {j \in Jobs : inflight[j] = "lapsed"}
      OBVIOUS
    <2>1. poller' = [poller EXCEPT ![p] = Scanned("reclaim", todo)] /\ poller[p].pc # "reserve"
          /\ UNCHANGED <<keys, task, owed, dropped, crashes>>
      <3>1. poller[p] = Scanned("promote", {}) /\ poller[p].pc = "promote"
        BY <1>2 DEF ScanInflight, Resting, Scanned
      <3>2. TypeOK
        BY DEF RedisInv, PriorityKept
      <3>3. MovedWith(p, "reclaim", todo) = [poller EXCEPT ![p] = Scanned("reclaim", todo)]
        BY <3>1, <3>2, ScannedFields
      <3> QED
        BY <1>2, <2>0, <3>1, <3>3 DEF MovedWith, ScanInflight
    <2>2. todo \in SUBSET Jobs /\ \A j \in todo : inflight[j] = "lapsed"
      BY <2>0
    <2> QED
      BY <2>1, <2>2, ScanMoves
  <1>3. CASE StartPopping(p)
    <2>1. poller' = [poller EXCEPT ![p] = Scanned("high", {})] /\ poller[p].pc # "reserve"
          /\ UNCHANGED <<keys, task, owed, dropped, crashes>>
      <3>1. poller[p] = Scanned("reclaim", {}) /\ poller[p].pc = "reclaim"
        BY <1>3 DEF StartPopping, Resting, Scanned
      <3>2. TypeOK
        BY DEF RedisInv, PriorityKept
      <3>3. Moved(p, "high") = [poller EXCEPT ![p] = Scanned("high", {})]
        BY <3>1, <3>2, ScannedFields
      <3> QED
        BY <1>3, <3>1, <3>3 DEF Moved, StartPopping
    <2> QED
      BY <2>1, ScanMoves
  <1> QED
    BY <1>1, <1>2, <1>3

LEMMA FetchStep ==
  ASSUME RedisConstants, RedisInv, NEW p \in Pollers,
         FetchPriority(p, "promote", delayedPrio) \/ FetchPriority(p, "reclaim", inflightPrio)
  PROVE  RedisInv' /\ UNCHANGED Broker!queue
  <1>1. Sure(poller[p]) /\ poller[p] \in PollerStates
        /\ p \in DOMAIN poller
    BY DEF RedisInv, ScansHold, PriorityKept, TypeOK, PollerStates
  <1>2. PICK j, prio :
           /\ j \in poller[p].todo
           /\ poller' = [poller EXCEPT ![p].job = j, ![p].todo = @ \ {j}, ![p].prio = prio]
           /\ prio = PriorityOf[j] /\ poller[p].pc \in {"promote", "reclaim"}
           /\ UNCHANGED <<keys, task, owed, dropped, crashes>>
    <2>1. \A j \in Jobs : PriorityOf[j] # NoPriority
      BY DEF RedisConstants, Priorities, NoPriority
    <2>2. Hashed(delayed, delayedPrio) /\ Hashed(inflight, inflightPrio)
      BY KeptLists DEF RedisInv
    <2>3. CASE FetchPriority(p, "promote", delayedPrio)
      <3>1. PICK j \in poller[p].todo :
               poller' = [poller EXCEPT ![p].job = j, ![p].todo = @ \ {j},
                                        ![p].prio = Or(delayedPrio[j], "normal")]
        BY <2>3 DEF FetchPriority
      <3>2. delayed[j] = "due" /\ j \in Jobs
        BY <1>1, <2>3 DEF Sure, FetchPriority, RedisConstants, PollerStates
      <3>3. Or(delayedPrio[j], "normal") = PriorityOf[j]
        BY <2>1, <2>2, <3>2 DEF Hashed, Or
      <3> QED
        BY <2>3, <3>1, <3>3 DEF FetchPriority
    <2>4. CASE FetchPriority(p, "reclaim", inflightPrio)
      <3>1. PICK j \in poller[p].todo :
               poller' = [poller EXCEPT ![p].job = j, ![p].todo = @ \ {j},
                                        ![p].prio = Or(inflightPrio[j], "normal")]
        BY <2>4 DEF FetchPriority
      <3>2. inflight[j] = "lapsed" /\ j \in Jobs
        BY <1>1, <2>4 DEF Sure, FetchPriority, RedisConstants, PollerStates
      <3>3. Or(inflightPrio[j], "normal") = PriorityOf[j]
        BY <2>1, <2>2, <3>2 DEF Hashed, Or
      <3> QED
        BY <2>4, <3>1, <3>3 DEF FetchPriority
    <2> QED
      BY <2>3, <2>4
  <1>3. PICK x : x = [poller[p] EXCEPT !.job = j, !.todo = @ \ {j}, !.prio = prio]
    OBVIOUS
  <1>4. poller' = [poller EXCEPT ![p] = x]
    BY <1>1, <1>2, <1>3
  <1>5. j \in Jobs /\ PriorityOf[j] \in Priorities
    BY <1>1, <1>2 DEF RedisConstants, PollerStates
  <1>6. /\ x.pc = poller[p].pc /\ x.todo = poller[p].todo \ {j} /\ x.job = j /\ x.prio = PriorityOf[j]
        /\ x \in PollerStates
    BY <1>1, <1>2, <1>3, <1>5 DEF PollerStates
  <1>7. Sure(x)
    BY <1>1, <1>2, <1>5, <1>6 DEF Sure
  <1> QED
    BY <1>2, <1>4, <1>6, <1>7, PollerMoves
-----------------------------------------------------------------------------
(* A step about one job that is not the poller's.                          *)
LEMMA JobStep ==
  ASSUME RedisInv, NEW k \in Jobs, NEW n \in Int, poller' = poller, dropped' = dropped, TypeOK', Placed(lists'),
         \A j \in Jobs : Broker!CopiesOf(j, lists') = Broker!CopiesOf(j, lists) + (IF j = k THEN n ELSE 0),
         \A j \in Jobs \ {k} :
            /\ inflight'[j] = inflight[j] /\ delayed'[j] = delayed[j] /\ task'[j] = task[j]
            /\ inflightPrio'[j] = inflightPrio[j] /\ delayedPrio'[j] = delayedPrio[j]
            /\ j \in owed' <=> j \in owed,
         inflight'[k] # "none" => inflightPrio'[k] = PriorityOf[k],
         delayed'[k] # "none" => delayedPrio'[k] = PriorityOf[k],
         n + One(inflight'[k] # "none") + One(delayed'[k] # "none") - One(k \in owed')
           = One(inflight[k] # "none") + One(delayed[k] # "none") - One(k \in owed),
         task'[k].pc # "none" => inflight'[k] = "live",
         task'[k].pc \in {"nack", "requeue"} => task'[k].prio = PriorityOf[k],
         delayed[k] = "due" => delayed'[k] = "due",
         inflight[k] = "lapsed" => inflight'[k] = "lapsed"
  PROVE  RedisInv' /\ \A j : InHand(j)' <=> InHand(j)
  <1>1. \A j : InHand(j)' <=> InHand(j)
    BY DEF InHand
  <1>2. PriorityKept'
    <2>1. Hashed(inflight, inflightPrio) /\ Hashed(delayed, delayedPrio)
      BY KeptLists DEF RedisInv
    <2>2. Hashed(inflight', inflightPrio') /\ Hashed(delayed', delayedPrio')
      BY <2>1 DEF Hashed
    <2> QED
      BY <2>2, KeptLists
  <1>3. InOnePlace'
    <2> SUFFICES ASSUME NEW j \in Jobs
                 PROVE  Broker!CopiesOf(j, lists') + One(InHand(j)') + One(j \in dropped')
                           + One(inflight'[j] # "none") + One(delayed'[j] # "none") = One(j \in owed')
      BY DEF InOnePlace, One
    <2>1. Broker!CopiesOf(j, lists) + One(InHand(j)) + One(j \in dropped)
             + One(inflight[j] # "none") + One(delayed[j] # "none") = One(j \in owed)
      BY DEF RedisInv, InOnePlace
    <2>2. Broker!CopiesOf(j, lists) \in Nat
      BY KeptLists, ListsHold DEF RedisInv
    <2>3. One(InHand(j)') = One(InHand(j)) /\ One(j \in dropped') = One(j \in dropped)
      BY <1>1 DEF One
    <2>4. CASE j = k
      BY <2>1, <2>2, <2>3, <2>4 DEF One
    <2>5. CASE j # k
      BY <2>1, <2>2, <2>3, <2>5 DEF One
    <2> QED
      BY <2>4, <2>5
  <1>4. TasksHold'
    BY DEF RedisInv, TasksHold
  <1>5. ScansHold'
    <2> SUFFICES ASSUME NEW p \in Pollers  PROVE Sure(poller[p])'
      BY DEF ScansHold
    <2>1. Sure(poller[p])
      BY DEF RedisInv, ScansHold
    <2>2. poller[p].todo \subseteq Jobs /\ poller[p].job \in Jobs \cup {NoJob}
      BY DEF RedisInv, PriorityKept, TypeOK
    <2>3. \A j \in Jobs : (delayed[j] = "due" => delayed'[j] = "due")
                          /\ (inflight[j] = "lapsed" => inflight'[j] = "lapsed")
      OBVIOUS
    <2> QED
      BY <2>1, <2>2, <2>3 DEF Sure
  <1> QED
    BY <1>1, <1>2, <1>3, <1>4, <1>5 DEF RedisInv

LEMMA TypesOfKeys ==
  ASSUME RedisInv
  PROVE  /\ TypeOK /\ Placed(lists) /\ lists \in [Priorities -> Seq(Jobs)]
         /\ inflight \in [Jobs -> {"none", "live", "lapsed"}] /\ delayed \in [Jobs -> {"none", "waiting", "due"}]
         /\ inflightPrio \in [Jobs -> Priorities \cup {NoPriority}]
         /\ delayedPrio \in [Jobs -> Priorities \cup {NoPriority}]
         /\ task \in [Jobs -> [pc : {"none", "held", "nack", "requeue"}, prio : Priorities \cup {NoPriority}]]
         /\ \A j \in Jobs : /\ inflight[j] # "none" => inflightPrio[j] = PriorityOf[j]
                            /\ delayed[j] # "none" => delayedPrio[j] = PriorityOf[j]
                            /\ Broker!CopiesOf(j, lists) \in Nat
         /\ owed \subseteq Jobs /\ dropped \subseteq Jobs
         /\ crashes \in [task : 0..MaxTaskCrashes, poller : 0..MaxPollerCrashes]
  BY KeptLists, ListsHold DEF RedisInv, TypeOK, Hashed

LEMMA PlacedIsTyped == ASSUME NEW l, Placed(l)  PROVE l \in [Priorities -> Seq(Jobs)]
  BY SameRanks DEF Placed, Broker!Lists

(* enqueue (queue.py:203-205) of a job that is not owed.                   *)
LEMMA EnqueueStep ==
  ASSUME RedisConstants, RedisInv, NEW k \in Jobs, Enqueue(k)  PROVE RedisInv' /\ Broker!QueueNext
  <1>1. /\ lists' = Broker!Appended(lists, PriorityOf[k], k) /\ owed' = owed \cup {k} /\ k \notin owed
        /\ task[k].pc = "none" /\ inflight' = inflight /\ inflightPrio' = inflightPrio
        /\ delayed' = delayed /\ delayedPrio' = delayedPrio /\ poller' = poller /\ task' = task
        /\ dropped' = dropped /\ crashes' = crashes
    BY DEF Enqueue, Broker!Appended, NoTask
  <1>2. Placed(lists') /\ \A j : Broker!CopiesOf(j, lists') = Broker!CopiesOf(j, lists) + One(j = k)
    <2>1. PutIn(lists', k)
      BY <1>1 DEF PutIn
    <2> QED
      BY <2>1, TypesOfKeys, JobPlaced
  <1>3. TypeOK'
    BY <1>1, <1>2, TypesOfKeys, PlacedIsTyped DEF TypeOK
  <1>4. /\ Broker!CopiesOf(k, lists) = 0 /\ ~InHand(k) /\ k \notin dropped
        /\ inflight[k] = "none" /\ delayed[k] = "none"
    BY <1>1, OneOfFive
  <1>5. RedisInv' /\ \A j : InHand(j)' <=> InHand(j)
    <2>1. \A j \in Jobs : Broker!CopiesOf(j, lists') = Broker!CopiesOf(j, lists) + (IF j = k THEN 1 ELSE 0)
      BY <1>2 DEF One
    <2>2. 1 + One(inflight'[k] # "none") + One(delayed'[k] # "none") - One(k \in owed')
            = One(inflight[k] # "none") + One(delayed[k] # "none") - One(k \in owed)
      <3>1. inflight'[k] = "none" /\ delayed'[k] = "none" /\ k \in owed' /\ k \notin owed
        BY <1>1, <1>4
      <3>2. /\ One(inflight'[k] # "none") = 0 /\ One(delayed'[k] # "none") = 0 /\ One(k \in owed') = 1
            /\ One(inflight[k] # "none") = 0 /\ One(delayed[k] # "none") = 0 /\ One(k \in owed) = 0
        BY <1>4, <3>1 DEF One
      <3> QED
        BY <3>2
    <2> QED
      BY <1>1, <1>2, <1>3, <1>4, <2>1, <2>2, JobStep
  <1>6. Broker!Enqueue(k) /\ ~Broker!Queued(k)
    <2>1. \A j \in Jobs : Ready(j)' = IF j = k THEN Ready(k) + 1 ELSE Ready(j)
      BY <1>2, ReadyCopies, TypesOfKeys DEF One
    <2>2. \A j \in Jobs : Leased(j)' = Leased(j)
      BY <1>1, <1>5 DEF Leased
    <2>3. Ready(k) = 0 /\ Leased(k) = "none"
      BY <1>4, ReadyCopies DEF Leased
    <2>4. ~Broker!Queued(k)
      BY <1>4, <2>3 DEF Broker!Queued
    <2>5. Broker!Enqueue(k)
      BY <1>1, <2>1, <2>2 DEF Broker!Enqueue
    <2> QED
      BY <2>4, <2>5
  <1> QED
    BY <1>5, <1>6 DEF Broker!QueueNext

(* The counts of one job, before or after a step, as numbers.              *)
LEMMA Ones == One(TRUE) = 1 /\ One(FALSE) = 0
  BY DEF One

LEMMA TaskHolds ==
  ASSUME RedisInv, NEW k \in Jobs, task[k].pc # "none"
  PROVE  /\ inflight[k] = "live" /\ delayed[k] = "none" /\ Broker!CopiesOf(k, lists) = 0 /\ ~InHand(k)
         /\ k \notin dropped /\ k \in owed /\ Leased(k) = "live" /\ inflightPrio[k] = PriorityOf[k]
  <1>1. inflight[k] = "live"
    BY DEF RedisInv, TasksHold
  <1> QED
    BY <1>1, OneOfFive, TypesOfKeys DEF Leased

(* Steps about one job that leave the lists alone.                         *)
LEMMA KeyStep ==
  ASSUME RedisInv, NEW k \in Jobs, lists' = lists, poller' = poller, dropped' = dropped, TypeOK',
         \A j \in Jobs \ {k} :
            /\ inflight'[j] = inflight[j] /\ delayed'[j] = delayed[j] /\ task'[j] = task[j]
            /\ inflightPrio'[j] = inflightPrio[j] /\ delayedPrio'[j] = delayedPrio[j]
            /\ j \in owed' <=> j \in owed,
         inflight'[k] # "none" => inflightPrio'[k] = PriorityOf[k],
         delayed'[k] # "none" => delayedPrio'[k] = PriorityOf[k],
         One(inflight'[k] # "none") + One(delayed'[k] # "none") - One(k \in owed')
           = One(inflight[k] # "none") + One(delayed[k] # "none") - One(k \in owed),
         task'[k].pc # "none" => inflight'[k] = "live",
         task'[k].pc \in {"nack", "requeue"} => task'[k].prio = PriorityOf[k],
         delayed[k] = "due" => delayed'[k] = "due",
         inflight[k] = "lapsed" => inflight'[k] = "lapsed"
  PROVE  /\ RedisInv' /\ \A j : InHand(j)' <=> InHand(j)
         /\ \A j \in Jobs : Ready(j)' = Ready(j) /\ (j # k => Leased(j)' = Leased(j))
  <1>1. \A j \in Jobs : Broker!CopiesOf(j, lists') = Broker!CopiesOf(j, lists) + (IF j = k THEN 0 ELSE 0)
    BY TypesOfKeys
  <1>2. Placed(lists')
    BY TypesOfKeys
  <1>3. One(inflight'[k] # "none") \in Int /\ One(delayed'[k] # "none") \in Int
    BY DEF One
  <1>4. 0 + One(inflight'[k] # "none") + One(delayed'[k] # "none") - One(k \in owed')
           = One(inflight[k] # "none") + One(delayed[k] # "none") - One(k \in owed)
    BY <1>3
  <1>5. RedisInv' /\ \A j : InHand(j)' <=> InHand(j)
    BY <1>1, <1>2, <1>4, JobStep
  <1> QED
    BY <1>5, ReadyCopies DEF Leased

(* ack (queue.py:237-243): the job is forgotten.                           *)
LEMMA AckStep ==
  ASSUME RedisConstants, RedisInv, NEW k \in Jobs, Ack(k)  PROVE RedisInv' /\ Broker!QueueNext
  <1>1. /\ task[k].pc = "held" /\ inflight' = [inflight EXCEPT ![k] = "none"]
        /\ inflightPrio' = [inflightPrio EXCEPT ![k] = NoPriority] /\ task' = [task EXCEPT ![k] = NoTask]
        /\ owed' = owed \ {k} /\ lists' = lists /\ delayed' = delayed /\ delayedPrio' = delayedPrio
        /\ poller' = poller /\ dropped' = dropped /\ crashes' = crashes
    BY DEF Ack, Unreserve
  <1>2. TypeOK'
    BY <1>1, TypesOfKeys DEF TypeOK, NoTask
  <1>3. /\ inflight[k] = "live" /\ delayed[k] = "none" /\ k \in owed /\ Leased(k) = "live"
        /\ ~InHand(k) /\ k \notin dropped
    BY <1>1, TaskHolds
  <1>4. inflight'[k] = "none" /\ delayed'[k] = "none" /\ task'[k].pc = "none" /\ k \notin owed'
    BY <1>1, <1>3, TypesOfKeys DEF NoTask
  <1>5. \A j \in Jobs \ {k} :
            /\ inflight'[j] = inflight[j] /\ delayed'[j] = delayed[j] /\ task'[j] = task[j]
            /\ inflightPrio'[j] = inflightPrio[j] /\ delayedPrio'[j] = delayedPrio[j]
            /\ j \in owed' <=> j \in owed
    BY <1>1, TypesOfKeys
  <1>6. One(inflight'[k] # "none") + One(delayed'[k] # "none") - One(k \in owed')
           = One(inflight[k] # "none") + One(delayed[k] # "none") - One(k \in owed)
    <2>1. /\ One(inflight'[k] # "none") = 0 /\ One(delayed'[k] # "none") = 0 /\ One(k \in owed') = 0
          /\ One(inflight[k] # "none") = 1 /\ One(delayed[k] # "none") = 0 /\ One(k \in owed) = 1
      BY <1>3, <1>4 DEF One
    <2> QED
      BY <2>1
  <1>7. /\ RedisInv' /\ \A j : InHand(j)' <=> InHand(j)
        /\ \A j \in Jobs : Ready(j)' = Ready(j) /\ (j # k => Leased(j)' = Leased(j))
    BY <1>1, <1>2, <1>3, <1>4, <1>5, <1>6, KeyStep
  <1>8. Leased(k)' = "none"
    BY <1>1, <1>3, <1>4, <1>7 DEF Leased
  <1>9. Broker!Ack(k)
    BY <1>1, <1>7, <1>8 DEF Broker!Ack
  <1> QED
    BY <1>3, <1>7, <1>9 DEF Broker!QueueNext

(* nack and requeue read the priority of the reservation: it is there.     *)
LEMMA ReturnStep ==
  ASSUME RedisConstants, RedisInv, NEW k \in Jobs, Return(k, "nack", "normal") \/ Return(k, "requeue", "high")
  PROVE  RedisInv' /\ UNCHANGED Broker!queue
  <1>1. PICK how \in {"nack", "requeue"} :
           /\ task[k].pc = "held" /\ task' = [task EXCEPT ![k] = [pc |-> how, prio |-> PriorityOf[k]]]
           /\ lists' = lists /\ inflight' = inflight /\ inflightPrio' = inflightPrio /\ delayed' = delayed
           /\ delayedPrio' = delayedPrio /\ poller' = poller /\ owed' = owed
           /\ dropped' = dropped /\ crashes' = crashes
    <2>1. task[k].pc = "held"
      BY DEF Return
    <2>2. inflightPrio[k] = PriorityOf[k] /\ PriorityOf[k] # NoPriority
      BY <2>1, TaskHolds DEF RedisConstants, Priorities, NoPriority
    <2>3. Or(inflightPrio[k], "normal") = PriorityOf[k] /\ Or(inflightPrio[k], "high") = PriorityOf[k]
      BY <2>2 DEF Or
    <2> QED
      BY <2>3 DEF Return, keys
  <1>2. TypeOK'
    BY <1>1, TypesOfKeys DEF TypeOK, RedisConstants
  <1>3. inflight[k] = "live" /\ delayed[k] = "none"
    BY <1>1, TaskHolds
  <1>4. task'[k].pc = how /\ task'[k].prio = PriorityOf[k]
    BY <1>1, TypesOfKeys
  <1>5. \A j \in Jobs \ {k} : task'[j] = task[j]
    BY <1>1, TypesOfKeys
  <1>6. inflight'[k] # "none" => inflightPrio'[k] = PriorityOf[k]
    BY <1>1, TypesOfKeys
  <1>7. One(inflight'[k] # "none") + One(delayed'[k] # "none") - One(k \in owed')
           = One(inflight[k] # "none") + One(delayed[k] # "none") - One(k \in owed)
    BY <1>1
  <1>8. /\ RedisInv' /\ \A j : InHand(j)' <=> InHand(j)
        /\ \A j \in Jobs : Ready(j)' = Ready(j) /\ (j # k => Leased(j)' = Leased(j))
    BY <1>1, <1>2, <1>3, <1>4, <1>5, <1>6, <1>7, KeyStep
  <1>9. UNCHANGED Broker!queue
    BY <1>1, <1>8 DEF Broker!queue, Leased
  <1> QED
    BY <1>8, <1>9

(* nack with a delay (queue.py:245-255).                                   *)
LEMMA NackDelayedStep ==
  ASSUME RedisConstants, RedisInv, NEW k \in Jobs, NackDelayed(k)  PROVE RedisInv' /\ Broker!QueueNext
  <1>1. /\ task[k].pc = "nack" /\ inflight' = [inflight EXCEPT ![k] = "none"]
        /\ inflightPrio' = [inflightPrio EXCEPT ![k] = NoPriority] /\ task' = [task EXCEPT ![k] = NoTask]
        /\ delayed' = [delayed EXCEPT ![k] = "waiting"] /\ delayedPrio' = [delayedPrio EXCEPT ![k] = task[k].prio]
        /\ lists' = lists /\ poller' = poller /\ owed' = owed /\ dropped' = dropped /\ crashes' = crashes
    BY DEF NackDelayed, Unreserve
  <1>2. TypeOK'
    BY <1>1, TypesOfKeys DEF TypeOK, NoTask
  <1>3. /\ inflight[k] = "live" /\ delayed[k] = "none" /\ k \in owed /\ Leased(k) = "live"
        /\ ~InHand(k) /\ k \notin dropped /\ task[k].prio = PriorityOf[k]
    BY <1>1, TaskHolds DEF RedisInv, TasksHold
  <1>4. inflight'[k] = "none" /\ delayed'[k] = "waiting" /\ task'[k].pc = "none" /\ delayedPrio'[k] = PriorityOf[k]
    BY <1>1, <1>3, TypesOfKeys DEF NoTask
  <1>5. \A j \in Jobs \ {k} :
            /\ inflight'[j] = inflight[j] /\ delayed'[j] = delayed[j] /\ task'[j] = task[j]
            /\ inflightPrio'[j] = inflightPrio[j] /\ delayedPrio'[j] = delayedPrio[j]
    BY <1>1, TypesOfKeys
  <1>6. One(inflight'[k] # "none") + One(delayed'[k] # "none") - One(k \in owed')
           = One(inflight[k] # "none") + One(delayed[k] # "none") - One(k \in owed)
    BY <1>1, <1>3, <1>4 DEF One
  <1>7. /\ RedisInv' /\ \A j : InHand(j)' <=> InHand(j)
        /\ \A j \in Jobs : Ready(j)' = Ready(j) /\ (j # k => Leased(j)' = Leased(j))
    BY <1>1, <1>2, <1>3, <1>4, <1>5, <1>6, KeyStep
  <1>8. Leased(k)' = "none"
    BY <1>1, <1>3, <1>4, <1>7 DEF Leased
  <1>9. Broker!NackDelayed(k)
    BY <1>1, <1>7, <1>8 DEF Broker!NackDelayed
  <1> QED
    BY <1>3, <1>7, <1>9 DEF Broker!QueueNext

(* nack without a delay, and requeue (queue.py:256-267): back to a list.   *)
LEMMA NackNowStep ==
  ASSUME RedisConstants, RedisInv, NEW k \in Jobs, NackNow(k) \/ Requeue(k)  PROVE RedisInv' /\ Broker!QueueNext
  <1>1. /\ task[k].pc \in {"nack", "requeue"} /\ inflight' = [inflight EXCEPT ![k] = "none"]
        /\ inflightPrio' = [inflightPrio EXCEPT ![k] = NoPriority] /\ task' = [task EXCEPT ![k] = NoTask]
        /\ delayed' = delayed /\ delayedPrio' = delayedPrio
        /\ poller' = poller /\ owed' = owed /\ dropped' = dropped /\ crashes' = crashes
    BY DEF NackNow, Requeue, Unreserve
  <1>2. /\ inflight[k] = "live" /\ delayed[k] = "none" /\ k \in owed /\ Leased(k) = "live"
        /\ ~InHand(k) /\ k \notin dropped /\ task[k].prio = PriorityOf[k]
    BY <1>1, TaskHolds DEF RedisInv, TasksHold
  <1>3. PutIn(lists', k)
    BY <1>2 DEF NackNow, Requeue, PutIn, Broker!Appended, Broker!Prepended
  <1>4. Placed(lists') /\ \A j : Broker!CopiesOf(j, lists') = Broker!CopiesOf(j, lists) + One(j = k)
    BY <1>3, TypesOfKeys, JobPlaced
  <1>5. TypeOK'
    BY <1>1, <1>4, TypesOfKeys, PlacedIsTyped DEF TypeOK, NoTask
  <1>6. inflight'[k] = "none" /\ delayed'[k] = "none" /\ task'[k].pc = "none"
    BY <1>1, <1>2, TypesOfKeys DEF NoTask
  <1>7. \A j \in Jobs \ {k} :
            /\ inflight'[j] = inflight[j] /\ delayed'[j] = delayed[j] /\ task'[j] = task[j]
            /\ inflightPrio'[j] = inflightPrio[j] /\ delayedPrio'[j] = delayedPrio[j]
    BY <1>1, TypesOfKeys
  <1>8. 1 + One(inflight'[k] # "none") + One(delayed'[k] # "none") - One(k \in owed')
           = One(inflight[k] # "none") + One(delayed[k] # "none") - One(k \in owed)
    <2>1. /\ One(inflight'[k] # "none") = 0 /\ One(delayed'[k] # "none") = 0 /\ One(k \in owed') = 1
          /\ One(inflight[k] # "none") = 1 /\ One(delayed[k] # "none") = 0 /\ One(k \in owed) = 1
      BY <1>1, <1>2, <1>6 DEF One
    <2> QED
      BY <2>1
  <1>9. \A j \in Jobs : Broker!CopiesOf(j, lists') = Broker!CopiesOf(j, lists) + (IF j = k THEN 1 ELSE 0)
    BY <1>4 DEF One
  <1>10. RedisInv' /\ \A j : InHand(j)' <=> InHand(j)
    BY <1>1, <1>2, <1>4, <1>5, <1>6, <1>7, <1>8, <1>9, JobStep
  <1>11. Broker!NackNow(k)
    <2>1. \A j \in Jobs : Ready(j)' = IF j = k THEN Ready(k) + 1 ELSE Ready(j)
      BY <1>9, ReadyCopies, TypesOfKeys
    <2>2. \A j \in Jobs : Leased(j)' = IF j = k THEN "none" ELSE Leased(j)
      BY <1>1, <1>2, <1>6, <1>7, <1>10 DEF Leased
    <2> QED
      BY <1>1, <2>1, <2>2 DEF Broker!NackNow
  <1> QED
    BY <1>2, <1>10, <1>11 DEF Broker!QueueNext

(* Time and the crash of a task.                                           *)
LEMMA DelayPassesStep ==
  ASSUME RedisConstants, RedisInv, NEW k \in Jobs, DelayPasses(k)  PROVE RedisInv' /\ Broker!QueueNext
  <1>1. /\ delayed[k] = "waiting" /\ delayed' = [delayed EXCEPT ![k] = "due"]
        /\ lists' = lists /\ inflight' = inflight /\ inflightPrio' = inflightPrio
        /\ delayedPrio' = delayedPrio /\ poller' = poller /\ task' = task /\ owed' = owed
        /\ dropped' = dropped /\ crashes' = crashes
    BY DEF DelayPasses
  <1>2. TypeOK'
    BY <1>1, TypesOfKeys DEF TypeOK
  <1>3. delayed'[k] = "due" /\ delayedPrio[k] = PriorityOf[k]
    BY <1>1, TypesOfKeys
  <1>4. \A j \in Jobs \ {k} : delayed'[j] = delayed[j]
    BY <1>1, TypesOfKeys
  <1>5. task[k].pc = "none"
    BY <1>1, TaskHolds
  <1>6. One(inflight'[k] # "none") + One(delayed'[k] # "none") - One(k \in owed')
           = One(inflight[k] # "none") + One(delayed[k] # "none") - One(k \in owed)
    BY <1>1, <1>3 DEF One
  <1>7. inflight'[k] # "none" => inflightPrio'[k] = PriorityOf[k]
    BY <1>1, TypesOfKeys
  <1>8. /\ RedisInv' /\ \A j : InHand(j)' <=> InHand(j)
        /\ \A j \in Jobs : Ready(j)' = Ready(j) /\ (j # k => Leased(j)' = Leased(j))
    BY <1>1, <1>2, <1>3, <1>4, <1>5, <1>6, <1>7, KeyStep
  <1>9. Broker!Elapse({}, {k})
    <2>1. \A j \in Jobs : Leased(j)' = Leased(j)
      BY <1>1, <1>8 DEF Leased
    <2>2. delayed' = [j \in Jobs |-> IF j \in {k} THEN "due" ELSE delayed[j]]
      BY <1>1, TypesOfKeys
    <2> QED
      BY <1>1, <1>8, <2>1, <2>2 DEF Broker!Elapse
  <1>10. {} \in SUBSET Jobs /\ {k} \in SUBSET Jobs
    OBVIOUS
  <1> QED
    BY <1>8, <1>9, <1>10 DEF Broker!QueueNext

LEMMA LeaseLapsesStep ==
  ASSUME RedisConstants, RedisInv, NEW k \in Jobs, LeaseLapses(k)  PROVE RedisInv' /\ Broker!QueueNext
  <1>1. /\ inflight[k] = "live" /\ inflight' = [inflight EXCEPT ![k] = "lapsed"] /\ task[k].pc = "none"
        /\ lists' = lists /\ inflightPrio' = inflightPrio /\ delayed' = delayed
        /\ delayedPrio' = delayedPrio /\ poller' = poller /\ task' = task /\ owed' = owed
        /\ dropped' = dropped /\ crashes' = crashes
    BY DEF LeaseLapses, NoTask
  <1>2. TypeOK'
    BY <1>1, TypesOfKeys DEF TypeOK
  <1>3. /\ inflight'[k] = "lapsed" /\ inflightPrio[k] = PriorityOf[k] /\ Leased(k) = "live"
        /\ ~InHand(k) /\ k \notin dropped
    BY <1>1, TypesOfKeys, OneOfFive DEF Leased
  <1>4. \A j \in Jobs \ {k} : inflight'[j] = inflight[j]
    BY <1>1, TypesOfKeys
  <1>5. delayed'[k] # "none" => delayedPrio'[k] = PriorityOf[k]
    BY <1>1, TypesOfKeys
  <1>6. One(inflight'[k] # "none") + One(delayed'[k] # "none") - One(k \in owed')
           = One(inflight[k] # "none") + One(delayed[k] # "none") - One(k \in owed)
    BY <1>1, <1>3 DEF One
  <1>7. /\ RedisInv' /\ \A j : InHand(j)' <=> InHand(j)
        /\ \A j \in Jobs : Ready(j)' = Ready(j) /\ (j # k => Leased(j)' = Leased(j))
    BY <1>1, <1>2, <1>3, <1>4, <1>5, <1>6, KeyStep
  <1>8. Broker!Elapse({k}, {})
    <2>1. \A j \in Jobs : Leased(j)' = IF j \in {k} THEN "lapsed" ELSE Leased(j)
      BY <1>1, <1>3, <1>7 DEF Leased
    <2>2. delayed' = [j \in Jobs |-> IF j \in {} THEN "due" ELSE delayed[j]]
      BY <1>1, TypesOfKeys
    <2> QED
      BY <1>3, <1>7, <2>1, <2>2 DEF Broker!Elapse
  <1>9. {} \in SUBSET Jobs /\ {k} \in SUBSET Jobs
    OBVIOUS
  <1> QED
    BY <1>7, <1>8, <1>9 DEF Broker!QueueNext

LEMMA TaskCrashesStep ==
  ASSUME RedisConstants, RedisInv, NEW k \in Jobs, TaskCrashes(k)  PROVE RedisInv' /\ UNCHANGED Broker!queue
  <1>1. /\ task' = [task EXCEPT ![k] = NoTask] /\ crashes' = [crashes EXCEPT !.task = @ + 1]
        /\ crashes.task < MaxTaskCrashes
        /\ lists' = lists /\ inflight' = inflight /\ inflightPrio' = inflightPrio /\ delayed' = delayed
        /\ delayedPrio' = delayedPrio /\ poller' = poller /\ owed' = owed /\ dropped' = dropped
    BY DEF TaskCrashes, keys
  <1>2. TypeOK'
    <2>1. crashes' \in [task : 0..MaxTaskCrashes, poller : 0..MaxPollerCrashes]
      <3>1. crashes \in [task : 0..MaxTaskCrashes, poller : 0..MaxPollerCrashes]
        BY TypesOfKeys DEF TypeOK
      <3>2. crashes.task + 1 \in 0..MaxTaskCrashes
        BY <1>1, <3>1 DEF RedisConstants
      <3> QED
        BY <1>1, <3>1, <3>2
    <2> QED
      BY <1>1, <2>1, TypesOfKeys DEF TypeOK, NoTask
  <1>3. task'[k].pc = "none" /\ \A j \in Jobs \ {k} : task'[j] = task[j]
    BY <1>1, TypesOfKeys DEF NoTask
  <1>4. /\ inflight'[k] # "none" => inflightPrio'[k] = PriorityOf[k]
        /\ delayed'[k] # "none" => delayedPrio'[k] = PriorityOf[k]
    BY <1>1, TypesOfKeys
  <1>5. One(inflight'[k] # "none") + One(delayed'[k] # "none") - One(k \in owed')
           = One(inflight[k] # "none") + One(delayed[k] # "none") - One(k \in owed)
    BY <1>1
  <1>6. /\ RedisInv' /\ \A j : InHand(j)' <=> InHand(j)
        /\ \A j \in Jobs : Ready(j)' = Ready(j) /\ (j # k => Leased(j)' = Leased(j))
    BY <1>1, <1>2, <1>3, <1>4, <1>5, KeyStep
  <1>7. UNCHANGED Broker!queue
    BY <1>1, <1>6 DEF Broker!queue, Leased
  <1> QED
    BY <1>6, <1>7
-----------------------------------------------------------------------------
LEMMA PollersTyped ==
  ASSUME RedisInv, NEW p \in Pollers  PROVE poller[p] \in PollerStates /\ p \in DOMAIN poller
  BY DEF RedisInv, PriorityKept, TypeOK, PollerStates

LEMMA PollerTypes ==
  ASSUME TypeOK, NEW p \in Pollers, NEW x \in PollerStates, poller' = [poller EXCEPT ![p] = x],
         Placed(lists'), owed' \subseteq Jobs, dropped' \subseteq Jobs,
         inflight' \in [Jobs -> {"none", "live", "lapsed"}], delayed' \in [Jobs -> {"none", "waiting", "due"}],
         inflightPrio' \in [Jobs -> Priorities \cup {NoPriority}],
         delayedPrio' \in [Jobs -> Priorities \cup {NoPriority}],
         task' \in [Jobs -> [pc : {"none", "held", "nack", "requeue"}, prio : Priorities \cup {NoPriority}]],
         crashes' \in [task : 0..MaxTaskCrashes, poller : 0..MaxPollerCrashes]
  PROVE  TypeOK'
  <1>1. poller' \in [Pollers -> PollerStates]
    BY DEF TypeOK, PollerStates
  <1> QED
    BY <1>1, PlacedIsTyped DEF TypeOK, PollerStates

(* The steps of the one poller that move a job.                            *)
LEMMA HandStep ==
  ASSUME OnePoller, RedisInv, NEW p \in Pollers, NEW x, poller' = [poller EXCEPT ![p] = x], TypeOK',
         Placed(lists'), Hashed(inflight', inflightPrio'), Hashed(delayed', delayedPrio'), owed' = owed,
         \A j \in Jobs :
            Broker!CopiesOf(j, lists') + One(Hand(x, j)) + One(j \in dropped')
               + One(inflight'[j] # "none") + One(delayed'[j] # "none")
            = Broker!CopiesOf(j, lists) + One(Hand(poller[p], j)) + One(j \in dropped)
               + One(inflight[j] # "none") + One(delayed[j] # "none"),
         \A j \in Jobs : task'[j].pc # "none" => inflight'[j] = "live",
         \A j \in Jobs : task'[j].pc \in {"nack", "requeue"} => task'[j].prio = PriorityOf[j],
         Sure(x)'
  PROVE  RedisInv'
  <1>1. poller'[p] = x /\ \A q \in Pollers : q = p
    BY DEF OnePoller, RedisInv, PriorityKept, TypeOK
  <1>2. \A j : (InHand(j) <=> Hand(poller[p], j)) /\ (InHand(j)' <=> Hand(x, j))
    BY <1>1, OnePollersHand
  <1>3. InOnePlace'
    <2> SUFFICES ASSUME NEW j \in Jobs
                 PROVE  Broker!CopiesOf(j, lists') + One(InHand(j)') + One(j \in dropped')
                           + One(inflight'[j] # "none") + One(delayed'[j] # "none") = One(j \in owed')
      BY DEF InOnePlace, One
    <2>1. Broker!CopiesOf(j, lists) + One(InHand(j)) + One(j \in dropped)
             + One(inflight[j] # "none") + One(delayed[j] # "none") = One(j \in owed)
      BY DEF RedisInv, InOnePlace
    <2>2. One(InHand(j)') = One(Hand(x, j)) /\ One(InHand(j)) = One(Hand(poller[p], j))
      BY <1>2 DEF One
    <2> QED
      BY <2>1, <2>2
  <1>4. PriorityKept'
    BY KeptLists
  <1>5. TasksHold'
    BY DEF TasksHold
  <1>6. ScansHold'
    BY <1>1 DEF ScansHold, Sure
  <1> QED
    BY <1>3, <1>4, <1>5, <1>6 DEF RedisInv

(* The transaction that moves a due or lapsed job to the ready lists.      *)
LEMMA PushBackStep ==
  ASSUME OnePoller, RedisConstants, RedisInv, NEW p \in Pollers, NEW pc, PushBack(p, pc),
         \/ /\ pc = "promote" /\ inflight' = inflight /\ inflightPrio' = inflightPrio
            /\ delayed' = [delayed EXCEPT ![poller[p].job] = "none"]
            /\ delayedPrio' = [delayedPrio EXCEPT ![poller[p].job] = NoPriority]
         \/ /\ pc = "reclaim" /\ delayed' = delayed /\ delayedPrio' = delayedPrio
            /\ inflight' = [inflight EXCEPT ![poller[p].job] = "none"]
            /\ inflightPrio' = [inflightPrio EXCEPT ![poller[p].job] = NoPriority]
  PROVE  RedisInv' /\ Broker!QueueNext
  <1>0. PICK x : x = [poller[p] EXCEPT !.job = NoJob, !.prio = NoPriority]
    OBVIOUS
  <1>1. /\ Sure(poller[p]) /\ p \in DOMAIN poller
        /\ poller[p] \in PollerStates
    BY PollersTyped DEF RedisInv, ScansHold
  <1>2. PICK k \in Jobs : k = poller[p].job /\ k \notin poller[p].todo
    BY <1>1 DEF PushBack, Sure, PollerStates
  <1>2a. \/ /\ pc = "promote" /\ inflight' = inflight /\ inflightPrio' = inflightPrio
            /\ delayed' = [delayed EXCEPT ![k] = "none"] /\ delayedPrio' = [delayedPrio EXCEPT ![k] = NoPriority]
         \/ /\ pc = "reclaim" /\ delayed' = delayed /\ delayedPrio' = delayedPrio
            /\ inflight' = [inflight EXCEPT ![k] = "none"] /\ inflightPrio' = [inflightPrio EXCEPT ![k] = NoPriority]
    BY <1>2
  <1>3. /\ poller[p].pc = pc /\ poller[p].prio = PriorityOf[k]
        /\ pc = "promote" => delayed[k] = "due" /\ \A j \in poller[p].todo : delayed[j] = "due"
        /\ pc = "reclaim" => inflight[k] = "lapsed" /\ \A j \in poller[p].todo : inflight[j] = "lapsed"
    BY <1>1, <1>2 DEF PushBack, Sure, RedisConstants, PollerStates
  <1>4. /\ PutIn(lists', k) /\ task' = task /\ owed' = owed /\ dropped' = dropped /\ crashes' = crashes
        /\ poller' = [poller EXCEPT ![p].job = NoJob, ![p].prio = NoPriority]
    BY <1>2, <1>3 DEF PushBack, PutIn, Broker!Appended
  <1>5. /\ x.pc = pc /\ x.todo = poller[p].todo /\ x.job = NoJob
        /\ x \in PollerStates
    BY <1>0, <1>1, <1>3 DEF PollerStates
  <1>6. poller' = [poller EXCEPT ![p] = x]
    BY <1>0, <1>1, <1>4
  <1>7. Placed(lists') /\ \A j : Broker!CopiesOf(j, lists') = Broker!CopiesOf(j, lists) + One(j = k)
    BY <1>4, TypesOfKeys, JobPlaced
  <1>8. /\ Broker!CopiesOf(k, lists) = 0 /\ ~InHand(k) /\ k \notin dropped
        /\ pc = "promote" => inflight[k] = "none"
        /\ pc = "reclaim" => delayed[k] = "none"
        /\ pc \in {"promote", "reclaim"}
    BY <1>3, OneOfFive
  <1>9. task[k].pc = "none"
    BY <1>3, <1>8, TaskHolds
  <1>10. /\ inflight'[k] = "none" /\ delayed'[k] = "none"
         /\ \A j \in Jobs \ {k} :
               /\ inflight'[j] = inflight[j] /\ delayed'[j] = delayed[j]
               /\ inflightPrio'[j] = inflightPrio[j] /\ delayedPrio'[j] = delayedPrio[j]
    BY <1>2a, <1>8, TypesOfKeys
  <1>11. TypeOK'
    <2>1. inflight' \in [Jobs -> {"none", "live", "lapsed"}] /\ inflightPrio' \in [Jobs -> Priorities \cup {NoPriority}]
      BY <1>2a, TypesOfKeys
    <2>2. delayed' \in [Jobs -> {"none", "waiting", "due"}] /\ delayedPrio' \in [Jobs -> Priorities \cup {NoPriority}]
      BY <1>2a, TypesOfKeys
    <2>3. /\ TypeOK /\ owed' \subseteq Jobs /\ dropped' \subseteq Jobs
          /\ task' \in [Jobs -> [pc : {"none", "held", "nack", "requeue"}, prio : Priorities \cup {NoPriority}]]
          /\ crashes' \in [task : 0..MaxTaskCrashes, poller : 0..MaxPollerCrashes]
      BY <1>4, TypesOfKeys
    <2> QED
      BY <1>5, <1>6, <1>7, <2>1, <2>2, <2>3, PollerTypes
  <1>12. Hashed(inflight', inflightPrio') /\ Hashed(delayed', delayedPrio')
    BY <1>10, TypesOfKeys DEF Hashed
  <1>13. \A j : ~Hand(x, j) /\ ~Hand(poller[p], j)
    BY <1>3, <1>5, <1>8 DEF Hand
  <1>14. ASSUME NEW j \in Jobs
         PROVE  Broker!CopiesOf(j, lists') + One(Hand(x, j)) + One(j \in dropped')
                   + One(inflight'[j] # "none") + One(delayed'[j] # "none")
                = Broker!CopiesOf(j, lists) + One(Hand(poller[p], j)) + One(j \in dropped)
                   + One(inflight[j] # "none") + One(delayed[j] # "none")
    <2>1. One(Hand(x, j)) = 0 /\ One(Hand(poller[p], j)) = 0 /\ One(j \in dropped') = One(j \in dropped)
          /\ One(j \in dropped) \in Nat /\ Broker!CopiesOf(j, lists) \in Nat
      BY <1>4, <1>13, TypesOfKeys DEF One
    <2>2. CASE j = k
      <3>1. /\ Broker!CopiesOf(j, lists') = Broker!CopiesOf(j, lists) + 1
            /\ One(inflight'[j] # "none") = 0 /\ One(delayed'[j] # "none") = 0
            /\ One(inflight[j] # "none") + One(delayed[j] # "none") = 1
            /\ One(inflight[j] # "none") \in Nat /\ One(delayed[j] # "none") \in Nat
        BY <1>3, <1>7, <1>8, <1>10, <2>2 DEF One
      <3> QED
        BY <2>1, <3>1
    <2>3. CASE j # k
      <3>1. /\ Broker!CopiesOf(j, lists') = Broker!CopiesOf(j, lists) + 0
            /\ inflight'[j] = inflight[j] /\ delayed'[j] = delayed[j]
        BY <1>7, <1>10, <2>3 DEF One
      <3> QED
        BY <2>1, <3>1
    <2> QED
      BY <2>2, <2>3
  <1>15. Sure(x)'
    <2>1. \A j \in poller[p].todo : j \in Jobs /\ j # k
      BY <1>1, <1>2 DEF PollerStates
    <2> QED
      BY <1>3, <1>5, <1>8, <1>10, <2>1 DEF Sure, RedisConstants
  <1>16. /\ \A j \in Jobs : task'[j].pc # "none" => inflight'[j] = "live"
         /\ \A j \in Jobs : task'[j].pc \in {"nack", "requeue"} => task'[j].prio = PriorityOf[j]
    BY <1>4, <1>9, <1>10 DEF RedisInv, TasksHold
  <1>17. RedisInv'
    BY <1>4, <1>6, <1>7, <1>11, <1>12, <1>14, <1>15, <1>16, HandStep
  <1>18. \A j : ~InHand(j) /\ ~InHand(j)'
    <2>1. poller'[p] = x
      BY <1>1, <1>6
    <2> QED
      BY <1>13, <2>1, OnePollersHand
  <1>19. \A j \in Jobs : Ready(j)' = Ready(j) + (IF j = k THEN 1 ELSE 0)
    BY <1>7, ReadyCopies DEF One
  <1>20. CASE pc = "promote"
    <2>1. Broker!Sweep({}, {k})
      <3>1. \A j \in Jobs : Leased(j)' = Leased(j)
        BY <1>4, <1>8, <1>10, <1>18, <1>20 DEF Leased
      <3>2. \A j \in Jobs : delayed'[j] = IF j \in {k} THEN "none" ELSE delayed[j]
        BY <1>10
      <3>3. delayed' = [j \in Jobs |-> IF j \in {k} THEN "none" ELSE delayed[j]]
        BY <3>2, <1>20, TypesOfKeys
      <3>4. \A j \in Jobs : Ready(j) \in Nat
        BY ReadyCopies, TypesOfKeys
      <3>5. \A j \in Jobs : Broker!Swept(j, {}, {k}) = Ready(j)'
        BY <1>19, <3>4 DEF Broker!Swept
      <3>6. {k} \subseteq Broker!Due
        BY <1>3, <1>20 DEF Broker!Due
      <3> QED
        BY <3>1, <3>3, <3>5, <3>6 DEF Broker!Sweep
    <2>2. {} \in SUBSET Broker!Lapsed /\ {k} \in SUBSET Broker!Due
      BY <2>1 DEF Broker!Sweep
    <2> QED
      BY <1>17, <2>1, <2>2 DEF Broker!QueueNext
  <1>21. CASE pc = "reclaim"
    <2>1. Broker!Sweep({k}, {})
      <3>1. \A j \in Jobs : Leased(j)' = IF j \in {k} THEN "none" ELSE Leased(j)
        BY <1>4, <1>8, <1>10, <1>18 DEF Leased
      <3>2. delayed' = [j \in Jobs |-> IF j \in {} THEN "none" ELSE delayed[j]]
        BY <1>21, TypesOfKeys
      <3>3. \A j \in Jobs : Ready(j) \in Nat
        BY ReadyCopies, TypesOfKeys
      <3>4. \A j \in Jobs : Broker!Swept(j, {k}, {}) = Ready(j)'
        BY <1>19, <3>3 DEF Broker!Swept
      <3>5. {k} \subseteq Broker!Lapsed
        BY <1>3, <1>8, <1>21 DEF Broker!Lapsed, Leased
      <3> QED
        BY <3>1, <3>2, <3>4, <3>5 DEF Broker!Sweep
    <2>2. {k} \in SUBSET Broker!Lapsed /\ {} \in SUBSET Broker!Due
      BY <2>1 DEF Broker!Sweep
    <2> QED
      BY <1>17, <2>1, <2>2 DEF Broker!QueueNext
  <1> QED
    BY <1>8, <1>20, <1>21

(* LPOP of a list (queue.py:216-219) that holds a job.                     *)
LEMMA PopStep ==
  ASSUME OnePoller, RedisConstants, RedisInv, NEW p \in Pollers, Pop(p)
  PROVE  RedisInv' /\ (Broker!QueueNext \/ UNCHANGED Broker!queue)
  <1>1. PICK prio \in Priorities : prio = poller[p].pc /\ prio \notin {"promote", "reclaim", "reserve"}
    BY DEF Pop, Priorities
  <1>2. /\ Sure(poller[p]) /\ p \in DOMAIN poller /\ poller[p] \in PollerStates
        /\ inflight' = inflight /\ inflightPrio' = inflightPrio /\ delayed' = delayed
        /\ delayedPrio' = delayedPrio /\ task' = task /\ owed' = owed /\ dropped' = dropped /\ crashes' = crashes
    BY PollersTyped DEF RedisInv, ScansHold, Pop
  <1>3. CASE lists[prio] = << >>
    <2>1. PICK x : x = [poller[p] EXCEPT !.pc = After(prio)]
      OBVIOUS
    <2>2. poller' = [poller EXCEPT ![p] = x] /\ lists' = lists
      BY <1>1, <1>2, <1>3, <2>1 DEF Pop
    <2>3. After(prio) \in {"idle", "normal", "low"}
      BY <1>1 DEF After, Priorities
    <2>4. x.pc = After(prio) /\ x.todo = poller[p].todo /\ x.job = poller[p].job /\ x \in PollerStates
      BY <1>2, <2>1, <2>3 DEF PollerStates, Priorities
    <2>5. Sure(x) /\ x.pc # "reserve"
      BY <1>2, <2>3, <2>4 DEF Sure
    <2> QED
      BY <1>1, <1>2, <2>2, <2>4, <2>5, PollerMoves DEF keys, PollerStates
  <1>4. CASE lists[prio] # << >>
    <2>1. PICK k : k = Head(lists[prio])
      OBVIOUS
    <2>2. PICK x : x = [pc |-> "reserve", todo |-> {}, job |-> k, prio |-> prio]
      OBVIOUS
    <2>3. poller' = [poller EXCEPT ![p] = x] /\ lists' = Broker!Popped(lists, prio)
      BY <1>1, <1>4, <2>1, <2>2 DEF Pop, Broker!Popped
    <2>4. PICK m : m = lists'
      OBVIOUS
    <2>5. lists \in Broker!Lists /\ prio \in Broker!Ranks /\ Placed(lists)
      BY TypesOfKeys, SameRanks DEF Placed
    <2>6. /\ Broker!Changed(lists, m, prio, k, -1) /\ Broker!Standing(m[prio]) \subseteq Broker!Standing(lists[prio])
          /\ k \in Broker!Standing(lists[prio]) /\ k \in Jobs
      BY <1>4, <2>1, <2>3, <2>4, <2>5, Broker!ListPopped
    <2>7. \A j : Broker!CopiesOf(j, lists') = Broker!CopiesOf(j, lists) + (IF k = j THEN -1 ELSE 0)
      BY <2>4, <2>5, <2>6, Broker!ChangedCounts
    <2>8. Placed(lists') /\ prio = PriorityOf[k]
      BY <2>4, <2>5, <2>6, SameRanks DEF Placed, Broker!Changed
    <2>9. x.pc = "reserve" /\ x.todo = {} /\ x.job = k /\ x.prio = prio /\ x \in PollerStates
      BY <2>2, <2>6 DEF PollerStates
    <2>10. TypeOK'
      <3>1. /\ TypeOK /\ owed' \subseteq Jobs /\ dropped' \subseteq Jobs
            /\ task' \in [Jobs -> [pc : {"none", "held", "nack", "requeue"}, prio : Priorities \cup {NoPriority}]]
            /\ crashes' \in [task : 0..MaxTaskCrashes, poller : 0..MaxPollerCrashes]
            /\ inflight' \in [Jobs -> {"none", "live", "lapsed"}] /\ delayed' \in [Jobs -> {"none", "waiting", "due"}]
            /\ inflightPrio' \in [Jobs -> Priorities \cup {NoPriority}]
            /\ delayedPrio' \in [Jobs -> Priorities \cup {NoPriority}]
        BY <1>2, TypesOfKeys
      <3> QED
        BY <2>3, <2>8, <2>9, <3>1, PollerTypes
    <2>11. Sure(x)'
      BY <2>6, <2>8, <2>9 DEF Sure
    <2>12. Broker!CopiesOf(k, lists) = 1
      <3>1. Broker!CopiesOf(k, lists) > 0
        BY <2>5, <2>6, ListsHold, SameRanks
      <3> QED
        BY <2>6, <3>1, OneOfFive
    <2>13. /\ ~InHand(k) /\ k \notin dropped /\ inflight[k] = "none" /\ delayed[k] = "none"
           /\ \A j : ~Hand(poller[p], j)
      BY <1>1, <2>6, <2>12, OneOfFive DEF Hand
    <2>14. ASSUME NEW j \in Jobs
           PROVE  Broker!CopiesOf(j, lists') + One(Hand(x, j)) + One(j \in dropped')
                     + One(inflight'[j] # "none") + One(delayed'[j] # "none")
                  = Broker!CopiesOf(j, lists) + One(Hand(poller[p], j)) + One(j \in dropped)
                     + One(inflight[j] # "none") + One(delayed[j] # "none")
      <3>1. One(Hand(x, j)) = IF k = j THEN 1 ELSE 0
        BY <2>9 DEF One, Hand
      <3>2. One(Hand(poller[p], j)) = 0
        BY <2>13 DEF One
      <3>3. /\ Broker!CopiesOf(j, lists) \in Nat /\ One(j \in dropped) \in Nat
            /\ One(inflight[j] # "none") \in Nat /\ One(delayed[j] # "none") \in Nat
        BY TypesOfKeys DEF One
      <3> QED
        BY <1>2, <2>7, <3>1, <3>2, <3>3
    <2>15. Hashed(inflight', inflightPrio') /\ Hashed(delayed', delayedPrio')
      BY <1>2, TypesOfKeys DEF Hashed
    <2>16. /\ \A j \in Jobs : task'[j].pc # "none" => inflight'[j] = "live"
           /\ \A j \in Jobs : task'[j].pc \in {"nack", "requeue"} => task'[j].prio = PriorityOf[j]
      BY <1>2 DEF RedisInv, TasksHold
    <2>17. RedisInv'
      BY <1>2, <2>3, <2>8, <2>10, <2>11, <2>14, <2>15, <2>16, HandStep
    <2>18. Broker!Dequeue(k, {}, {})
      <3>1. \A j : (InHand(j)' <=> j = k) /\ ~InHand(j)
        <4>1. poller'[p] = x
          BY <1>2, <2>3
        <4> QED
          BY <2>9, <2>13, <4>1, OnePollersHand DEF Hand
      <3>2. \A j \in Jobs : Leased(j)' = IF j = k THEN "live" ELSE IF j \in {} THEN "none" ELSE Leased(j)
        BY <1>2, <3>1 DEF Leased
      <3>3. \A j \in Jobs : Ready(j) \in Nat /\ Ready(j)' = (IF j = k THEN Ready(j) - 1 ELSE Ready(j))
        BY <2>7, ReadyCopies, TypesOfKeys
      <3>4. \A j \in Jobs : Broker!Swept(j, {}, {}) = Ready(j)
        BY <3>3 DEF Broker!Swept
      <3>5. Ready(k) = 1
        BY <2>12, ReadyCopies
      <3>6. delayed' = [j \in Jobs |-> IF j \in {} THEN "none" ELSE delayed[j]]
        BY <1>2, TypesOfKeys
      <3> QED
        BY <2>6, <3>2, <3>3, <3>4, <3>5, <3>6 DEF Broker!Dequeue
    <2>19. {} \in SUBSET Broker!Lapsed /\ {} \in SUBSET Broker!Due
      OBVIOUS
    <2> QED
      BY <2>6, <2>17, <2>18, <2>19 DEF Broker!QueueNext
  <1> QED
    BY <1>3, <1>4

(* The transaction that reserves the popped job: it was leased already.    *)
LEMMA ReserveStep ==
  ASSUME OnePoller, RedisConstants, RedisInv, NEW p \in Pollers, Reserve(p)
  PROVE  RedisInv' /\ UNCHANGED Broker!queue
  <1>1. /\ Sure(poller[p]) /\ p \in DOMAIN poller /\ poller[p] \in PollerStates /\ poller[p].pc = "reserve"
    BY PollersTyped DEF RedisInv, ScansHold, Reserve
  <1>2. PICK k \in Jobs : k = poller[p].job
    BY <1>1 DEF Sure
  <1>3. poller[p].prio = PriorityOf[k]
    BY <1>1, <1>2 DEF Sure, RedisConstants
  <1>4. /\ inflight' = [inflight EXCEPT ![k] = "live"] /\ inflightPrio' = [inflightPrio EXCEPT ![k] = PriorityOf[k]]
        /\ task' = [task EXCEPT ![k] = [NoTask EXCEPT !.pc = "held"]]
        /\ poller' = [poller EXCEPT ![p] = Resting] /\ lists' = lists /\ delayed' = delayed
        /\ delayedPrio' = delayedPrio /\ owed' = owed /\ dropped' = dropped /\ crashes' = crashes
    BY <1>2, <1>3 DEF Reserve
  <1>5. \A j : (Hand(poller[p], j) <=> j = k) /\ (InHand(j) <=> j = k) /\ ~Hand(Resting, j) /\ ~InHand(j)'
    <2>1. poller'[p] = Resting /\ Resting.pc = "idle"
      BY <1>1, <1>4 DEF Resting
    <2> QED
      BY <1>1, <1>2, <2>1, OnePollersHand DEF Hand
  <1>6. /\ Broker!CopiesOf(k, lists) = 0 /\ k \notin dropped /\ inflight[k] = "none" /\ delayed[k] = "none"
    BY <1>5, OneOfFive
  <1>7. /\ inflight'[k] = "live" /\ inflightPrio'[k] = PriorityOf[k] /\ task'[k].pc = "held"
        /\ \A j \in Jobs \ {k} : /\ inflight'[j] = inflight[j] /\ inflightPrio'[j] = inflightPrio[j]
                                 /\ task'[j] = task[j]
    BY <1>4, TypesOfKeys DEF NoTask
  <1>8. TypeOK'
    <2>1. /\ TypeOK /\ owed' \subseteq Jobs /\ dropped' \subseteq Jobs
          /\ crashes' \in [task : 0..MaxTaskCrashes, poller : 0..MaxPollerCrashes]
          /\ delayed' \in [Jobs -> {"none", "waiting", "due"}] /\ Placed(lists')
          /\ delayedPrio' \in [Jobs -> Priorities \cup {NoPriority}]
      BY <1>4, TypesOfKeys
    <2>2. PriorityOf[k] \in Priorities
      BY DEF RedisConstants
    <2>3. /\ inflight' \in [Jobs -> {"none", "live", "lapsed"}]
          /\ inflightPrio' \in [Jobs -> Priorities \cup {NoPriority}]
      BY <1>4, <2>2, TypesOfKeys
    <2>4. task' \in [Jobs -> [pc : {"none", "held", "nack", "requeue"}, prio : Priorities \cup {NoPriority}]]
      BY <1>4, TypesOfKeys DEF NoTask
    <2>5. Resting \in PollerStates
      BY DEF Resting, PollerStates
    <2> QED
      BY <1>4, <2>1, <2>3, <2>4, <2>5, PollerTypes
  <1>9. ASSUME NEW j \in Jobs
        PROVE  Broker!CopiesOf(j, lists') + One(Hand(Resting, j)) + One(j \in dropped')
                  + One(inflight'[j] # "none") + One(delayed'[j] # "none")
               = Broker!CopiesOf(j, lists) + One(Hand(poller[p], j)) + One(j \in dropped)
                  + One(inflight[j] # "none") + One(delayed[j] # "none")
    <2>1. /\ Broker!CopiesOf(j, lists) \in Nat /\ One(j \in dropped) \in Nat /\ One(inflight[j] # "none") \in Nat
          /\ One(delayed[j] # "none") \in Nat /\ One(Hand(Resting, j)) = 0
      BY <1>5, TypesOfKeys DEF One
    <2>2. One(Hand(poller[p], j)) + One(inflight[j] # "none") = One(inflight'[j] # "none")
          /\ One(Hand(poller[p], j)) \in Nat
      BY <1>5, <1>6, <1>7 DEF One
    <2> QED
      BY <1>4, <2>1, <2>2
  <1>10. Hashed(inflight', inflightPrio') /\ Hashed(delayed', delayedPrio')
    BY <1>4, <1>7, TypesOfKeys DEF Hashed
  <1>11. /\ \A j \in Jobs : task'[j].pc # "none" => inflight'[j] = "live"
         /\ \A j \in Jobs : task'[j].pc \in {"nack", "requeue"} => task'[j].prio = PriorityOf[j]
    BY <1>7 DEF RedisInv, TasksHold
  <1>12. Sure(Resting)'
    BY DEF Sure, Resting
  <1>13. PICK x : x = Resting
    OBVIOUS
  <1>14. RedisInv'
    <2>1. Placed(lists') /\ poller' = [poller EXCEPT ![p] = x] /\ Sure(x)'
      BY <1>4, <1>12, <1>13, TypesOfKeys DEF Sure, Resting
    <2>2. \A j \in Jobs : Broker!CopiesOf(j, lists') + One(Hand(x, j)) + One(j \in dropped')
                  + One(inflight'[j] # "none") + One(delayed'[j] # "none")
               = Broker!CopiesOf(j, lists) + One(Hand(poller[p], j)) + One(j \in dropped)
                  + One(inflight[j] # "none") + One(delayed[j] # "none")
      BY <1>9, <1>13
    <2> QED
      BY <1>4, <1>8, <1>10, <1>11, <2>1, <2>2, HandStep
  <1>15. UNCHANGED Broker!queue
    <2>1. \A j \in Jobs : Ready(j)' = Ready(j)
      BY <1>4, ReadyCopies
    <2>2. \A j \in Jobs : Leased(j)' = Leased(j)
      BY <1>4, <1>5, <1>6, <1>7 DEF Leased
    <2> QED
      BY <1>4, <2>1, <2>2 DEF Broker!queue
  <1> QED
    BY <1>14, <1>15

(* A poller that dies: what it had in hand stays leased, for ever.         *)
LEMMA PollerCrashesStep ==
  ASSUME OnePoller, RedisConstants, RedisInv, NEW p \in Pollers, PollerCrashes(p)
  PROVE  RedisInv' /\ UNCHANGED Broker!queue
  <1>1. /\ crashes.poller < MaxPollerCrashes /\ crashes' = [crashes EXCEPT !.poller = @ + 1]
        /\ poller' = [poller EXCEPT ![p] = Resting]
        /\ dropped' = dropped \cup {j \in Jobs : Hand(poller[p], j)}
        /\ lists' = lists /\ inflight' = inflight /\ inflightPrio' = inflightPrio /\ delayed' = delayed
        /\ delayedPrio' = delayedPrio /\ task' = task /\ owed' = owed
    BY DEF PollerCrashes, keys, Hand
  <1>2. p \in DOMAIN poller
    BY PollersTyped
  <1>3. \A j : (Hand(poller[p], j) <=> InHand(j)) /\ ~Hand(Resting, j) /\ ~InHand(j)'
    <2>1. poller'[p] = Resting /\ Resting.pc = "idle"
      BY <1>1, <1>2 DEF Resting
    <2> QED
      BY <2>1, OnePollersHand DEF Hand
  <1>4. \A j \in Jobs : InHand(j) => j \notin dropped
    BY OneOfFive
  <1>5. TypeOK'
    <2>1. crashes' \in [task : 0..MaxTaskCrashes, poller : 0..MaxPollerCrashes]
      <3>1. crashes \in [task : 0..MaxTaskCrashes, poller : 0..MaxPollerCrashes]
        BY TypesOfKeys
      <3>2. crashes.poller + 1 \in 0..MaxPollerCrashes
        BY <1>1, <3>1 DEF RedisConstants
      <3> QED
        BY <1>1, <3>1, <3>2
    <2>2. /\ TypeOK /\ owed' \subseteq Jobs /\ dropped' \subseteq Jobs /\ Placed(lists')
          /\ inflight' \in [Jobs -> {"none", "live", "lapsed"}] /\ delayed' \in [Jobs -> {"none", "waiting", "due"}]
          /\ inflightPrio' \in [Jobs -> Priorities \cup {NoPriority}]
          /\ delayedPrio' \in [Jobs -> Priorities \cup {NoPriority}]
          /\ task' \in [Jobs -> [pc : {"none", "held", "nack", "requeue"}, prio : Priorities \cup {NoPriority}]]
      BY <1>1, TypesOfKeys
    <2>3. Resting \in PollerStates
      BY DEF Resting, PollerStates
    <2> QED
      BY <1>1, <2>1, <2>2, <2>3, PollerTypes
  <1>6. PICK x : x = Resting
    OBVIOUS
  <1>7. ASSUME NEW j \in Jobs
        PROVE  Broker!CopiesOf(j, lists') + One(Hand(x, j)) + One(j \in dropped')
                  + One(inflight'[j] # "none") + One(delayed'[j] # "none")
               = Broker!CopiesOf(j, lists) + One(Hand(poller[p], j)) + One(j \in dropped)
                  + One(inflight[j] # "none") + One(delayed[j] # "none")
    <2>1. /\ Broker!CopiesOf(j, lists) \in Nat /\ One(inflight[j] # "none") \in Nat
          /\ One(delayed[j] # "none") \in Nat /\ One(Hand(x, j)) = 0
      BY <1>3, <1>6, TypesOfKeys DEF One
    <2>2. One(Hand(poller[p], j)) + One(j \in dropped) = One(j \in dropped')
          /\ One(Hand(poller[p], j)) \in Nat /\ One(j \in dropped) \in Nat
      BY <1>1, <1>3, <1>4 DEF One
    <2> QED
      BY <1>1, <2>1, <2>2
  <1>8. Hashed(inflight', inflightPrio') /\ Hashed(delayed', delayedPrio')
    BY <1>1, TypesOfKeys DEF Hashed
  <1>9. /\ \A j \in Jobs : task'[j].pc # "none" => inflight'[j] = "live"
        /\ \A j \in Jobs : task'[j].pc \in {"nack", "requeue"} => task'[j].prio = PriorityOf[j]
    BY <1>1 DEF RedisInv, TasksHold
  <1>10. Placed(lists') /\ poller' = [poller EXCEPT ![p] = x] /\ Sure(x)'
    BY <1>1, <1>6, TypesOfKeys DEF Sure, Resting
  <1>11. RedisInv'
    BY <1>1, <1>5, <1>7, <1>8, <1>9, <1>10, HandStep
  <1>12. UNCHANGED Broker!queue
    <2>1. \A j \in Jobs : Ready(j)' = Ready(j)
      BY <1>1, ReadyCopies
    <2>2. \A j \in Jobs : Leased(j)' = Leased(j)
      BY <1>1, <1>3 DEF Leased
    <2> QED
      BY <1>1, <2>1, <2>2 DEF Broker!queue
  <1> QED
    BY <1>11, <1>12
-----------------------------------------------------------------------------
LEMMA PollerStepKeeps ==
  ASSUME OnePoller, RedisConstants, RedisInv, NEW p \in Pollers, PollerStep(p) \/ PollerCrashes(p)
  PROVE  RedisInv' /\ (Broker!QueueNext \/ UNCHANGED Broker!queue)
  <1>1. CASE ScanDelayed(p) \/ ScanInflight(p) \/ StartPopping(p)
    BY <1>1, ScanStep
  <1>2. CASE Promote(p)
    <2>1. CASE FetchPriority(p, "promote", delayedPrio)
      BY <2>1, FetchStep
    <2>2. CASE ~FetchPriority(p, "promote", delayedPrio)
      <3>1. /\ PushBack(p, "promote") /\ inflight' = inflight /\ inflightPrio' = inflightPrio
            /\ delayed' = [delayed EXCEPT ![poller[p].job] = "none"]
            /\ delayedPrio' = [delayedPrio EXCEPT ![poller[p].job] = NoPriority]
        BY <1>2, <2>2 DEF Promote
      <3> QED
        BY <3>1, PushBackStep
    <2> QED
      BY <2>1, <2>2
  <1>3. CASE Reclaim(p)
    <2>1. CASE FetchPriority(p, "reclaim", inflightPrio)
      BY <2>1, FetchStep
    <2>2. CASE ~FetchPriority(p, "reclaim", inflightPrio)
      <3>1. /\ PushBack(p, "reclaim") /\ delayed' = delayed /\ delayedPrio' = delayedPrio
            /\ inflight' = [inflight EXCEPT ![poller[p].job] = "none"]
            /\ inflightPrio' = [inflightPrio EXCEPT ![poller[p].job] = NoPriority]
        BY <1>3, <2>2 DEF Reclaim
      <3> QED
        BY <3>1, PushBackStep
    <2> QED
      BY <2>1, <2>2
  <1>4. CASE Pop(p)
    BY <1>4, PopStep
  <1>5. CASE Reserve(p)
    BY <1>5, ReserveStep
  <1>6. CASE PollerCrashes(p)
    BY <1>6, PollerCrashesStep
  <1> QED
    BY <1>1, <1>2, <1>3, <1>4, <1>5, <1>6 DEF PollerStep

LEMMA OneJobStep ==
  ASSUME RedisConstants, RedisInv, NEW j \in Jobs,
         Enqueue(j) \/ TaskStep(j) \/ TaskCrashes(j) \/ DelayPasses(j) \/ LeaseLapses(j)
  PROVE  RedisInv' /\ (Broker!QueueNext \/ UNCHANGED Broker!queue)
  <1>1. CASE Enqueue(j)
    BY <1>1, EnqueueStep
  <1>2. CASE Ack(j)
    BY <1>2, AckStep
  <1>3. CASE Return(j, "nack", "normal") \/ Return(j, "requeue", "high")
    BY <1>3, ReturnStep
  <1>4. CASE NackDelayed(j)
    BY <1>4, NackDelayedStep
  <1>5. CASE NackNow(j) \/ Requeue(j)
    BY <1>5, NackNowStep
  <1>6. CASE TaskCrashes(j)
    BY <1>6, TaskCrashesStep
  <1>7. CASE DelayPasses(j)
    BY <1>7, DelayPassesStep
  <1>8. CASE LeaseLapses(j)
    BY <1>8, LeaseLapsesStep
  <1> QED
    BY <1>1, <1>2, <1>3, <1>4, <1>5, <1>6, <1>7, <1>8 DEF TaskStep

(* A step in which nothing changes.                                        *)
LEMMA RedisStutters ==
  ASSUME RedisInv, UNCHANGED vars  PROVE RedisInv' /\ UNCHANGED Broker!queue
  <1>1. /\ lists' = lists /\ inflight' = inflight /\ inflightPrio' = inflightPrio /\ delayed' = delayed
        /\ delayedPrio' = delayedPrio /\ poller' = poller /\ task' = task /\ owed' = owed
        /\ dropped' = dropped /\ crashes' = crashes
    BY DEF vars, keys
  <1>2. \A j : (InHand(j)' <=> InHand(j)) /\ Ready(j)' = Ready(j) /\ Leased(j)' = Leased(j)
    BY <1>1, ReadyCopies DEF InHand, Leased
  <1>3. PriorityKept'
    BY <1>1, KeptLists DEF RedisInv, TypeOK, Placed, Hashed
  <1>4. InOnePlace' /\ TasksHold'
    BY <1>1, <1>2 DEF RedisInv, InOnePlace, TasksHold, One
  <1>5. ScansHold'
    BY <1>1 DEF RedisInv, ScansHold, Sure
  <1>6. UNCHANGED Broker!queue
    BY <1>1, <1>2 DEF Broker!queue
  <1> QED
    BY <1>3, <1>4, <1>5, <1>6 DEF RedisInv

LEMMA RedisStep ==
  ASSUME OnePoller, RedisConstants, RedisInv, [Next]_vars
  PROVE  RedisInv' /\ [Broker!QueueNext]_(Broker!queue)
  <1>1. ASSUME NEW p \in Pollers, PollerStep(p) \/ PollerCrashes(p)
        PROVE  RedisInv' /\ (Broker!QueueNext \/ UNCHANGED Broker!queue)
    BY <1>1, PollerStepKeeps
  <1>2. ASSUME NEW j \in Jobs, Enqueue(j) \/ TaskStep(j) \/ TaskCrashes(j) \/ DelayPasses(j) \/ LeaseLapses(j)
        PROVE  RedisInv' /\ (Broker!QueueNext \/ UNCHANGED Broker!queue)
    BY <1>2, OneJobStep
  <1> QED
    BY <1>1, <1>2, RedisStutters DEF Next

LEMMA RedisStarts == RedisConstants /\ Init => RedisInv /\ Broker!QueueInit
  <1> SUFFICES ASSUME RedisConstants, Init  PROVE RedisInv /\ Broker!QueueInit
    OBVIOUS
  <1>1. \A j \in Jobs : /\ inflight[j] = "none" /\ delayed[j] = "none" /\ task[j] = NoTask
                        /\ ~InHand(j) /\ j \notin owed /\ j \notin dropped
    BY DEF Init, InHand, Resting
  <1>2. \A j : Broker!CopiesOf(j, lists) = 0
    BY Broker!NoCopies, SameRanks DEF Init, Broker!CopiesOf, Priorities
  <1>3. PriorityKept
    <2>1. \A p \in Priorities : ToSet(lists[p]) = {}
      BY DEF Init, ToSet
    <2>2. TypeOK
      BY DEF TypeOK, Init, RedisConstants, Resting, NoTask, NoPriority
    <2> QED
      BY <1>1, <2>1, <2>2 DEF PriorityKept
  <1>4. InOnePlace
    BY <1>1, <1>2 DEF InOnePlace, One
  <1>5. TasksHold
    BY <1>1 DEF TasksHold, NoTask
  <1>6. ScansHold
    BY DEF Init, ScansHold, Sure, Resting
  <1>7. Broker!QueueInit
    <2>1. \A j \in Jobs : Ready(j) = 0 /\ Leased(j) = "none"
      BY <1>1, <1>2, ReadyCopies DEF Leased
    <2> QED
      BY <2>1 DEF Broker!QueueInit, Init
  <1> QED
    BY <1>3, <1>4, <1>5, <1>6, <1>7 DEF RedisInv

(* A job waiting in Redis waits at the priority of its record, whichever   *)
(* processes die and whenever (queue.py:203-327): no HGET meets a hash     *)
(* entry that another command has already deleted.                         *)
THEOREM RedisPrioritiesAreKept == OnePoller /\ RedisConstants /\ Spec => []PriorityKept
  <1> SUFFICES ASSUME OnePoller, RedisConstants  PROVE Spec => []PriorityKept
    OBVIOUS
  <1>1. Init => RedisInv
    BY RedisStarts
  <1>2. RedisInv /\ [Next]_vars => RedisInv'
    BY RedisStep
  <1>3. RedisInv => PriorityKept
    BY DEF RedisInv
  <1> QED
    BY <1>1, <1>2, <1>3, PTL DEF Spec

(* A job enqueued and not acknowledged is in a key of Redis, or in the     *)
(* hand of the poller, or was dropped there when the poller died between   *)
(* LPOP and the reservation (queue.py:218-226); it is lost nowhere else.   *)
THEOREM RedisLosesNothing == OnePoller /\ RedisConstants /\ Spec => []NothingLost
  <1> SUFFICES ASSUME OnePoller, RedisConstants  PROVE Spec => []NothingLost
    OBVIOUS
  <1>1. Init => RedisInv
    BY RedisStarts
  <1>2. RedisInv /\ [Next]_vars => RedisInv'
    BY RedisStep
  <1>3. RedisInv => NothingLost
    <2> SUFFICES ASSUME RedisInv, NEW j \in owed, inflight[j] = "none", delayed[j] = "none",
                        ~InHand(j), j \notin dropped
                 PROVE  \E p \in Priorities : j \in ToSet(lists[p])
      BY DEF NothingLost, Known
    <2>1. j \in Jobs /\ Placed(lists)
      BY TypesOfKeys
    <2>2. Broker!CopiesOf(j, lists) = 1
      BY <2>1, ListsHold DEF RedisInv, InOnePlace, One
    <2> QED
      BY <2>1, <2>2, ListsHold, SameTerms
  <1> QED
    BY <1>1, <1>2, <1>3, PTL DEF Spec

(* The Redis queue is the broker that the rest of the job system is built  *)
(* on: each of its commands and transactions is one operation of           *)
(* LeaseQueue, or none of its business.                                    *)
THEOREM RedisImplementsBroker == OnePoller /\ RedisConstants /\ Spec => ImplementsLeaseQueue
  <1> SUFFICES ASSUME OnePoller, RedisConstants  PROVE Spec => ImplementsLeaseQueue
    OBVIOUS
  <1>1. Init => RedisInv
    BY RedisStarts
  <1>2. RedisInv /\ [Next]_vars => RedisInv'
    BY RedisStep
  <1>3. Init => Abstract!QueueInit
    BY RedisStarts DEF Broker!QueueInit, Abstract!QueueInit, Leased, Ready
  <1>4. RedisInv /\ [Next]_vars => [Abstract!QueueNext]_(Abstract!queue)
    <2> SUFFICES ASSUME RedisInv, [Next]_vars  PROVE [Abstract!QueueNext]_(Abstract!queue)
      OBVIOUS
    <2>1. [Broker!QueueNext]_(Broker!queue)
      BY RedisStep
    <2> QED
      BY <2>1 DEF Broker!queue, Abstract!queue, Leased, Ready, Broker!QueueNext, Abstract!QueueNext,
           Broker!Queued, Abstract!Queued, Broker!Enqueue, Abstract!Enqueue,
           Broker!Dequeue, Abstract!Dequeue, Broker!Swept, Abstract!Swept, Broker!Lapsed, Abstract!Lapsed,
           Broker!Due, Abstract!Due, Broker!Ack, Abstract!Ack, Broker!NackDelayed, Abstract!NackDelayed,
           Broker!NackNow, Abstract!NackNow, Broker!Sweep, Abstract!Sweep, Broker!Elapse, Abstract!Elapse
  <1> QED
    BY <1>1, <1>2, <1>3, <1>4, PTL DEF Spec, ImplementsLeaseQueue, Abstract!QueueSpec
=============================================================================
