------------------------------ MODULE QueueProofs ------------------------------
(***************************************************************************)
(* The in-memory queue keeps the promise of the JobQueue interface, for    *)
(* any finite set of jobs, priorities, delays and visibility timeout; and, *)
(* with RedisProofs, so does its twin, the two together keeping every job  *)
(* where it belongs.  The invariant needs no strengthening: what counts is *)
(* the lemmas about lists, that the set of jobs a sweep appends, in any    *)
(* order, stands in them once more and nothing else does.                  *)
(***************************************************************************)
EXTENDS JobQueues, FiniteSetTheorems, WellFoundedInduction, TLAPS

Broker == INSTANCE LeaseQueueProofs WITH
    ready <- [j \in Jobs |-> Copies(j, lists["high"]) + Copies(j, lists["normal"])
                                + Copies(j, lists["low"])],
    lease <- [j \in Jobs |-> Phase(inflight[j], "live", "lapsed")],
    delay <- [j \in Jobs |-> Phase(delayed[j], "waiting", "due")]

(* A set of numbers has a least one: the first place where a job stands.   *)
LEMMA NatHasLeast ==
  ASSUME NEW T, T \subseteq Nat, T # {}  PROVE \E n \in T : \A m \in T : n <= m
  <1> DEFINE R == OpToRel(<, Nat)
  <1>1. IsWellFoundedOn(R, Nat)
    BY NatLessThanWellFounded
  <1>2. \A x, y \in Nat : y < x => <<y, x>> \in R
    BY DEF OpToRel
  <1> HIDE DEF R
  <1>3. PICK n \in T : \A m \in T : ~(<<m, n>> \in R)
    BY <1>1, WFMin
  <1>4. \A m \in T : n <= m
    <2> SUFFICES ASSUME NEW m \in T, ~(n <= m)  PROVE FALSE
      OBVIOUS
    <2>1. m < n /\ m \in Nat /\ n \in Nat
      OBVIOUS
    <2> QED
      BY <2>1, <1>2, <1>3
  <1> QED
    BY <1>4

One(condition) == IF condition THEN 1 ELSE 0

LEMMA SameRanks == Priorities = Broker!Ranks
  BY DEF Priorities, Broker!Ranks

LEMMA SameTerms ==
  /\ \A s : ToSet(s) = Broker!Standing(s)
  /\ \A j, s : Copies(j, s) = Broker!CopiesIn(j, s)
  BY DEF ToSet, Broker!Standing, Copies, Broker!CopiesIn, Broker!Places,
         Cardinality, Broker!Cardinality

AppendsOne(q, s, entries, n) == Broker!Appended(q, entries[s[n]].prio, s[n])

(* The loops of dequeue and reclaim_expired_inflight append each job of s  *)
(* once, to the list its entry names.                                      *)
LEMMA AppendAllAppends ==
  ASSUME NEW l \in Broker!Lists, NEW s \in Seq(Jobs), NEW entries,
         \A i \in DOMAIN s : entries[s[i]].prio \in Priorities,
         \A i, k \in DOMAIN s : i # k => s[i] # s[k]
  PROVE  LET m == AppendAll(l, s, entries) IN
         /\ m \in Broker!Lists
         /\ \A j : Broker!CopiesOf(j, m) = Broker!CopiesOf(j, l) + One(j \in ToSet(s))
         /\ \A p \in Priorities : \A j \in Broker!Standing(m[p]) :
               j \in Broker!Standing(l[p]) \/ (j \in ToSet(s) /\ entries[j].prio = p)
  <1> DEFINE N == Len(s)   P(n) == entries[s[n]].prio
             Looped(f) == f = [n \in 0..N |-> IF n = 0 THEN l ELSE AppendsOne(f[n - 1], s, entries, n)]
             after == CHOOSE f : Looped(f)
             To(g, n) == /\ DOMAIN g = 0..n
                         /\ \A i \in 0..n : g[i] = IF i = 0 THEN l ELSE AppendsOne(g[i - 1], s, entries, i)
  <1>1. N \in Nat /\ DOMAIN s = 1..N
    OBVIOUS
  <1>2. \A n \in 0..N : \E g : To(g, n)
    <2> DEFINE Fails == {n \in 0..N : ~\E g : To(g, n)}
    <2> SUFFICES ASSUME Fails # {}  PROVE FALSE
      OBVIOUS
    <2>1. PICK n \in Fails : \A m \in Fails : n <= m
      <3>1. Fails \subseteq Nat
        OBVIOUS
      <3> HIDE DEF Fails
      <3> QED
        BY <3>1, NatHasLeast
    <2>2. n \in 0..N /\ ~\E g : To(g, n)
      BY <2>1
    <2>3. n # 0
      <3> DEFINE g == [i \in 0..0 |-> l]
      <3>1. DOMAIN g = 0..0 /\ \A i \in 0..0 : i = 0 /\ g[i] = l
        OBVIOUS
      <3>2. To(g, 0)
        BY <3>1
      <3> QED
        BY <2>2, <3>2
    <2>4. PICK g : To(g, n - 1)
      <3>1. n - 1 \in 0..N /\ ~(n <= n - 1)
        BY <1>1, <2>2, <2>3
      <3>2. n - 1 \notin Fails
        BY <2>1, <3>1
      <3> HIDE DEF To
      <3> QED
        BY <3>1, <3>2
    <2> DEFINE new == AppendsOne(g[n - 1], s, entries, n)
               h == [i \in 0..n |-> IF i = n THEN new ELSE g[i]]
    <2>5. DOMAIN h = 0..n /\ h[n] = new /\ \A i \in 0..(n - 1) : h[i] = g[i]
      BY <2>2, <2>3
    <2>6. \A i \in 0..n : h[i] = IF i = 0 THEN l ELSE AppendsOne(h[i - 1], s, entries, i)
      <3> SUFFICES ASSUME NEW i \in 0..n
                   PROVE  h[i] = IF i = 0 THEN l ELSE AppendsOne(h[i - 1], s, entries, i)
        OBVIOUS
      <3>1. CASE i = n
        <4>1. n - 1 \in 0..(n - 1)
          BY <2>2, <2>3
        <4>2. h[n - 1] = g[n - 1]
          BY <2>5, <4>1
        <4> HIDE DEF h
        <4> QED
          BY <2>3, <2>5, <3>1, <4>2
      <3>2. CASE i # n
        <4>1. i \in 0..(n - 1) /\ (i # 0 => i - 1 \in 0..(n - 1))
          BY <2>2, <3>2
        <4>2. h[i] = g[i] /\ (i # 0 => h[i - 1] = g[i - 1])
          BY <2>5, <4>1
        <4>3. g[i] = IF i = 0 THEN l ELSE AppendsOne(g[i - 1], s, entries, i)
          BY <2>4, <4>1
        <4> HIDE DEF h
        <4> QED
          BY <4>2, <4>3
      <3> QED
        BY <3>1, <3>2
    <2>7. To(h, n)
      <3> HIDE DEF h
      <3> QED
        BY <2>5, <2>6
    <2> QED
      BY <2>2, <2>7
  <1>3. Looped(after)
    <2>1. N \in 0..N
      BY <1>1
    <2>2. PICK g : To(g, N)
      BY <1>2, <2>1
    <2>3. g = [n \in 0..N |-> g[n]]
      BY <2>2
    <2>4. \A n \in 0..N : g[n] = IF n = 0 THEN l ELSE AppendsOne(g[n - 1], s, entries, n)
      BY <2>2
    <2>5. Looped(g)
      BY <2>3, <2>4
    <2> HIDE DEF Looped
    <2> QED
      BY <2>5
  <1>4. AppendAll(l, s, entries) = after[N]
    BY SameRanks DEF AppendAll, AppendsOne, Broker!Appended
  <1> HIDE DEF after
  <1>5. \A n \in 0..N : after[n] = IF n = 0 THEN l ELSE AppendsOne(after[n - 1], s, entries, n)
    BY <1>3
  <1> DEFINE Seen(n) == {s[i] : i \in 1..n}
             Right(n) == /\ after[n] \in Broker!Lists
                         /\ \A j : Broker!CopiesOf(j, after[n]) = Broker!CopiesOf(j, l) + One(j \in Seen(n))
                         /\ \A p \in Priorities : \A j \in Broker!Standing(after[n][p]) :
                               j \in Broker!Standing(l[p]) \/ (j \in Seen(n) /\ entries[j].prio = p)
  <1>6. \A n \in 0..N : Right(n)
    <2> DEFINE Fails == {n \in 0..N : ~Right(n)}
    <2> SUFFICES ASSUME Fails # {}  PROVE FALSE
      OBVIOUS
    <2>1. PICK n \in Fails : \A m \in Fails : n <= m
      <3>1. Fails \subseteq Nat
        OBVIOUS
      <3> HIDE DEF Fails
      <3> QED
        BY <3>1, NatHasLeast
    <2>2. n \in 0..N /\ ~Right(n)
      BY <2>1
    <2>3. n # 0
      <3>1. after[0] = l /\ Seen(0) = {}
        BY <1>1, <1>5
      <3>2. \A j : Broker!CopiesOf(j, l) \in Nat
        BY Broker!ListsCount, SameRanks
      <3>3. Right(0)
        BY <3>1, <3>2 DEF One
      <3> QED
        BY <2>2, <3>3
    <2>4. Right(n - 1)
      <3>1. n - 1 \in 0..N /\ ~(n <= n - 1)
        BY <1>1, <2>2, <2>3
      <3>2. n - 1 \notin Fails
        BY <2>1, <3>1
      <3> HIDE DEF Right
      <3> QED
        BY <3>1, <3>2
    <2> DEFINE q == after[n - 1]   p == P(n)   k == s[n]
    <2>5. n \in DOMAIN s /\ p \in Priorities /\ k \in Jobs
      BY <1>1, <2>2, <2>3
    <2>6. after[n] = Broker!Appended(q, p, k)
      BY <1>5, <2>2, <2>3 DEF AppendsOne
    <2>7. q \in Broker!Lists
      BY <2>4
    <2>8. Seen(n) = Seen(n - 1) \cup {k} /\ k \notin Seen(n - 1)
      <3>1. 1..n = (1..(n - 1)) \cup {n} /\ n \notin 1..(n - 1) /\ 1..(n - 1) \subseteq DOMAIN s
        BY <1>1, <2>2, <2>3
      <3>2. \A i \in 1..(n - 1) : s[i] # k
        BY <2>5, <3>1
      <3> QED
        BY <3>1, <3>2
    <2> HIDE DEF q, p, k, Seen
    <2>9. Broker!Changed(q, after[n], p, k, 1) /\ Broker!Standing(after[n][p]) = Broker!Standing(q[p]) \cup {k}
      <3> HIDE DEF Fails, Right, P, Looped, To, N
      <3> QED
        BY <2>5, <2>6, <2>7, Broker!ListAppended, SameRanks
    <2>10. \A j : Broker!CopiesOf(j, after[n]) = Broker!CopiesOf(j, l) + One(j \in Seen(n))
      <3> SUFFICES ASSUME NEW j  PROVE Broker!CopiesOf(j, after[n]) = Broker!CopiesOf(j, l) + One(j \in Seen(n))
        OBVIOUS
      <3>1. Broker!CopiesOf(j, after[n]) = Broker!CopiesOf(j, q) + (IF k = j THEN 1 ELSE 0)
        BY <2>5, <2>7, <2>9, Broker!ChangedCounts, SameRanks
      <3>2. Broker!CopiesOf(j, q) = Broker!CopiesOf(j, l) + One(j \in Seen(n - 1)) /\ Broker!CopiesOf(j, l) \in Nat
        BY <2>4, Broker!ListsCount, SameRanks DEF q
      <3> QED
        BY <2>8, <3>1, <3>2 DEF One
    <2>11. \A r \in Priorities : \A j \in Broker!Standing(after[n][r]) :
              j \in Broker!Standing(l[r]) \/ (j \in Seen(n) /\ entries[j].prio = r)
      <3> SUFFICES ASSUME NEW r \in Priorities, NEW j \in Broker!Standing(after[n][r])
                   PROVE  j \in Broker!Standing(l[r]) \/ (j \in Seen(n) /\ entries[j].prio = r)
        OBVIOUS
      <3>1. j \in Broker!Standing(q[r]) \/ (r = p /\ j = k)
        BY <2>9, SameRanks DEF Broker!Changed
      <3>2. j \in Broker!Standing(q[r]) => j \in Broker!Standing(l[r]) \/ (j \in Seen(n - 1) /\ entries[j].prio = r)
        BY <2>4 DEF q
      <3>3. entries[k].prio = p
        BY DEF k, p
      <3> QED
        BY <2>8, <3>1, <3>2, <3>3
    <2>12. after[n] \in Broker!Lists
      BY <2>9, SameRanks DEF Broker!Changed
    <2> QED
      BY <2>2, <2>10, <2>11, <2>12
  <1>7. N \in 0..N /\ Seen(N) = ToSet(s)
    BY <1>1 DEF ToSet
  <1> HIDE DEF Seen
  <1> QED
    BY <1>4, <1>6, <1>7

(* The dictionaries are walked in some order, each entry once.             *)
LEMMA SeqsOfSet ==
  ASSUME NEW T, IsFiniteSet(T), NEW s \in SetToSeqs(T)
  PROVE  s \in Seq(T) /\ ToSet(s) = T /\ \A i, k \in DOMAIN s : i # k => s[i] # s[k]
  <1> DEFINE n == Cardinality(T)
  <1>1. n \in Nat
    BY FS_CardinalityType
  <1>2. s \in [1..n -> T] /\ \A i, k \in 1..n : i # k => s[i] # s[k]
    BY DEF SetToSeqs
  <1>3. s \in Seq(T)
    BY <1>1, <1>2
  <1>4. s \in Injection(1..n, T)
    BY <1>2 DEF Injection, IsInjective
  <1>5. Cardinality(1..n) = n
    <2> HIDE DEF n
    <2> QED
      BY <1>1, FS_Interval
  <1>6. s \in Surjection(1..n, T)
    BY <1>4, <1>5, FS_Injection
  <1>7. \A t \in T : \E i \in DOMAIN s : s[i] = t
    BY <1>2, <1>6 DEF Surjection
  <1> QED
    BY <1>2, <1>3, <1>7 DEF ToSet

(* The two halves of PriorityKept: of the lists, and of a dictionary.      *)
Placed(l) == l \in Broker!Lists /\ \A p \in Priorities : \A j \in Broker!Standing(l[p]) : p = PriorityOf[j]
Kept(entries) ==
    /\ entries \in [Jobs -> Entries]
    /\ \A j \in Jobs : Present(entries[j]) => entries[j].prio = PriorityOf[j]

LEMMA ListsHoldJobs ==
  ASSUME NEW l \in Broker!Lists, NEW p \in Priorities, NEW j \in Broker!Standing(l[p])  PROVE j \in Jobs
  <1>1. l[p] \in Seq(Jobs)
    BY SameRanks DEF Broker!Lists
  <1> QED
    BY <1>1, SameRanks DEF Broker!Standing

LEMMA PriorityKeptParts ==
  /\ PriorityKept <=> now \in 0..MaxTime /\ Placed(lists) /\ Kept(inflight) /\ Kept(delayed)
  /\ now' \in 0..MaxTime /\ Placed(lists') /\ Kept(inflight') /\ Kept(delayed') => PriorityKept'
  BY ListsHoldJobs, SameTerms, SameRanks DEF PriorityKept, MemoryTypeOK, Placed, Kept, Broker!Lists

(* Sweeping a set of entries into the lists: each of its jobs is ready     *)
(* once more, at its own priority.                                         *)
LEMMA SetAppended ==
  ASSUME IsFiniteSet(Jobs), NEW l, Placed(l), NEW entries, Kept(entries), NEW T \in SUBSET Jobs,
         \A j \in T : Present(entries[j]), NEW s \in SetToSeqs(T)
  PROVE  /\ Placed(AppendAll(l, s, entries))
         /\ \A j : Broker!CopiesOf(j, AppendAll(l, s, entries)) = Broker!CopiesOf(j, l) + One(j \in T)
         /\ ToSet(s) = T
  <1>1. IsFiniteSet(T)
    BY FS_Subset
  <1>2. s \in Seq(T) /\ ToSet(s) = T /\ \A i, k \in DOMAIN s : i # k => s[i] # s[k]
    BY <1>1, SeqsOfSet
  <1>3. s \in Seq(Jobs) /\ \A i \in DOMAIN s : s[i] \in T
    BY <1>2
  <1>4. \A j \in T : entries[j].prio = PriorityOf[j] /\ PriorityOf[j] \in Priorities
    BY InMemoryAssumption DEF Kept
  <1>5. \A i \in DOMAIN s : entries[s[i]].prio \in Priorities
    BY <1>3, <1>4
  <1>6. l \in Broker!Lists
    BY DEF Placed
  <1> DEFINE m == AppendAll(l, s, entries)
  <1>7. /\ m \in Broker!Lists
        /\ \A j : Broker!CopiesOf(j, m) = Broker!CopiesOf(j, l) + One(j \in ToSet(s))
        /\ \A p \in Priorities : \A j \in Broker!Standing(m[p]) :
              j \in Broker!Standing(l[p]) \/ (j \in ToSet(s) /\ entries[j].prio = p)
    BY <1>2, <1>3, <1>5, <1>6, AppendAllAppends
  <1> HIDE DEF m
  <1>8. Placed(m)
    BY <1>2, <1>4, <1>7 DEF Placed
  <1> QED
    BY <1>2, <1>7, <1>8 DEF m

LEMMA EntriesDropped ==
  ASSUME NEW entries, Kept(entries), NEW S  PROVE Kept(Without(entries, S))
  BY DEF Kept, Without, Entries, Present

(* What has passed its time is what the abstract queue calls lapsed, due.  *)
LEMMA PastDueIsLate ==
  ASSUME PriorityKept
  PROVE  PastDue(inflight, now) = Abstract!Lapsed /\ PastDue(delayed, now) = Abstract!Due
  BY DEF PriorityKept, MemoryTypeOK, PastDue, Phase, Abstract!Lapsed, Abstract!Due, Entries,
         Present, NoEntry

(* What the abstract queue calls the ready copies of a job.                *)
Ready(j) == Copies(j, lists["high"]) + Copies(j, lists["normal"]) + Copies(j, lists["low"])

LEMMA ReadyCopies ==
  \A j : Ready(j) = Broker!CopiesOf(j, lists) /\ Ready(j)' = Broker!CopiesOf(j, lists')
  BY SameTerms, SameRanks DEF Ready, Broker!CopiesOf

(* dequeue (queue.py:82-112): the abstract dequeue of the job at the head, *)
(* after a sweep of whatever has passed its time.                          *)
LEMMA DequeueStep ==
  ASSUME IsFiniteSet(Jobs), PriorityKept, Dequeue  PROVE PriorityKept' /\ Abstract!QueueNext
  <1> DEFINE D == PastDue(delayed, now)   L == PastDue(inflight, now)
  <1>1. PICK promoted \in SetToSeqs(D), expired \in SetToSeqs(L) :
           LET swept == AppendAll(AppendAll(lists, promoted, delayed), expired, inflight)
               prio  == FirstReady(swept)
           IN  /\ swept[prio] # << >>
               /\ lists' = [swept EXCEPT ![prio] = Tail(@)]
               /\ delayed' = Without(delayed, ToSet(promoted))
               /\ inflight' = [Without(inflight, ToSet(expired)) EXCEPT
                                  ![Head(swept[prio])] = [at |-> now + Visibility, prio |-> prio]]
               /\ UNCHANGED now
    BY DEF Dequeue
  <1>2. D \in SUBSET Jobs /\ L \in SUBSET Jobs
        /\ (\A j \in D : Present(delayed[j])) /\ (\A j \in L : Present(inflight[j]))
    BY DEF PastDue
  <1>3. now \in 0..MaxTime /\ Placed(lists) /\ Kept(inflight) /\ Kept(delayed)
    BY PriorityKeptParts
  <1> HIDE DEF D, L
  <1>4. PICK mid : mid = AppendAll(lists, promoted, delayed)
    OBVIOUS
  <1>5. /\ Placed(mid) /\ \A j : Broker!CopiesOf(j, mid) = Broker!CopiesOf(j, lists) + One(j \in D)
        /\ ToSet(promoted) = D
    BY <1>2, <1>3, <1>4, SetAppended
  <1>6. PICK swept : swept = AppendAll(mid, expired, inflight)
    OBVIOUS
  <1>7. /\ Placed(swept) /\ \A j : Broker!CopiesOf(j, swept) = Broker!CopiesOf(j, mid) + One(j \in L)
        /\ ToSet(expired) = L
    BY <1>2, <1>3, <1>5, <1>6, SetAppended
  <1>8. PICK prio : prio = FirstReady(swept) /\ prio \in Priorities
    BY DEF FirstReady, Priorities
  <1>9. PICK k : k = Head(swept[prio])
    OBVIOUS
  <1>10. /\ swept[prio] # << >> /\ lists' = Broker!Popped(swept, prio)
         /\ delayed' = Without(delayed, D)
         /\ inflight' = [Without(inflight, L) EXCEPT ![k] = [at |-> now + Visibility, prio |-> prio]]
         /\ now' = now
    BY <1>1, <1>4, <1>5, <1>6, <1>7, <1>8, <1>9, SameRanks DEF Broker!Popped
  <1>11. /\ Broker!Changed(swept, lists', prio, k, -1) /\ Broker!Standing(lists'[prio]) \subseteq Broker!Standing(swept[prio])
         /\ k \in Broker!Standing(swept[prio]) /\ k \in Jobs /\ swept \in Broker!Lists
    BY <1>7, <1>8, <1>9, <1>10, Broker!ListPopped, SameRanks DEF Placed
  <1>12. Placed(lists')
    BY <1>7, <1>11, SameRanks DEF Placed, Broker!Changed
  <1>13. prio = PriorityOf[k]
    BY <1>7, <1>8, <1>11 DEF Placed
  <1>14. Kept(inflight')
    <2>1. Kept(Without(inflight, L))
      BY <1>3, EntriesDropped
    <2>2. [at |-> now + Visibility, prio |-> prio] \in Entries
      BY <1>3, <1>8, InMemoryAssumption DEF Entries
    <2> QED
      BY <1>10, <1>11, <1>13, <2>1, <2>2 DEF Kept
  <1>15. Kept(delayed')
    BY <1>3, <1>10, EntriesDropped
  <1>16. PriorityKept'
    <2>1. now' \in 0..MaxTime /\ Placed(lists') /\ Kept(inflight') /\ Kept(delayed')
      BY <1>3, <1>10, <1>12, <1>14, <1>15
    <2> QED
      BY <2>1, PriorityKeptParts
  <1>17. \A j : Broker!CopiesOf(j, lists') = Broker!CopiesOf(j, lists) + One(j \in D) + One(j \in L)
                                         + (IF k = j THEN -1 ELSE 0)
    BY <1>5, <1>7, <1>8, <1>11, Broker!ChangedCounts, SameRanks
  <1>18. \A j : Broker!CopiesOf(j, lists) \in Nat /\ Broker!CopiesOf(j, lists') \in Nat
    BY <1>3, <1>12, Broker!ListsCount, SameRanks DEF Placed
  <1>19. Abstract!Dequeue(k, L, D)
    <2>1. L \subseteq Abstract!Lapsed /\ D \subseteq Abstract!Due
      BY PastDueIsLate DEF L, D
    <2>2. \A j \in Jobs : Abstract!Swept(j, L, D)
                             = Broker!CopiesOf(j, lists) + One(j \in L) + One(j \in D)
      BY ReadyCopies DEF Abstract!Swept, Ready, One
    <2>3. Abstract!Swept(k, L, D) > 0
      BY <1>11, <1>17, <1>18, <2>2 DEF One
    <2>4. \A j \in Jobs : Broker!CopiesOf(j, lists')
             = IF j = k THEN Abstract!Swept(j, L, D) - 1 ELSE Abstract!Swept(j, L, D)
      BY <1>17, <1>18, <2>2 DEF One
    <2>5. \A j \in Jobs : Phase(inflight[j], "live", "lapsed")'
             = IF j = k THEN "live" ELSE IF j \in L THEN "none" ELSE Phase(inflight[j], "live", "lapsed")
      BY <1>3, <1>10, <1>11, InMemoryAssumption DEF Phase, Without, Present, NoEntry, Kept
    <2>6. \A j \in Jobs : Phase(delayed[j], "waiting", "due")'
             = IF j \in D THEN "none" ELSE Phase(delayed[j], "waiting", "due")
      BY <1>10 DEF Phase, Without, Present
    <2> HIDE DEF L, D
    <2> QED
      BY <1>11, <2>1, <2>3, <2>4, <2>5, <2>6, ReadyCopies DEF Abstract!Dequeue, Ready
  <1>20. L \in SUBSET Abstract!Lapsed /\ D \in SUBSET Abstract!Due
    BY PastDueIsLate DEF L, D
  <1> QED
    BY <1>11, <1>16, <1>19, <1>20 DEF Abstract!QueueNext

(* The abstract copies, leases and delays of one job.                      *)
Leased(j) == Phase(inflight[j], "live", "lapsed")
Parked(j) == Phase(delayed[j], "waiting", "due")

LEMMA KeptLists ==
  ASSUME PriorityKept
  PROVE  /\ now \in 0..MaxTime /\ lists \in Broker!Lists /\ Placed(lists) /\ Kept(inflight) /\ Kept(delayed)
         /\ \A j : Broker!CopiesOf(j, lists) \in Nat
  BY PriorityKeptParts, Broker!ListsCount, SameRanks DEF Placed

(* A reservation in force is a live lease, at the priority of the record.  *)
LEMMA ReservedIsLive ==
  ASSUME PriorityKept, NEW j \in Jobs, Reserved(j)
  PROVE  Leased(j) = "live" /\ inflight[j].prio = PriorityOf[j] /\ PriorityOf[j] \in Priorities
  BY InMemoryAssumption DEF PriorityKept, Reserved, Leased, Phase

(* A job put at the end or the head of its own list is ready once more.    *)
LEMMA JobPlaced ==
  ASSUME PriorityKept, NEW k \in Jobs, NEW m,
         m = Broker!Appended(lists, PriorityOf[k], k) \/ m = Broker!Prepended(lists, PriorityOf[k], k)
  PROVE  Placed(m) /\ \A j : Broker!CopiesOf(j, m) = Broker!CopiesOf(j, lists) + One(j = k)
  <1>1. PICK p \in Priorities : p = PriorityOf[k]
    BY InMemoryAssumption
  <1>2. lists \in Broker!Lists /\ Placed(lists) /\ \A j : Broker!CopiesOf(j, lists) \in Nat
    BY KeptLists
  <1>3. Broker!Changed(lists, m, p, k, 1) /\ Broker!Standing(m[p]) \subseteq Broker!Standing(lists[p]) \cup {k}
    <2>1. CASE m = Broker!Appended(lists, p, k)
      BY <1>2, <2>1, Broker!ListAppended, SameRanks
    <2>2. CASE m = Broker!Prepended(lists, p, k)
      BY <1>2, <2>2, Broker!ListPrepended, SameRanks
    <2> QED
      BY <1>1, <2>1, <2>2
  <1>4. Placed(m)
    BY <1>1, <1>2, <1>3, SameRanks DEF Placed, Broker!Changed
  <1>5. \A j : Broker!CopiesOf(j, m) = Broker!CopiesOf(j, lists) + (IF k = j THEN 1 ELSE 0)
    BY <1>2, <1>3, Broker!ChangedCounts, SameRanks
  <1> QED
    BY <1>4, <1>5 DEF One

(* enqueue (queue.py:77-80) of a job that the broker does not know of.     *)
LEMMA EnqueueStep ==
  ASSUME PriorityKept, NEW k \in Jobs, ~Known(k), Enqueue(k)  PROVE PriorityKept' /\ Abstract!QueueNext
  <1>1. lists' = Broker!Appended(lists, PriorityOf[k], k) /\ now' = now /\ inflight' = inflight /\ delayed' = delayed
    BY SameRanks DEF Enqueue, Broker!Appended
  <1>2. Placed(lists') /\ \A j : Broker!CopiesOf(j, lists') = Broker!CopiesOf(j, lists) + One(j = k)
    BY <1>1, JobPlaced
  <1>3. PriorityKept'
    BY <1>1, <1>2, PriorityKeptParts
  <1>4. ~Abstract!Queued(k)
    <2>1. ~(Broker!CopiesOf(k, lists) > 0)
      BY KeptLists, Broker!ListsCount, SameTerms, SameRanks DEF Known
    <2> QED
      BY <2>1, ReadyCopies DEF Abstract!Queued, Ready, Known, Phase
  <1>5. Abstract!Enqueue(k)
    <2>1. \A j \in Jobs : Broker!CopiesOf(j, lists') = IF j = k THEN Broker!CopiesOf(k, lists) + 1 ELSE Broker!CopiesOf(j, lists)
      BY <1>2, KeptLists DEF One
    <2>2. \A j \in Jobs : Leased(j)' = Leased(j) /\ Parked(j)' = Parked(j)
      BY <1>1 DEF Leased, Parked, Phase
    <2> QED
      BY <2>1, <2>2, ReadyCopies DEF Abstract!Enqueue, Ready, Leased, Parked
  <1> QED
    BY <1>3, <1>4, <1>5 DEF Abstract!QueueNext

(* ack (queue.py:114-116) under a reservation in force.                    *)
LEMMA AckStep ==
  ASSUME PriorityKept, NEW k \in Jobs, Reserved(k), Ack(k)  PROVE PriorityKept' /\ Abstract!QueueNext
  <1>1. lists' = lists /\ now' = now /\ inflight' = Without(inflight, {k}) /\ delayed' = delayed
    BY DEF Ack
  <1>2. PriorityKept'
    BY <1>1, PriorityKeptParts, EntriesDropped
  <1>3. Abstract!Ack(k)
    <2>1. \A j \in Jobs : Leased(j)' = (IF j = k THEN "none" ELSE Leased(j)) /\ Parked(j)' = Parked(j)
      BY <1>1 DEF Leased, Parked, Phase, Without, Present
    <2> QED
      BY <1>1, <2>1 DEF Abstract!Ack, Leased, Parked
  <1> QED
    BY <1>2, <1>3, ReservedIsLive DEF Abstract!QueueNext, Leased

(* The step that puts a reserved job back into its list at once.           *)
LEMMA PutBackStep ==
  ASSUME PriorityKept, NEW k \in Jobs, Reserved(k), now' = now, delayed' = delayed,
         inflight' = Without(inflight, {k}),
         lists' = Broker!Appended(lists, PriorityOf[k], k) \/ lists' = Broker!Prepended(lists, PriorityOf[k], k)
  PROVE  PriorityKept' /\ Abstract!QueueNext
  <1>1. PICK m : m = lists'
    OBVIOUS
  <1>2. Placed(m) /\ \A j : Broker!CopiesOf(j, m) = Broker!CopiesOf(j, lists) + One(j = k)
    BY <1>1, JobPlaced
  <1>3. PriorityKept'
    BY <1>1, <1>2, PriorityKeptParts, EntriesDropped
  <1>4. Abstract!NackNow(k)
    <2>1. \A j \in Jobs : Broker!CopiesOf(j, lists') = IF j = k THEN Broker!CopiesOf(k, lists) + 1 ELSE Broker!CopiesOf(j, lists)
      BY <1>1, <1>2, KeptLists DEF One
    <2>2. \A j \in Jobs : Leased(j)' = (IF j = k THEN "none" ELSE Leased(j)) /\ Parked(j)' = Parked(j)
      BY DEF Leased, Parked, Phase, Without, Present
    <2> QED
      BY <2>1, <2>2, ReadyCopies DEF Abstract!NackNow, Ready, Leased, Parked
  <1> QED
    BY <1>3, <1>4, ReservedIsLive DEF Abstract!QueueNext, Leased

(* nack (queue.py:118-125) under a reservation in force, which still names *)
(* the priority the job was enqueued with.                                 *)
LEMMA NackStep ==
  ASSUME PriorityKept, NEW k \in Jobs, NEW delay \in Delays, Reserved(k), Nack(k, delay)
  PROVE  PriorityKept' /\ Abstract!QueueNext
  <1>1. PriorityLeft(k, "normal") = PriorityOf[k]
    BY ReservedIsLive DEF PriorityLeft, Reserved
  <1>2. delay \in Nat /\ inflight' = Without(inflight, {k}) /\ now' = now
    BY InMemoryAssumption DEF Nack
  <1>3. CASE delay > 0
    <2>1. delayed' = [delayed EXCEPT ![k] = [at |-> now + delay, prio |-> PriorityOf[k]]] /\ lists' = lists
      BY <1>1, <1>3 DEF Nack
    <2>2. now \in Nat /\ Kept(delayed) /\ Kept(inflight) /\ PriorityOf[k] \in Priorities
      BY KeptLists, InMemoryAssumption
    <2>3. Kept(delayed')
      BY <1>2, <2>1, <2>2 DEF Kept, Entries
    <2>4. PriorityKept'
      BY <1>2, <2>1, <2>3, PriorityKeptParts, EntriesDropped
    <2>5. Abstract!NackDelayed(k)
      <3>1. \A j \in Jobs : Leased(j)' = (IF j = k THEN "none" ELSE Leased(j))
        BY <1>2 DEF Leased, Phase, Without, Present
      <3>2. \A j \in Jobs : Parked(j)' = (IF j = k THEN "waiting" ELSE Parked(j))
        BY <1>2, <1>3, <2>1, <2>2 DEF Parked, Phase, Present, NoEntry, Kept
      <3> QED
        BY <2>1, <3>1, <3>2 DEF Abstract!NackDelayed, Leased, Parked
    <2> QED
      BY <2>4, <2>5, ReservedIsLive DEF Abstract!QueueNext, Leased
  <1>4. CASE ~(delay > 0)
    <2>1. lists' = Broker!Appended(lists, PriorityOf[k], k) /\ delayed' = delayed
      BY <1>1, <1>4, SameRanks DEF Nack, Broker!Appended
    <2> QED
      BY <1>2, <2>1, PutBackStep
  <1> QED
    BY <1>3, <1>4

(* requeue (queue.py:127-131), to the head of its list.                    *)
LEMMA RequeueStep ==
  ASSUME PriorityKept, NEW k \in Jobs, Reserved(k), Requeue(k)  PROVE PriorityKept' /\ Abstract!QueueNext
  <1>1. PriorityLeft(k, "high") = PriorityOf[k]
    BY ReservedIsLive DEF PriorityLeft, Reserved
  <1>2. lists' = Broker!Prepended(lists, PriorityOf[k], k) /\ inflight' = Without(inflight, {k})
        /\ now' = now /\ delayed' = delayed
    BY <1>1, SameRanks DEF Requeue, Broker!Prepended
  <1> QED
    BY <1>2, PutBackStep

(* reclaim_expired_inflight (queue.py:150-159), whose clock may be old by  *)
(* the time it has the lock: what it takes back has lapsed all the same.   *)
LEMMA ReclaimStep ==
  ASSUME IsFiniteSet(Jobs), PriorityKept, NEW t \in 0..now, Reclaim(t)
  PROVE  PriorityKept' /\ Abstract!QueueNext
  <1> DEFINE L == PastDue(inflight, t)
  <1>1. PICK expired \in SetToSeqs(L) :
           /\ lists' = AppendAll(lists, expired, inflight)
           /\ inflight' = Without(inflight, ToSet(expired))
           /\ now' = now /\ delayed' = delayed
    BY DEF Reclaim
  <1>2. now \in 0..MaxTime /\ now \in Nat /\ Placed(lists) /\ Kept(inflight) /\ Kept(delayed)
    BY KeptLists
  <1>3. L \in SUBSET Jobs /\ \A j \in L : Present(inflight[j])
    BY DEF PastDue
  <1>4. L \in SUBSET Abstract!Lapsed
    <2>1. L \subseteq PastDue(inflight, now)
      BY <1>2 DEF PastDue, Kept, Entries, Present
    <2> HIDE DEF L
    <2> QED
      BY <2>1, PastDueIsLate
  <1> HIDE DEF L
  <1>5. PICK m : m = lists'
    OBVIOUS
  <1>6. /\ Placed(m) /\ \A j : Broker!CopiesOf(j, m) = Broker!CopiesOf(j, lists) + One(j \in L)
        /\ ToSet(expired) = L
    BY <1>1, <1>2, <1>3, <1>5, SetAppended
  <1>7. PriorityKept'
    BY <1>1, <1>2, <1>5, <1>6, PriorityKeptParts, EntriesDropped
  <1>8. Abstract!Sweep(L, {})
    <2>1. \A j \in Jobs : Broker!CopiesOf(j, lists') = Broker!CopiesOf(j, lists) + One(j \in L) + One(j \in {})
      BY <1>5, <1>6, KeptLists DEF One
    <2>2. \A j \in Jobs : Leased(j)' = (IF j \in L THEN "none" ELSE Leased(j))
      BY <1>1, <1>6 DEF Leased, Phase, Without, Present
    <2>3. \A j \in Jobs : Parked(j)' = (IF j \in {} THEN "none" ELSE Parked(j))
      BY <1>1 DEF Parked, Phase
    <2> QED
      BY <1>4, <2>1, <2>2, <2>3, ReadyCopies DEF Abstract!Sweep, Abstract!Swept, Ready, One, Leased, Parked
  <1>9. {} \in SUBSET Abstract!Due
    OBVIOUS
  <1> QED
    BY <1>4, <1>7, <1>8, <1>9 DEF Abstract!QueueNext

(* The clock: what reaches its time lapses, or falls due.                  *)
LEMMA TickStep ==
  ASSUME PriorityKept, Tick  PROVE PriorityKept' /\ Abstract!QueueNext
  <1> DEFINE L == {j \in Jobs : Leased(j) = "live" /\ Leased(j)' = "lapsed"}
             D == {j \in Jobs : Parked(j) = "waiting" /\ Parked(j)' = "due"}
  <1>1. now' = now + 1 /\ now' \in 0..MaxTime /\ lists' = lists /\ inflight' = inflight /\ delayed' = delayed
    BY KeptLists, InMemoryAssumption DEF Tick
  <1>2. PriorityKept'
    BY <1>1, KeptLists, PriorityKeptParts
  <1>3. \A j \in Jobs : Leased(j)' = IF j \in L THEN "lapsed" ELSE Leased(j)
    BY <1>1, KeptLists DEF Leased, Phase, Kept, Entries, Present
  <1>4. \A j \in Jobs : Parked(j)' = IF j \in D THEN "due" ELSE Parked(j)
    BY <1>1, KeptLists DEF Parked, Phase, Kept, Entries, Present
  <1>5. (\A j \in L : j \in Jobs /\ Leased(j) = "live") /\ (\A j \in D : j \in Jobs /\ Parked(j) = "waiting")
    OBVIOUS
  <1> HIDE DEF L, D
  <1>6. Abstract!Elapse(L, D)
    BY <1>1, <1>3, <1>4, <1>5 DEF Abstract!Elapse, Leased, Parked
  <1>7. L \in SUBSET Jobs /\ D \in SUBSET Jobs
    BY <1>5
  <1> QED
    BY <1>2, <1>6, <1>7 DEF Abstract!QueueNext

LEMMA MemoryStep ==
  ASSUME IsFiniteSet(Jobs), PriorityKept, [MemoryNext]_memoryVars
  PROVE  PriorityKept' /\ [Abstract!QueueNext]_(Abstract!queue)
  <1>1. CASE MemoryNext
    <2>1. ASSUME NEW j \in Jobs, ~Known(j), Enqueue(j)  PROVE PriorityKept' /\ Abstract!QueueNext
      BY <2>1, EnqueueStep
    <2>2. ASSUME NEW j \in Jobs, Reserved(j), Ack(j)  PROVE PriorityKept' /\ Abstract!QueueNext
      BY <2>2, AckStep
    <2>3. ASSUME NEW j \in Jobs, NEW delay \in Delays, Reserved(j), Nack(j, delay)
          PROVE  PriorityKept' /\ Abstract!QueueNext
      BY <2>3, NackStep
    <2>4. ASSUME NEW j \in Jobs, Reserved(j), Requeue(j)  PROVE PriorityKept' /\ Abstract!QueueNext
      BY <2>4, RequeueStep
    <2>5. ASSUME Dequeue  PROVE PriorityKept' /\ Abstract!QueueNext
      BY <2>5, DequeueStep
    <2>6. ASSUME NEW t \in 0..now, Reclaim(t)  PROVE PriorityKept' /\ Abstract!QueueNext
      BY <2>6, ReclaimStep
    <2>7. ASSUME Tick  PROVE PriorityKept' /\ Abstract!QueueNext
      BY <2>7, TickStep
    <2> QED
      BY <1>1, <2>1, <2>2, <2>3, <2>4, <2>5, <2>6, <2>7 DEF MemoryNext
  <1>2. CASE UNCHANGED memoryVars
    <2>1. now' = now /\ lists' = lists /\ inflight' = inflight /\ delayed' = delayed
      BY <1>2 DEF memoryVars
    <2>2. PriorityKept'
      BY <2>1, PriorityKeptParts
    <2>3. UNCHANGED Abstract!queue
      BY <2>1 DEF Abstract!queue, Phase
    <2> QED
      BY <2>2, <2>3
  <1> QED
    BY <1>1, <1>2

LEMMA MemoryStarts == MemoryInit => PriorityKept /\ Abstract!QueueInit
  <1> SUFFICES ASSUME MemoryInit  PROVE PriorityKept /\ Abstract!QueueInit
    OBVIOUS
  <1>1. PriorityKept
    BY InMemoryAssumption DEF MemoryInit, PriorityKept, MemoryTypeOK, Entries, Present, ToSet
  <1>2. \A j \in Jobs : Broker!CopiesOf(j, lists) = 0
    BY Broker!NoCopies, SameRanks DEF MemoryInit, Broker!CopiesOf, Priorities
  <1>3. Abstract!QueueInit
    BY <1>2, ReadyCopies DEF Abstract!QueueInit, MemoryInit, Ready, Phase, Present
  <1> QED
    BY <1>1, <1>3

(* A job keeps the priority of its record in the broker, through any round *)
(* of leases, expiries, retries and requeues of dutiful clients.           *)
THEOREM PrioritiesAreKept == IsFiniteSet(Jobs) /\ MemorySpec => []PriorityKept
  <1> SUFFICES ASSUME IsFiniteSet(Jobs)  PROVE MemorySpec => []PriorityKept
    OBVIOUS
  <1>1. PriorityKept /\ [MemoryNext]_memoryVars => PriorityKept'
    BY MemoryStep
  <1> QED
    BY <1>1, MemoryStarts, PTL DEF MemorySpec

(* The in-memory queue is the broker that the rest of the job system is    *)
(* built on: each of its methods is one operation of LeaseQueue.           *)
THEOREM MemoryImplementsQueue == IsFiniteSet(Jobs) /\ MemorySpec => ImplementsLeaseQueue
  <1> SUFFICES ASSUME IsFiniteSet(Jobs)  PROVE MemorySpec => ImplementsLeaseQueue
    OBVIOUS
  <1>1. PriorityKept /\ [MemoryNext]_memoryVars => PriorityKept' /\ [Abstract!QueueNext]_(Abstract!queue)
    BY MemoryStep
  <1> QED
    BY <1>1, MemoryStarts, PTL DEF MemorySpec, ImplementsLeaseQueue, Abstract!QueueSpec
-----------------------------------------------------------------------------
(* The Redis queue, of which RedisProofs shows the same.                   *)
RedisQueue == INSTANCE RedisProofs WITH
    Jobs <- RedisJobs, PriorityOf <- [j \in RedisJobs |-> PriorityOf[j]],
    lists <- redisLists, inflight <- leases, inflightPrio <- leasePrio,
    delayed <- delays, delayedPrio <- delayPrio

LEMMA RedisConstantsHold == RedisQueue!RedisConstants
  BY InMemoryAssumption, RedisAssumption DEF RedisQueue!RedisConstants, RedisQueue!Priorities, Priorities

(* The same module twice: once as the model has it, once with its proofs.  *)
LEMMA SameInit == Redis!Init <=> RedisQueue!Init
  BY DEF
     Redis!Init, RedisQueue!Init, Redis!Priorities, RedisQueue!Priorities, Redis!NoPriority,
     RedisQueue!NoPriority, Redis!Resting, RedisQueue!Resting, Redis!NoTask, RedisQueue!NoTask

LEMMA SameNext == [Redis!Next]_(Redis!vars) <=> [RedisQueue!Next]_(RedisQueue!vars)
  BY DEF
     Redis!Next, RedisQueue!Next, Redis!vars, RedisQueue!vars, Redis!keys, RedisQueue!keys,
     Redis!Resting, RedisQueue!Resting, Redis!NoTask, RedisQueue!NoTask, Redis!NoPriority,
     RedisQueue!NoPriority, Redis!Priorities, RedisQueue!Priorities, Redis!Or, RedisQueue!Or,
     Redis!PollerStep, RedisQueue!PollerStep, Redis!TaskStep, RedisQueue!TaskStep,
     Redis!PollerCrashes, RedisQueue!PollerCrashes, Redis!Enqueue, RedisQueue!Enqueue,
     Redis!TaskCrashes, RedisQueue!TaskCrashes, Redis!DelayPasses, RedisQueue!DelayPasses,
     Redis!LeaseLapses, RedisQueue!LeaseLapses, Redis!ScanDelayed, RedisQueue!ScanDelayed,
     Redis!Promote, RedisQueue!Promote, Redis!ScanInflight, RedisQueue!ScanInflight, Redis!Reclaim,
     RedisQueue!Reclaim, Redis!StartPopping, RedisQueue!StartPopping, Redis!Pop, RedisQueue!Pop,
     Redis!Reserve, RedisQueue!Reserve, Redis!FetchPriority, RedisQueue!FetchPriority,
     Redis!PushBack, RedisQueue!PushBack, Redis!After, RedisQueue!After, Redis!Ack, RedisQueue!Ack,
     Redis!Return, RedisQueue!Return, Redis!NackDelayed, RedisQueue!NackDelayed, Redis!NackNow,
     RedisQueue!NackNow, Redis!Requeue, RedisQueue!Requeue, Redis!Unreserve, RedisQueue!Unreserve

LEMMA SameSafety ==
  /\ Redis!PriorityKept <=> RedisQueue!PriorityKept
  /\ Redis!NothingLost <=> RedisQueue!NothingLost
  BY DEF
     Redis!PriorityKept, RedisQueue!PriorityKept, Redis!TypeOK, RedisQueue!TypeOK,
     Redis!NothingLost, RedisQueue!NothingLost, Redis!Known, RedisQueue!Known, Redis!InHand,
     RedisQueue!InHand, Redis!ToSet, RedisQueue!ToSet, Redis!Priorities, RedisQueue!Priorities,
     Redis!NoPriority, RedisQueue!NoPriority

LEMMA SameSpec == Redis!Spec => RedisQueue!Spec
  BY SameInit, SameNext, PTL DEF Redis!Spec, RedisQueue!Spec

(* In both queues a job stands where its record says, and in that of Redis *)
(* no job is lost but in the hand of a poller that dies, as long as one    *)
(* process at a time polls.                                                *)
THEOREM JobsStandInPlace ==
  IsFiniteSet(Jobs) /\ RedisQueue!OnePoller /\ MemorySpec /\ Redis!Spec => []JobsKeepTheirPlace
  <1> SUFFICES ASSUME IsFiniteSet(Jobs), RedisQueue!OnePoller
               PROVE  MemorySpec /\ Redis!Spec => []JobsKeepTheirPlace
    OBVIOUS
  <1>1. MemorySpec => []PriorityKept
    BY PrioritiesAreKept
  <1>2. RedisQueue!Spec => []RedisQueue!PriorityKept
    BY RedisConstantsHold, RedisQueue!RedisPrioritiesAreKept
  <1>3. RedisQueue!Spec => []RedisQueue!NothingLost
    BY RedisConstantsHold, RedisQueue!RedisLosesNothing
  <1>4. RedisQueue!PriorityKept /\ RedisQueue!NothingLost /\ PriorityKept => JobsKeepTheirPlace
    BY SameSafety DEF JobsKeepTheirPlace
  <1> QED
    BY <1>1, <1>2, <1>3, <1>4, SameSpec, PTL

LEMMA SameInterface == RedisQueue!ImplementsLeaseQueue => RedisImplementsQueue
  <1>1. RedisQueue!Abstract!QueueInit => Redis!Abstract!QueueInit
    BY DEF RedisQueue!Abstract!QueueInit, Redis!Abstract!QueueInit,
           Redis!InHand, RedisQueue!InHand, Redis!Copies, RedisQueue!Copies,
           Redis!Cardinality, RedisQueue!Cardinality
  <1>2. [RedisQueue!Abstract!QueueNext]_(RedisQueue!Abstract!queue)
           => [Redis!Abstract!QueueNext]_(Redis!Abstract!queue)
    BY DEF
       Redis!Abstract!queue, RedisQueue!Abstract!queue, Redis!Abstract!QueueNext,
       RedisQueue!Abstract!QueueNext, Redis!Abstract!Queued, RedisQueue!Abstract!Queued,
       Redis!Abstract!Enqueue, RedisQueue!Abstract!Enqueue, Redis!Abstract!Dequeue,
       RedisQueue!Abstract!Dequeue, Redis!Abstract!Swept, RedisQueue!Abstract!Swept,
       Redis!Abstract!Lapsed, RedisQueue!Abstract!Lapsed, Redis!Abstract!Due,
       RedisQueue!Abstract!Due, Redis!Abstract!Ack, RedisQueue!Abstract!Ack,
       Redis!Abstract!NackDelayed, RedisQueue!Abstract!NackDelayed, Redis!Abstract!NackNow,
       RedisQueue!Abstract!NackNow, Redis!Abstract!Sweep, RedisQueue!Abstract!Sweep,
       Redis!Abstract!Elapse, RedisQueue!Abstract!Elapse, Redis!InHand, RedisQueue!InHand,
       Redis!Copies, RedisQueue!Copies,
       Redis!Cardinality, RedisQueue!Cardinality
  <1> QED
    BY <1>1, <1>2, PTL DEF RedisImplementsQueue, RedisQueue!ImplementsLeaseQueue, Redis!ImplementsLeaseQueue,
                           RedisQueue!Abstract!QueueSpec, Redis!Abstract!QueueSpec

(* What a process may do to the keys of Redis, command by command, is what *)
(* the JobQueue interface promises.                                        *)
THEOREM RedisImplementsInterface == RedisQueue!OnePoller /\ Redis!Spec => RedisImplementsQueue
  <1> SUFFICES ASSUME RedisQueue!OnePoller  PROVE Redis!Spec => RedisImplementsQueue
    OBVIOUS
  <1>1. RedisQueue!Spec => RedisQueue!ImplementsLeaseQueue
    BY RedisConstantsHold, RedisQueue!RedisImplementsBroker
  <1> QED
    BY <1>1, SameSpec, SameInterface, PTL
=============================================================================
