--------------------------- MODULE LeaseQueueProofs ---------------------------
(***************************************************************************)
(* The broker keeps a job in one place and drops none on its own, for any  *)
(* set of jobs, as long as its clients are dutiful (QueueNext).            *)
(***************************************************************************)
EXTENDS LeaseQueue, Sequences, FiniteSets, SequenceTheorems, FiniteSetTheorems, TLAPS

QueueInv == QueueTypeOK /\ OneEntry

(* No entries is at most one entry.                                        *)
LEMMA QueueInitInv == QueueInit => QueueInv
  BY DEF QueueInit, QueueInv, QueueTypeOK, OneEntry, LeaseStates, DelayStates

(* A job the broker does not know of may be enqueued.                      *)
LEMMA EnqueueInv ==
  ASSUME NEW j \in Jobs, QueueInv, ~Queued(j), Enqueue(j)  PROVE QueueInv'
  BY DEF QueueInv, QueueTypeOK, OneEntry, Queued, Enqueue, LeaseStates, DelayStates

(* Sweeping moves entries: a lapsed lease or a due delay becomes the ready *)
(* copy, and its job had no other entry.                                   *)
LEMMA SweepInv ==
  ASSUME NEW L \in SUBSET Lapsed, NEW D \in SUBSET Due, QueueInv, Sweep(L, D)
  PROVE  QueueInv'
  BY DEF QueueInv, QueueTypeOK, OneEntry, Sweep, Swept, Lapsed, Due, LeaseStates, DelayStates

(* Taking the one ready copy of a job leaves the lease as its one entry.   *)
LEMMA DequeueInv ==
  ASSUME NEW j \in Jobs, NEW L \in SUBSET Lapsed, NEW D \in SUBSET Due,
         QueueInv, Dequeue(j, L, D)
  PROVE  QueueInv'
  <1>1. ready' \in [Jobs -> Nat]
    BY DEF QueueInv, QueueTypeOK, Dequeue, Swept
  <1>2. lease' \in [Jobs -> LeaseStates] /\ delay' \in [Jobs -> DelayStates]
    BY DEF QueueInv, QueueTypeOK, Dequeue, LeaseStates, DelayStates
  <1>3. \A k \in Jobs : Swept(k, L, D) \in {0, 1}
                        /\ (Swept(k, L, D) = 1 => (k \in L \/ lease[k] = "none")
                                               /\ (k \in D \/ delay[k] = "none"))
    BY DEF QueueInv, QueueTypeOK, OneEntry, Swept, Lapsed, Due, LeaseStates, DelayStates
  <1>4. OneEntry'
    BY <1>3 DEF QueueInv, QueueTypeOK, OneEntry, Dequeue, Lapsed, Due
  <1> QED
    BY <1>1, <1>2, <1>4 DEF QueueInv, QueueTypeOK

(* Settling a live lease removes it, or turns it into the one other entry. *)
LEMMA SettleInv ==
  ASSUME NEW j \in Jobs, QueueInv, lease[j] = "live",
         Ack(j) \/ NackDelayed(j) \/ NackNow(j)
  PROVE  QueueInv'
  <1>1. CASE Ack(j)
    BY <1>1 DEF QueueInv, QueueTypeOK, OneEntry, Ack, LeaseStates, DelayStates
  <1>2. CASE NackDelayed(j)
    BY <1>2 DEF QueueInv, QueueTypeOK, OneEntry, NackDelayed, LeaseStates, DelayStates
  <1>3. CASE NackNow(j)
    BY <1>3 DEF QueueInv, QueueTypeOK, OneEntry, NackNow, LeaseStates, DelayStates
  <1> QED
    BY <1>1, <1>2, <1>3

(* Time moves no entry.                                                    *)
LEMMA ElapseInv ==
  ASSUME NEW L \in SUBSET Jobs, NEW D \in SUBSET Jobs, QueueInv, Elapse(L, D)
  PROVE  QueueInv'
  BY DEF QueueInv, QueueTypeOK, OneEntry, Elapse, LeaseStates, DelayStates

LEMMA QueueNextInv == QueueInv /\ [QueueNext]_queue => QueueInv'
  <1> SUFFICES ASSUME QueueInv, [QueueNext]_queue  PROVE QueueInv'
    OBVIOUS
  <1>1. ASSUME NEW j \in Jobs, ~Queued(j), Enqueue(j)  PROVE QueueInv'
    BY <1>1, EnqueueInv
  <1>2. ASSUME NEW j \in Jobs, NEW L \in SUBSET Lapsed, NEW D \in SUBSET Due,
               Dequeue(j, L, D)
        PROVE  QueueInv'
    BY <1>2, DequeueInv
  <1>3. ASSUME NEW j \in Jobs, lease[j] = "live", Ack(j) \/ NackDelayed(j) \/ NackNow(j)
        PROVE  QueueInv'
    BY <1>3, SettleInv
  <1>4. ASSUME NEW L \in SUBSET Lapsed, NEW D \in SUBSET Due, Sweep(L, D)  PROVE QueueInv'
    BY <1>4, SweepInv
  <1>5. ASSUME NEW L \in SUBSET Jobs, NEW D \in SUBSET Jobs, Elapse(L, D)  PROVE QueueInv'
    BY <1>5, ElapseInv
  <1>6. CASE UNCHANGED queue
    BY <1>6 DEF QueueInv, QueueTypeOK, OneEntry, queue
  <1> QED
    BY <1>1, <1>2, <1>3, <1>4, <1>5, <1>6 DEF QueueNext

(* With dutiful clients a job is never in two places of the broker, so it  *)
(* is never handed to two workers (JobQueue, queue.py:17-58).              *)
THEOREM BrokerKeepsOneEntry == QueueSpec => [](QueueTypeOK /\ OneEntry)
  <1>1. QueueInit => QueueInv
    BY QueueInitInv
  <1>2. QueueInv /\ [QueueNext]_queue => QueueInv'
    BY QueueNextInv
  <1> QED
    BY <1>1, <1>2, PTL DEF QueueSpec, QueueInv

(* The broker forgets a job only when its live lease is acknowledged: not  *)
(* while it is ready, not while it waits for a retry, and not because its  *)
(* lease lapsed (queue.py: dequeue, nack, reclaim_expired_inflight).       *)
THEOREM BrokerDropsOnlyByAck == QueueSpec => DropOnlyByAck
  <1>1. ASSUME QueueInv, [QueueNext]_queue, NEW j \in Jobs, Queued(j), ~Queued(j)'
        PROVE  lease[j] = "live"
    <2>1. ASSUME NEW k \in Jobs, Enqueue(k)  PROVE FALSE
      BY <1>1, <2>1 DEF QueueInv, QueueTypeOK, Queued, Enqueue
    <2>2. ASSUME NEW k \in Jobs, NEW L \in SUBSET Lapsed, NEW D \in SUBSET Due,
                 Dequeue(k, L, D)
          PROVE  FALSE
      BY <1>1, <2>2 DEF QueueInv, QueueTypeOK, Queued, Dequeue, Swept, Lapsed, Due
    <2>3. ASSUME NEW k \in Jobs, lease[k] = "live", Ack(k) \/ NackDelayed(k) \/ NackNow(k)
          PROVE  lease[j] = "live"
      BY <1>1, <2>3 DEF QueueInv, QueueTypeOK, Queued, Ack, NackDelayed, NackNow
    <2>4. ASSUME NEW L \in SUBSET Lapsed, NEW D \in SUBSET Due, Sweep(L, D)  PROVE FALSE
      BY <1>1, <2>4 DEF QueueInv, QueueTypeOK, Queued, Sweep, Swept, Lapsed, Due
    <2>5. ASSUME NEW L \in SUBSET Jobs, NEW D \in SUBSET Jobs, Elapse(L, D)  PROVE FALSE
      BY <1>1, <2>5 DEF QueueInv, QueueTypeOK, Queued, Elapse
    <2>6. ASSUME UNCHANGED queue  PROVE FALSE
      BY <1>1, <2>6 DEF queue, Queued
    <2> QED
      BY <1>1, <2>1, <2>2, <2>3, <2>4, <2>5, <2>6 DEF QueueNext
  <1>2. QueueInv /\ [QueueNext]_queue
          => [\A j \in Jobs : Queued(j) /\ ~Queued(j)' => lease[j] = "live"]_queue
    BY <1>1
  <1>3. QueueInit => QueueInv
    BY QueueInitInv
  <1>4. QueueInv /\ [QueueNext]_queue => QueueInv'
    BY QueueNextInv
  <1> QED
    BY <1>2, <1>3, <1>4, PTL DEF QueueSpec, DropOnlyByAck
-----------------------------------------------------------------------------
(* What an implementation keeps in lists: the copies of a job are counted  *)
(* by the places where it stands.                                          *)
Places(j, s) == {i \in DOMAIN s : s[i] = j}
CopiesIn(j, s) == Cardinality(Places(j, s))

LEMMA CopiesAreCounted ==
  ASSUME NEW S, NEW s \in Seq(S), NEW j
  PROVE  /\ IsFiniteSet(Places(j, s)) /\ CopiesIn(j, s) \in Nat
         /\ CopiesIn(j, s) > 0 <=> \E i \in DOMAIN s : s[i] = j
  <1>1. IsFiniteSet(DOMAIN s) /\ Places(j, s) \in SUBSET DOMAIN s
    <2>1. DOMAIN s = 1..Len(s) /\ Len(s) \in Nat
      OBVIOUS
    <2> QED
      BY <2>1, FS_Interval DEF Places
  <1>2. IsFiniteSet(Places(j, s)) /\ CopiesIn(j, s) \in Nat
    BY <1>1, FS_Subset, FS_CardinalityType DEF CopiesIn
  <1>3. CopiesIn(j, s) = 0 <=> Places(j, s) = {}
    BY <1>2, FS_EmptySet DEF CopiesIn
  <1>4. Places(j, s) = {} <=> ~\E i \in DOMAIN s : s[i] = j
    BY DEF Places
  <1> QED
    BY <1>2, <1>3, <1>4

LEMMA NoCopies == ASSUME NEW j  PROVE CopiesIn(j, << >>) = 0
  <1>1. Places(j, << >>) = {}
    BY DEF Places
  <1> QED
    BY <1>1, FS_EmptySet DEF CopiesIn

LEMMA CopiesAppended ==
  ASSUME NEW S, NEW s \in Seq(S), NEW k \in S, NEW j
  PROVE  CopiesIn(j, Append(s, k)) = CopiesIn(j, s) + (IF k = j THEN 1 ELSE 0)
  <1> DEFINE n == Len(s) + 1
  <1>1. /\ n \notin DOMAIN s /\ DOMAIN Append(s, k) = DOMAIN s \cup {n}
        /\ Append(s, k)[n] = k /\ \A i \in DOMAIN s : Append(s, k)[i] = s[i]
    BY AppendProperties
  <1>2. Places(j, Append(s, k)) = IF k = j THEN Places(j, s) \cup {n} ELSE Places(j, s)
    <2> HIDE DEF n
    <2> QED
      BY <1>1 DEF Places
  <1>3. n \notin Places(j, s)
    BY <1>1 DEF Places
  <1>4. IsFiniteSet(Places(j, s)) /\ CopiesIn(j, s) \in Nat
    BY CopiesAreCounted
  <1> HIDE DEF n
  <1>5. Cardinality(Places(j, s) \cup {n}) = CopiesIn(j, s) + 1
    BY <1>3, <1>4, FS_AddElement DEF CopiesIn
  <1> QED
    BY <1>2, <1>4, <1>5 DEF CopiesIn

LEMMA CopiesPopped ==
  ASSUME NEW S, NEW s \in Seq(S), s # << >>, NEW j
  PROVE  CopiesIn(j, s) = CopiesIn(j, Tail(s)) + (IF Head(s) = j THEN 1 ELSE 0)
  <1> DEFINE rest == {i \in DOMAIN s : i # 1 /\ s[i] = j}
             shift == [i \in rest |-> i - 1]
  <1>1. /\ Len(s) \in Nat /\ DOMAIN s = 1..Len(s) /\ Len(s) >= 1 /\ Head(s) = s[1]
        /\ Tail(s) \in Seq(S) /\ Len(Tail(s)) = Len(s) - 1 /\ DOMAIN Tail(s) = 1..(Len(s) - 1)
        /\ \A i \in 1..(Len(s) - 1) : Tail(s)[i] = s[i + 1]
    BY HeadTailProperties
  <1>2. shift \in Bijection(rest, Places(j, Tail(s)))
    <2>1. \A i \in rest : shift[i] \in Places(j, Tail(s))
      BY <1>1 DEF Places
    <2>2. \A i, m \in rest : shift[i] = shift[m] => i = m
      BY <1>1
    <2>3. \A m \in Places(j, Tail(s)) : \E i \in rest : shift[i] = m
      <3> SUFFICES ASSUME NEW m \in Places(j, Tail(s))  PROVE \E i \in rest : shift[i] = m
        OBVIOUS
      <3>1. m \in 1..(Len(s) - 1) /\ s[m + 1] = j
        BY <1>1 DEF Places
      <3>2. m + 1 \in rest /\ shift[m + 1] = m
        BY <1>1, <3>1
      <3> QED
        BY <3>2
    <2>4. shift \in [rest -> Places(j, Tail(s))]
      BY <2>1
    <2> HIDE DEF shift, rest
    <2> QED
      BY <2>2, <2>3, <2>4 DEF Bijection, Injection, Surjection, IsInjective
  <1>3. IsFiniteSet(rest)
    <2>1. IsFiniteSet(DOMAIN s)
      BY <1>1, FS_Interval
    <2> QED
      BY <2>1, FS_Subset
  <1>4. Cardinality(rest) = CopiesIn(j, Tail(s)) /\ CopiesIn(j, Tail(s)) \in Nat
    <2>1. ExistsBijection(rest, Places(j, Tail(s)))
      <3> HIDE DEF shift, rest
      <3> QED
        BY <1>2 DEF ExistsBijection
    <2> HIDE DEF rest
    <2> QED
      BY <1>1, <1>3, <2>1, FS_Bijection, CopiesAreCounted DEF CopiesIn
  <1>5. Places(j, s) = (IF Head(s) = j THEN rest \cup {1} ELSE rest) /\ 1 \notin rest
    BY <1>1 DEF Places
  <1> HIDE DEF rest
  <1>6. Cardinality(rest \cup {1}) = Cardinality(rest) + 1
    BY <1>3, <1>5, FS_AddElement
  <1> QED
    BY <1>4, <1>5, <1>6 DEF CopiesIn

LEMMA CopiesPrepended ==
  ASSUME NEW S, NEW s \in Seq(S), NEW k \in S, NEW j
  PROVE  CopiesIn(j, <<k>> \o s) = CopiesIn(j, s) + (IF k = j THEN 1 ELSE 0)
  <1>1. <<k>> \o s \in Seq(S) /\ <<k>> \o s # << >> /\ Head(<<k>> \o s) = k
    OBVIOUS
  <1>2. Tail(<<k>> \o s) = s
    <2>1. Tail(<<k>> \o s) \in Seq(S) /\ Len(Tail(<<k>> \o s)) = Len(s)
      OBVIOUS
    <2>2. \A i \in 1..Len(s) : Tail(<<k>> \o s)[i] = s[i]
      OBVIOUS
    <2> QED
      BY <2>1, <2>2, SeqEqual
  <1> QED
    BY <1>1, <1>2, CopiesPopped

(* The three lists that an implementation keeps, one per priority.         *)
Ranks == {"high", "normal", "low"}
Lists == [Ranks -> Seq(Jobs)]
CopiesOf(j, l) == CopiesIn(j, l["high"]) + CopiesIn(j, l["normal"]) + CopiesIn(j, l["low"])
Standing(s) == {s[i] : i \in DOMAIN s}

LEMMA ListsCount ==
  ASSUME NEW l \in Lists, NEW j
  PROVE  /\ \A p \in Ranks : CopiesIn(j, l[p]) \in Nat /\ (CopiesIn(j, l[p]) > 0 <=> j \in Standing(l[p]))
         /\ CopiesOf(j, l) \in Nat
         /\ CopiesOf(j, l) > 0 <=> \E p \in Ranks : j \in Standing(l[p])
  <1>1. \A p \in Ranks : CopiesIn(j, l[p]) \in Nat /\ (CopiesIn(j, l[p]) > 0 <=> j \in Standing(l[p]))
    <2> SUFFICES ASSUME NEW p \in Ranks
                 PROVE  CopiesIn(j, l[p]) \in Nat /\ (CopiesIn(j, l[p]) > 0 <=> j \in Standing(l[p]))
      OBVIOUS
    <2>1. l[p] \in Seq(Jobs)
      BY DEF Lists
    <2>2. j \in Standing(l[p]) <=> \E i \in DOMAIN l[p] : l[p][i] = j
      BY DEF Standing
    <2> QED
      BY <2>1, <2>2, CopiesAreCounted
  <1> QED
    BY <1>1 DEF CopiesOf, Ranks

(* One list is changed by n copies of k.                                   *)
Changed(l, m, p, k, n) ==
    /\ m \in Lists /\ \A q \in Ranks \ {p} : m[q] = l[q]
    /\ \A j : CopiesIn(j, m[p]) = CopiesIn(j, l[p]) + (IF k = j THEN n ELSE 0)

LEMMA ChangedCounts ==
  ASSUME NEW l \in Lists, NEW p \in Ranks, NEW k, NEW n \in Int, NEW m, Changed(l, m, p, k, n), NEW j
  PROVE  CopiesOf(j, m) = CopiesOf(j, l) + (IF k = j THEN n ELSE 0)
  <1>1. \A q \in Ranks : CopiesIn(j, l[q]) \in Nat
    BY ListsCount
  <1>2. \A q \in Ranks \ {p} : CopiesIn(j, m[q]) = CopiesIn(j, l[q])
    BY DEF Changed
  <1>3. CopiesIn(j, m[p]) = CopiesIn(j, l[p]) + (IF k = j THEN n ELSE 0)
    BY DEF Changed
  <1> QED
    BY <1>1, <1>2, <1>3 DEF CopiesOf, Ranks

(* The three ways the broker changes a list.                               *)
Appended(l, p, k) == [l EXCEPT ![p] = Append(@, k)]
Prepended(l, p, k) == [l EXCEPT ![p] = <<k>> \o @]
Popped(l, p) == [l EXCEPT ![p] = Tail(@)]

LEMMA ListAppended ==
  ASSUME NEW l \in Lists, NEW p \in Ranks, NEW k \in Jobs, NEW m, m = Appended(l, p, k)
  PROVE  Changed(l, m, p, k, 1) /\ Standing(m[p]) = Standing(l[p]) \cup {k}
  <1>1. l[p] \in Seq(Jobs) /\ Append(l[p], k) \in Seq(Jobs)
    BY DEF Lists
  <1>2. m \in Lists /\ m[p] = Append(l[p], k) /\ \A q \in Ranks \ {p} : m[q] = l[q]
    BY <1>1 DEF Lists, Appended
  <1>3. \A j : CopiesIn(j, m[p]) = CopiesIn(j, l[p]) + (IF k = j THEN 1 ELSE 0)
    BY <1>1, <1>2, CopiesAppended
  <1>4. Standing(m[p]) = Standing(l[p]) \cup {k}
    <2>1. /\ DOMAIN Append(l[p], k) = DOMAIN l[p] \cup {Len(l[p]) + 1}
          /\ Append(l[p], k)[Len(l[p]) + 1] = k
          /\ \A i \in DOMAIN l[p] : Append(l[p], k)[i] = l[p][i]
      BY <1>1, AppendProperties
    <2> QED
      BY <1>2, <2>1 DEF Standing
  <1> QED
    BY <1>2, <1>3, <1>4 DEF Changed

LEMMA ListPrepended ==
  ASSUME NEW l \in Lists, NEW p \in Ranks, NEW k \in Jobs, NEW m, m = Prepended(l, p, k)
  PROVE  Changed(l, m, p, k, 1) /\ Standing(m[p]) \subseteq Standing(l[p]) \cup {k}
  <1>1. l[p] \in Seq(Jobs) /\ <<k>> \o l[p] \in Seq(Jobs)
    BY DEF Lists
  <1>2. m \in Lists /\ m[p] = <<k>> \o l[p] /\ \A q \in Ranks \ {p} : m[q] = l[q]
    BY <1>1 DEF Lists, Prepended
  <1>3. \A j : CopiesIn(j, m[p]) = CopiesIn(j, l[p]) + (IF k = j THEN 1 ELSE 0)
    BY <1>1, <1>2, CopiesPrepended
  <1>4. Standing(m[p]) \subseteq Standing(l[p]) \cup {k}
    <2> SUFFICES ASSUME NEW j \in Standing(m[p]), j # k  PROVE j \in Standing(l[p])
      OBVIOUS
    <2>1. CopiesIn(j, m[p]) > 0
      BY <1>2, ListsCount
    <2>2. CopiesIn(j, l[p]) > 0
      BY <1>3, <2>1, ListsCount
    <2> QED
      BY <2>2, ListsCount
  <1> QED
    BY <1>2, <1>3, <1>4 DEF Changed

LEMMA ListPopped ==
  ASSUME NEW l \in Lists, NEW p \in Ranks, l[p] # << >>, NEW m, m = Popped(l, p),
         NEW k, k = Head(l[p])
  PROVE  Changed(l, m, p, k, -1) /\ Standing(m[p]) \subseteq Standing(l[p]) /\ k \in Standing(l[p]) /\ k \in Jobs
  <1>1. l[p] \in Seq(Jobs) /\ Tail(l[p]) \in Seq(Jobs) /\ k \in Jobs /\ k = l[p][1] /\ 1 \in DOMAIN l[p]
    BY HeadTailProperties DEF Lists
  <1>2. m \in Lists /\ m[p] = Tail(l[p]) /\ \A q \in Ranks \ {p} : m[q] = l[q]
    BY <1>1 DEF Lists, Popped
  <1>3. \A j : CopiesIn(j, l[p]) = CopiesIn(j, m[p]) + (IF k = j THEN 1 ELSE 0)
    BY <1>1, <1>2, CopiesPopped
  <1>4. \A j : CopiesIn(j, m[p]) \in Nat /\ CopiesIn(j, l[p]) \in Nat
    BY <1>2, ListsCount
  <1>5. \A j : CopiesIn(j, m[p]) = CopiesIn(j, l[p]) + (IF k = j THEN -1 ELSE 0)
    <2> SUFFICES ASSUME NEW j  PROVE CopiesIn(j, m[p]) = CopiesIn(j, l[p]) + (IF k = j THEN -1 ELSE 0)
      OBVIOUS
    <2> QED
      BY <1>3, <1>4
  <1>6. Standing(m[p]) \subseteq Standing(l[p])
    <2> SUFFICES ASSUME NEW j \in Standing(m[p])  PROVE j \in Standing(l[p])
      OBVIOUS
    <2>1. CopiesIn(j, m[p]) > 0
      BY <1>2, ListsCount
    <2>2. CopiesIn(j, l[p]) > 0
      BY <1>3, <1>4, <2>1
    <2> QED
      BY <2>2, ListsCount
  <1>7. k \in Standing(l[p])
    BY <1>1 DEF Standing
  <1> QED
    BY <1>1, <1>2, <1>5, <1>6, <1>7 DEF Changed
=============================================================================
