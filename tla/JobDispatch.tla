------------------------------ MODULE JobDispatch ------------------------------
(***************************************************************************)
(* JobDispatcher.dispatch (backend/app/jobs/dispatcher.py): the path of a  *)
(* creation request through the backpressure check, the idempotency        *)
(* lookup, the insert and the enqueue, each an await of its own, with      *)
(* other requests in between.  The jobs table has an index on              *)
(* (organization_id, idempotency_key) but no unique constraint.            *)
(*                                                                         *)
(* A request carries a key (or none) and a payload; equal payloads have    *)
(* equal SHA-256 hashes.  A job is named by the request that created it.   *)
(* Requests are those of one organization: the lookup filters on it.       *)
(* The ready lists hold jobs never delivered yet and jobs that came back   *)
(* (retries and lapsed leases), which no depth check stands in front of.   *)
(* get_depth reads them at once, as the in-memory queue does under its     *)
(* lock.                                                                   *)
(***************************************************************************)
EXTENDS Naturals, FiniteSets

CONSTANTS Requests,
          KeyOf, PayloadOf,   \* what each request carries
          NoKey,              \* no idempotency_key given
          MaxDepth,           \* MAX_QUEUE_DEPTH
          MaxInFlight,        \* requests the API serves at a time
          MaxPushFaults           \* enqueues that raise

ASSUME DispatchAssumption ==
    /\ MaxDepth \in Nat \ {0} /\ MaxInFlight \in Nat \ {0} /\ MaxPushFaults \in Nat
    /\ DOMAIN KeyOf = Requests /\ DOMAIN PayloadOf = Requests

VARIABLES pc,        \* where each request is; its answer once done
          answer,    \* the job returned to each request, if any
          jobs,      \* the committed rows of the jobs table
          pushed,    \* jobs that reached the broker (history)
          fresh,     \* entries of the ready lists never delivered
          again,     \* entries of the ready lists that came back
          out,       \* jobs delivered: leased, or waiting for a retry
          pushFaults     \* failed enqueues so far

broker == <<pushed, fresh, again, out>>
dispatchVars == <<pc, answer, jobs, broker, pushFaults>>

depth == fresh + again      \* get_depth

InFlight == {"lookup", "insert", "push"}
Answers  == {"created", "replayed", "full", "conflict", "failed"}
Busy == {r \in Requests : pc[r] \in InFlight}

DispatchTypeOK ==
    /\ pc \in [Requests -> {"new"} \cup InFlight \cup Answers]
    /\ answer \in [Requests -> SUBSET Requests]
    /\ jobs \subseteq Requests /\ pushed \subseteq jobs
    /\ fresh \in Nat /\ again \in Nat /\ out \in Nat
    /\ depth + out <= Cardinality(pushed)
    /\ pushFaults \in 0..MaxPushFaults

DispatchInit ==
    /\ pc = [r \in Requests |-> "new"]
    /\ answer = [r \in Requests |-> {}]
    /\ jobs = {} /\ pushed = {}
    /\ fresh = 0 /\ again = 0 /\ out = 0
    /\ pushFaults = 0

Step(r, from, to) == pc[r] = from /\ pc' = [pc EXCEPT ![r] = to]
-----------------------------------------------------------------------------
(* Mutant: > for >=.                                                       *)
CheckDepthOffByOne(r) ==
    /\ Cardinality(Busy) < MaxInFlight
    /\ Step(r, "new", IF depth > MaxDepth THEN "full" ELSE "lookup")
    /\ UNCHANGED <<answer, jobs, broker, pushFaults>>

(* get_depth, and JobQueueFullError.                                       *)
CheckDepth(r) ==
    /\ Cardinality(Busy) < MaxInFlight
    /\ Step(r, "new", IF depth >= MaxDepth THEN "full" ELSE "lookup")
    /\ UNCHANGED <<answer, jobs, broker, pushFaults>>

(* SELECT ... LIMIT 1 by key: any one of the rows that match.              *)
Matches(r) == {j \in jobs : KeyOf[r] # NoKey /\ KeyOf[j] = KeyOf[r]}

LookupMisses(r) ==
    /\ Matches(r) = {}
    /\ Step(r, "lookup", "insert")
    /\ UNCHANGED <<answer, jobs, broker, pushFaults>>

LookupFinds(r) ==
    /\ \E j \in Matches(r) :
          IF PayloadOf[j] = PayloadOf[r]
          THEN /\ Step(r, "lookup", "replayed")
               /\ answer' = [answer EXCEPT ![r] = {j}]
          ELSE /\ Step(r, "lookup", "conflict")
               /\ UNCHANGED answer
    /\ UNCHANGED <<jobs, broker, pushFaults>>

Insert(r) ==
    /\ Step(r, "insert", "push")
    /\ jobs' = jobs \cup {r}
    /\ UNCHANGED <<answer, broker, pushFaults>>

Push(r) ==
    /\ Step(r, "push", "created")
    /\ answer' = [answer EXCEPT ![r] = {r}]
    /\ pushed' = pushed \cup {r}
    /\ fresh' = fresh + 1
    /\ UNCHANGED <<jobs, again, out, pushFaults>>

(* The broker raises: JOB_ENQUEUE_FAILED, and the row stays.               *)
PushFails(r) ==
    /\ pushFaults < MaxPushFaults
    /\ Step(r, "push", "failed")
    /\ pushFaults' = pushFaults + 1
    /\ UNCHANGED <<answer, jobs, broker>>

(* A worker is handed an entry of the ready lists, ...                     *)
Deliver ==
    /\ \/ fresh > 0 /\ fresh' = fresh - 1 /\ UNCHANGED again
       \/ again > 0 /\ again' = again - 1 /\ UNCHANGED fresh
    /\ out' = out + 1
    /\ UNCHANGED <<pc, answer, jobs, pushed, pushFaults>>

(* ... and settles it, or it comes back.                                   *)
Acked ==
    /\ out > 0
    /\ out' = out - 1
    /\ UNCHANGED <<pc, answer, jobs, pushed, fresh, again, pushFaults>>

ComesBack ==
    /\ out > 0
    /\ out' = out - 1
    /\ again' = again + 1
    /\ UNCHANGED <<pc, answer, jobs, pushed, fresh, pushFaults>>

DispatchNext ==
    \/ \E r \in Requests :
          \/ CheckDepth(r) \/ LookupMisses(r) \/ LookupFinds(r)
          \/ Insert(r) \/ Push(r) \/ PushFails(r)
    \/ Deliver \/ Acked \/ ComesBack

DispatchSpec == DispatchInit /\ [][DispatchNext]_dispatchVars
-----------------------------------------------------------------------------
(* Both decisions are taken on what was read some awaits before, and what  *)
(* that can cost is bounded by the requests served at a time.  A key names *)
(* no more jobs than that: with one at a time, one job; with more,        *)
(* those that missed the lookup before the first of them committed.  And   *)
(* the new jobs in the lists overshoot MAX_QUEUE_DEPTH by no more than     *)
(* that, whatever came back meanwhile.                                     *)
KeyJobsBounded ==
    \A r \in Requests : KeyOf[r] # NoKey =>
       Cardinality({j \in jobs : KeyOf[j] = KeyOf[r]}) <= MaxInFlight
DepthBounded == fresh <= MaxDepth - 1 + MaxInFlight

(* A request that is answered with a job gets its own work: that of its    *)
(* key and its payload, and a job that the broker was given unless an      *)
(* enqueue is still to be done, or failed (task_23_jobs.md:133-135).       *)
AnswersMatch ==
    \A r \in Requests : \A j \in answer[r] :
       /\ KeyOf[j] = KeyOf[r] /\ PayloadOf[j] = PayloadOf[r]
       /\ j \in pushed \/ pc[j] \in {"push", "failed"}

(* What a client of dispatch may rely on, and what it may not.             *)
DispatchKeepsPromises == DispatchTypeOK /\ KeyJobsBounded /\ DepthBounded /\ AnswersMatch
=============================================================================
