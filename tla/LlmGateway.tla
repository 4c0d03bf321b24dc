------------------------------ MODULE LlmGateway ------------------------------
(***************************************************************************)
(* The LLM gateway (backend/app/llm_gateway): concurrent requests of one   *)
(* event loop look into the response cache, plan their candidates, and try *)
(* them in order, two attempts each, against a circuit breaker they share. *)
(* The code between two awaits is one action.  The requests ask the same   *)
(* of the same tenant, so the cache has one key; a provider has one model. *)
(* A request that ended may be followed by another; failures in a row are  *)
(* counted up to the threshold, above which nothing tells them apart.      *)
(***************************************************************************)
EXTENDS Naturals, Sequences, FiniteSets

CONSTANTS GatewayRequests,  \* calls of generate and generate_structured
          Remote,           \* providers over the network that policy and capabilities allow
          Local,            \* the deterministic provider, which does not fail
          FailureThreshold  \* consecutive failures that open the breaker

ASSUME GatewayAssumption == FailureThreshold \in Nat \ {0} /\ IsFiniteSet(Remote) /\ Local \notin Remote

VARIABLES breaker,  \* state of each provider, failures in a row, and whether it cooled down
          cached,   \* what the cache holds under the key: nothing, free text or a valid object
          asked     \* what each request is doing

gatewayVars == <<breaker, cached, asked>>

Providers == Remote \cup {Local}
Answers == {"text", "object"}
Ended == {"answered", "invalid", "refused", "over_budget", "no_provider", "failed"}

GatewayTypeOK ==
    /\ breaker \in [Providers -> [state : {"CLOSED", "OPEN", "HALF_OPEN"}, cooled : BOOLEAN,
                                  failures : 0..FailureThreshold]]
    /\ cached \in Answers \cup {"none"}
    /\ \A q \in GatewayRequests : LET x == asked[q] IN
          /\ x.at \in {"new", "lookup", "calling", "backoff", "storing"} \cup Ended
          /\ x.structured \in BOOLEAN /\ x.cacheable \in BOOLEAN
          /\ Len(x.plan) <= Cardinality(Providers) /\ \A i \in DOMAIN x.plan : x.plan[i] \in Providers
          /\ x.k \in 0..Len(x.plan) /\ x.attempt \in 0..1

Unasked == [at |-> "new", structured |-> FALSE, cacheable |-> FALSE,
            plan |-> <<>>, k |-> 0, attempt |-> 0, answer |-> "text"]

GatewayInit ==
    /\ breaker = [p \in Providers |-> [state |-> "CLOSED", cooled |-> FALSE, failures |-> 0]]
    /\ cached = "none"
    /\ asked = [q \in GatewayRequests |-> Unasked]
-----------------------------------------------------------------------------
(* get_state: an open breaker that has cooled down is found half open.     *)
Ajar(b) == b.state = "OPEN" /\ b.cooled
LookAt(breakers, looked) ==
    [p \in Providers |-> IF p \in looked /\ Ajar(breakers[p])
                         THEN [breakers[p] EXCEPT !.state = "HALF_OPEN", !.cooled = FALSE] ELSE breakers[p]]
Available(b) == b.state # "OPEN" \/ b.cooled

RecordSuccess(b) == [b EXCEPT !.failures = 0, !.state = "CLOSED", !.cooled = FALSE]
(* Mutant: the breaker opens one failure late.                             *)
RecordFailureLate(b) ==
    LET failures == b.failures + 1 IN
    [b EXCEPT !.failures = IF failures > FailureThreshold THEN @ ELSE failures, !.cooled = FALSE,
              !.state = IF failures > FailureThreshold THEN "OPEN" ELSE @]

RecordFailure(b) ==
    LET failures == b.failures + 1 IN
    [b EXCEPT !.failures = IF failures > FailureThreshold THEN @ ELSE failures, !.cooled = FALSE,
              !.state = IF failures >= FailureThreshold THEN "OPEN" ELSE @]

Asks(q, x) == asked' = [asked EXCEPT ![q] = x]
Ends(q, outcome) == Asks(q, [Unasked EXCEPT !.at = outcome])

(* execute_with_fallback from its next candidate on: those whose breaker   *)
(* is open are skipped, and so are those whose adapter cannot be had, of   *)
(* which no failure is recorded; without any, the last error is raised.    *)
(* The local provider is always registered.                                *)
Seek(q, x, breakers) ==
    LET open == {i \in (x.k + 1)..Len(x.plan) : Available(breakers[x.plan[i]])} IN
    \E lost \in SUBSET {i \in open : x.plan[i] # Local} :
       \/ /\ open \ lost = {}
          /\ breaker' = LookAt(breakers, {x.plan[i] : i \in open})
          /\ Ends(q, IF x.at = "calling" THEN "failed" ELSE "no_provider")
       \/ \E next \in open \ lost :
             /\ \A j \in open \ lost : next <= j
             /\ breaker' = LookAt(breakers, {x.plan[i] : i \in {j \in open : j <= next}})
             /\ Asks(q, [x EXCEPT !.at = "calling", !.k = next, !.attempt = 0])

(* is_cacheable depends on the request; the lookup is awaited.             *)
Ask(q, structured, cacheable) ==
    /\ asked[q].at \in {"new"} \cup Ended
    /\ Asks(q, [Unasked EXCEPT !.at = "lookup", !.structured = structured, !.cacheable = cacheable])
    /\ UNCHANGED <<breaker, cached>>

Hit(q) == asked[q].cacheable /\ cached # "none"

(* What the cache has is returned; a structured request validates it.      *)
AnswerFromCache(q) ==
    LET x == asked[q] IN
    /\ x.at = "lookup" /\ Hit(q)
    /\ Ends(q, IF x.structured /\ cached = "text" THEN "invalid" ELSE "answered")
    /\ UNCHANGED <<breaker, cached>>

(* resolve_routing_plan: the remote providers whose breaker is not open,   *)
(* in the order of some strategy, and the local one after them if it is    *)
(* not among them; a pinned model passes over the breaker here.            *)
Orders(s) == {f \in [1..Cardinality(s) -> s] : \A i, j \in 1..Cardinality(s) : f[i] = f[j] => i = j}
EndsLocally(f) == IF \E i \in DOMAIN f : f[i] = Local THEN f ELSE Append(f, Local)
Plans(breakers) ==
    LET closed == {p \in Providers : Available(breakers[p])} IN
    {EndsLocally(f) : f \in Orders(closed) \cup {<<p>> : p \in Providers}}

(* The budget is checked against the first candidate, then the first call  *)
(* begins.                                                                 *)
Plan(q) ==
    LET looked == LookAt(breaker, Providers) IN
    /\ asked[q].at = "lookup" /\ ~Hit(q)
    /\ \E plan \in Plans(breaker) : Seek(q, [asked[q] EXCEPT !.plan = plan], looked)
    /\ UNCHANGED cached

ExceedBudget(q) ==
    /\ asked[q].at = "lookup" /\ ~Hit(q)
    /\ breaker' = LookAt(breaker, Providers)
    /\ Ends(q, "over_budget")
    /\ UNCHANGED cached

Callee(q) == asked[q].plan[asked[q].k]

(* The provider answers: success is recorded; a structured answer must be  *)
(* valid; a cacheable one is about to be stored.                           *)
Answer(q, answer) ==
    LET x == asked[q] IN
    /\ x.at = "calling"
    /\ breaker' = [breaker EXCEPT ![Callee(q)] = RecordSuccess(@)]
    /\ IF x.structured /\ answer = "text" THEN Ends(q, "invalid")
       ELSE IF x.cacheable THEN Asks(q, [x EXCEPT !.at = "storing", !.answer = answer])
       ELSE Ends(q, "answered")
    /\ UNCHANGED cached

Store(q) ==
    /\ asked[q].at = "storing"
    /\ cached' = asked[q].answer
    /\ Ends(q, "answered")
    /\ UNCHANGED breaker

BackOff(q) ==
    /\ asked[q].at = "calling" /\ asked[q].attempt = 0 /\ Callee(q) # Local
    /\ Asks(q, [asked[q] EXCEPT !.at = "backoff", !.attempt = 1])
    /\ UNCHANGED <<breaker, cached>>

Retry(q) ==
    /\ asked[q].at = "backoff"
    /\ Asks(q, [asked[q] EXCEPT !.at = "calling"])
    /\ UNCHANGED <<breaker, cached>>

(* ... and a second one, or another error, is a failure of the provider,   *)
(* after which the next candidate is tried.                                *)
FallBack(q) ==
    /\ asked[q].at = "calling" /\ Callee(q) # Local
    /\ Seek(q, asked[q], [breaker EXCEPT ![Callee(q)] = RecordFailure(@)])
    /\ UNCHANGED cached

(* A security or policy rejection ends the request at once.                *)
Refuse(q) ==
    /\ asked[q].at = "calling"
    /\ Ends(q, "refused")
    /\ UNCHANGED <<breaker, cached>>

CoolDown(p) ==
    /\ breaker[p].state = "OPEN" /\ ~breaker[p].cooled
    /\ breaker' = [breaker EXCEPT ![p].cooled = TRUE]
    /\ UNCHANGED <<cached, asked>>

CacheExpires ==
    /\ cached # "none" /\ cached' = "none"
    /\ UNCHANGED <<breaker, asked>>

GatewayStep(q) ==
    \/ AnswerFromCache(q) \/ Plan(q) \/ ExceedBudget(q) \/ Store(q)
    \/ BackOff(q) \/ Retry(q) \/ FallBack(q) \/ Refuse(q)
    \/ \E answer \in Answers : Answer(q, answer)

GatewayNext ==
    \/ \E q \in GatewayRequests :
          \/ \E structured, cacheable \in BOOLEAN : Ask(q, structured, cacheable)
          \/ GatewayStep(q)
    \/ \E p \in Providers : CoolDown(p)
    \/ CacheExpires

(* An adapter call ends by an answer, an error or its own timeout.         *)
GatewayFairness == \A q \in GatewayRequests : WF_gatewayVars(GatewayStep(q))
GatewaySpec == GatewayInit /\ [][GatewayNext]_gatewayVars /\ GatewayFairness
-----------------------------------------------------------------------------
(* However the outcomes of overlapping calls arrive, the breaker of a      *)
(* provider is closed exactly while fewer failures than the threshold      *)
(* followed its last success, and the local provider's always is.          *)
BreakerCountsFailures ==
    /\ \A p \in Providers : breaker[p].state = "CLOSED" <=> breaker[p].failures < FailureThreshold
    /\ breaker[Local].state = "CLOSED"

(* Failover is complete, and retries and fallbacks are bounded: whatever   *)
(* the remote providers do, a request that was asked ends, and it does not *)
(* run out of candidates, for the local one stands last in every plan.     *)
RequestsEnd ==
    \A q \in GatewayRequests :
       asked[q].at = "lookup" ~> asked[q].at \in Ended \ {"failed", "no_provider"}
===============================================================================
