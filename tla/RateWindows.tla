------------------------------- MODULE RateWindows -------------------------------
(***************************************************************************)
(* The sliding windows of backend/app/security/rate_limit.py, as the       *)
(* routes of the platform check them (check_rate_limit in                  *)
(* backend/app/api/v1/platform/dependencies.py): first the window of the   *)
(* user, then that of the organization, each a sorted set in Redis.  A     *)
(* request reads the clock of its process, then calls Redis; calls of      *)
(* other requests come in between and may overtake it.                     *)
(***************************************************************************)
EXTENDS Naturals, FiniteSets

CONSTANTS Callers,        \* requests to one route, of one organization
          Users, UserOf,  \* who sends them
          UserLimit, OrgLimit, Window,
          MaxClock,       \* bound: the clock stops there
          MaxRateFaults   \* bound: calls that Redis fails

ASSUME RateAssumption ==
    /\ UserOf \in [Callers -> Users] /\ "org" \notin Users
    /\ UserLimit \in Nat \ {0} /\ OrgLimit \in Nat \ {0} /\ Window \in Nat \ {0}

VARIABLES clock,
          window,      \* the sorted sets: clock readings by key
          caller,      \* each request: where it is, the key it checks, its reading of the clock
          granted,     \* readings Redis found within the limit, by key (history)
          newestCall,  \* newest reading Redis has been called with, by key (history)
          unsettled,   \* readings that a failed call may have left behind (history)
          rateFaults

rateVars == <<clock, window, caller, granted, newestCall, unsettled, rateFaults>>

Keys == Users \cup {"org"}
Limit(k) == IF k = "org" THEN OrgLimit ELSE UserLimit
InCall == {"pipeline", "over", "earliest"}

RateTypeOK ==
    /\ clock \in 0..MaxClock /\ rateFaults \in 0..MaxRateFaults
    /\ \A k \in Keys : window[k] \cup granted[k] \subseteq 1..clock /\ newestCall[k] \in 0..clock
    /\ \A r \in Callers : /\ caller[r].at \in InCall \cup {"new", "admitted", "denied"}
                          /\ caller[r].at # "new" => caller[r].key \in {UserOf[r], "org"}

RateInit ==
    /\ clock = 0 /\ rateFaults = 0
    /\ window = [k \in Keys |-> {}] /\ granted = [k \in Keys |-> {}] /\ newestCall = [k \in Keys |-> 0]
    /\ unsettled = {}
    /\ caller = [r \in Callers |-> [at |-> "new", key |-> UserOf[r], now |-> 0]]

CallerIs(r, x) == caller' = [caller EXCEPT ![r] = x]
RedisKept == UNCHANGED <<window, granted, newestCall>>

(* check: every reading of the clock is a new one, as those of time.time() *)
(* in practice are.                                                        *)
Checks(r, k) ==
    /\ clock < MaxClock
    /\ clock' = clock + 1
    /\ CallerIs(r, [at |-> "pipeline", key |-> k, now |-> clock + 1])

(* What an answer leads to: user, then organization, then the handler.     *)
Allowed(r) ==
    IF caller[r].key = "org"
    THEN CallerIs(r, [caller[r] EXCEPT !.at = "admitted"]) /\ UNCHANGED clock
    ELSE Checks(r, "org")
-----------------------------------------------------------------------------
Arrive(r) ==
    /\ caller[r].at = "new"
    /\ Checks(r, UserOf[r])
    /\ RedisKept /\ UNCHANGED <<unsettled, rateFaults>>

(* The transaction of the four commands, and what is in it for the others. *)
InWindow(r) == {n \in window[caller[r].key] : n + Window > caller[r].now}
Executes(r) ==
    LET k == caller[r].key n == caller[r].now IN
    /\ window' = [window EXCEPT ![k] = InWindow(r) \cup {n}]
    /\ newestCall' = [newestCall EXCEPT ![k] = IF n > @ THEN n ELSE @]

(* Mutant: the request counts itself out.                                  *)
WithinLimitOrAt(r) == Cardinality(InWindow(r)) <= Limit(caller[r].key)

WithinLimit(r) == Cardinality(InWindow(r)) < Limit(caller[r].key)

Pipeline(r) ==
    /\ caller[r].at = "pipeline"
    /\ Executes(r)
    /\ \/ /\ WithinLimit(r)
          /\ granted' = [granted EXCEPT ![caller[r].key] = @ \cup {caller[r].now}]
          /\ Allowed(r)
       \/ /\ ~WithinLimit(r)
          /\ CallerIs(r, [caller[r] EXCEPT !.at = "over"])
          /\ UNCHANGED <<clock, granted>>
    /\ UNCHANGED <<unsettled, rateFaults>>

(* Over the limit the tentative entry is taken out again, and the earliest *)
(* one is looked at, for the time to wait.                                 *)
Removes(r) == window' = [window EXCEPT ![caller[r].key] = @ \ {caller[r].now}]

TakeBack(r) ==
    /\ caller[r].at = "over"
    /\ Removes(r)
    /\ CallerIs(r, [caller[r] EXCEPT !.at = "earliest"])
    /\ UNCHANGED <<clock, granted, newestCall, unsettled, rateFaults>>

Deny(r) ==
    /\ caller[r].at = "earliest"
    /\ CallerIs(r, [caller[r] EXCEPT !.at = "denied"])
    /\ RedisKept /\ UNCHANGED <<clock, unsettled, rateFaults>>

(* A call of Redis fails, before or after it took effect.  The limiter     *)
(* falls back to its own memory; it was made for this request, so that the *)
(* memory is empty and allows it.                                          *)
RedisFails(r) ==
    /\ caller[r].at \in InCall /\ rateFaults < MaxRateFaults
    /\ rateFaults' = rateFaults + 1
    /\ \/ UNCHANGED <<window, newestCall>>
       \/ caller[r].at = "pipeline" /\ Executes(r)
       \/ caller[r].at = "over" /\ Removes(r) /\ UNCHANGED newestCall
    /\ unsettled' = unsettled \cup {caller[r].now}
    /\ Allowed(r)
    /\ UNCHANGED granted

Tick == clock < MaxClock /\ clock' = clock + 1 /\ UNCHANGED <<window, caller, granted, newestCall, unsettled, rateFaults>>

RateNext ==
    \/ Tick
    \/ \E r \in Callers : Arrive(r) \/ Pipeline(r) \/ TakeBack(r) \/ Deny(r) \/ RedisFails(r)

RateSpec == RateInit /\ [][RateNext]_rateVars
-----------------------------------------------------------------------------
(* Whatever order the calls of Redis come in, no more requests than the    *)
(* limit are let through in the window that ends with the newest reading   *)
(* called with, beyond those let through because Redis failed; and what is *)
(* in a window is a request let through, one about to be taken out, or one *)
(* whose call failed: who was denied does not use up the limit.            *)
RatesAreKept ==
    \A k \in Keys :
       /\ Cardinality({n \in granted[k] : n + Window > newestCall[k]}) <= Limit(k)
       /\ window[k] \subseteq granted[k] \cup unsettled
             \cup {caller[r].now : r \in {q \in Callers : caller[q].at = "over"}}
       /\ \A n \in granted[k] : n + Window > newestCall[k] => n \in window[k]
=============================================================================
