----------------------------- MODULE MCJobSystem -----------------------------
(* Job, worker and client identities are interchangeable; the bounds of    *)
(* each run are in its .cfg.                                               *)
EXTENDS JobSystem, TLC

Identities == Permutations(Jobs) \cup Permutations(Workers) \cup Permutations(Clients)

(* A bound: behaviours that meet either crashes, faults and cancellations, *)
(* or lease overruns and forced retries.  Both together can leave a job    *)
(* RUNNING for ever: redelivered after an overrun, it is acknowledged by   *)
(* the second worker as cancelled, started by the first all the same, and  *)
(* dies with it.                                                           *)
OneAdversity ==
    \/ spent.overrun + spent.retry = 0
    \/ spent.crash + spent.fault + spent.cancel = 0
==============================================================================
