----------------------------- MODULE MCWorkerLoop -----------------------------
(* One job type with a limit below the concurrency and one without.        *)
EXTENDS WorkerLoop, TLC

CONSTANTS report, agent
MCTypes == {report, agent}
MCTypeLimit == (report :> 2) @@ (agent :> Concurrency)
=============================================================================
