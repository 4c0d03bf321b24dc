------------------------------- MODULE MCRecords -------------------------------
(***************************************************************************)
(* The components whose state is rows of PostgreSQL, changed by requests   *)
(* in transactions of their own: versions of a dataset, memories, an agent *)
(* session, a governance approval, the refresh tokens of a user, a         *)
(* registered data source, the knowledge graph, alerts and incidents,      *)
(* benchmark runs, and the quality gates of a release.  They share no      *)
(* rows: a behaviour is about one of them, its subject.                    *)
(***************************************************************************)
EXTENDS DatasetVersions, MemoryIndex, AgentSession, GovernanceApproval, RefreshTokens, DataSources,
        GraphSync, AlertIncidents, Quality, TLC

CONSTANTS a1, a2, a3, t1, t2, r1, r2, r3

(* The requests and workers of whichever component is the subject; they    *)
(* are interchangeable, the reviewers are not.                             *)
Actors == {a1, a2, a3}
MCTasks == {t1, t2}
MCReviewers == {r1, r2, r3}
Identities == Permutations(Actors) \cup Permutations(MCTasks)

(* A catalog with every kind of visit: a dataset with a column, a metric   *)
(* linked to the dataset, a synonym of the metric.                         *)
MCVisit(kind, object, other) == [kind |-> kind, object |-> object, other |-> other]
MCWalk ==
    <<MCVisit("node", "dataset", NoObject), MCVisit("node", "column", "dataset"),
      MCVisit("node", "metric", NoObject), MCVisit("link", "metric", "dataset"),
      MCVisit("alias", "metric", NoObject)>>

(* Metrics of which more is better, though the name of one reads as if     *)
(* less were ("claims" ends like a duration), and one of which less is.    *)
MCMetrics == {"groundedness", "supported_claims_ratio", "latency_p95"}
MCLower == {"latency_p95"}
MCReadLower == {"latency_p95", "supported_claims_ratio"}
MCUnset == -1
MCRule(metric, min, max, drop, critical) ==
    [metric |-> metric, min |-> min, max |-> max, drop |-> drop, critical |-> critical]
MCGates ==
    {{MCRule("groundedness", 95, MCUnset, 2, TRUE)},
     {MCRule("supported_claims_ratio", MCUnset, MCUnset, 4, FALSE)},
     {MCRule("latency_p95", MCUnset, 109, MCUnset, FALSE), MCRule("groundedness", 80, MCUnset, 7, TRUE)}}

VARIABLE subject

data == <<datasetVars, memoryVars, sourceVars, syncVars>>
people == <<agentVars, governanceVars, authVars, sreVars>>
quality == <<evaluationVars, gateVars>>

Init ==
    /\ subject \in {"versions", "memories", "agent", "governance", "tokens", "source", "graph",
                  "alerts", "incident", "benchmark", "release"}
    /\ DatasetInit /\ MemoryInit /\ AgentInit /\ GovernanceInit /\ AuthInit /\ SourceInit
    /\ SyncInit /\ SreInit /\ EvaluationInit /\ GateInit

Next ==
    /\ UNCHANGED subject
    /\ \/ subject \in {"benchmark", "release"} /\ UNCHANGED <<data, people>>
             /\ \/ subject = "benchmark" /\ EvaluationNext /\ UNCHANGED gateVars
                \/ subject = "release" /\ GateNext /\ UNCHANGED evaluationVars
       \/ subject \in {"versions", "memories", "source", "graph"} /\ UNCHANGED <<people, quality>>
             /\ \/ subject = "versions" /\ DatasetNext /\ UNCHANGED <<memoryVars, sourceVars, syncVars>>
                \/ subject = "memories" /\ MemoryNext /\ UNCHANGED <<datasetVars, sourceVars, syncVars>>
                \/ subject = "source" /\ SourceNext /\ UNCHANGED <<datasetVars, memoryVars, syncVars>>
                \/ subject = "graph" /\ SyncNext /\ UNCHANGED <<datasetVars, memoryVars, sourceVars>>
       \/ subject \in {"agent", "governance", "tokens", "alerts", "incident"}
             /\ UNCHANGED <<data, quality>>
             /\ \/ subject = "agent" /\ AgentNext /\ UNCHANGED <<governanceVars, authVars, sreVars>>
                \/ subject = "governance" /\ GovernanceNext /\ UNCHANGED <<agentVars, authVars, sreVars>>
                \/ subject = "tokens" /\ AuthNext /\ UNCHANGED <<agentVars, governanceVars, sreVars>>
                \/ subject = "alerts" /\ AlertNext /\ UNCHANGED <<agentVars, governanceVars, authVars>>
                \/ subject = "incident" /\ IncidentNext /\ UNCHANGED <<agentVars, governanceVars, authVars>>

Spec == Init /\ [][Next]_<<subject, data, people, quality>>

(* A bound: a second update of a data source is followed where nothing but *)
(* updates, discoveries and deletions has happened to the source.          *)
TwoUpdatesByThemselves ==
    changes > 1 =>
       /\ source.status = "registered"
       /\ \A r \in SourceRequests : runs[r] = "none" /\ call[r].told = "nothing"

(* Whoever dies or overlaps, the rows respect their unique constraints,    *)
(* statuses are those of the code, and a row is held by one transaction at *)
(* a time.                                                                 *)
RecordsTypeOK ==
    /\ DatasetTypeOK /\ MemoryTypeOK /\ AgentTypeOK /\ GovernanceTypeOK /\ AuthTypeOK
    /\ SourceTypeOK /\ SyncTypeOK /\ SreTypeOK /\ EvaluationTypeOK /\ GateTypeOK
================================================================================
