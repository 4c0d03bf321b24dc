------------------------------- MODULE QualityGates -------------------------------
(***************************************************************************)
(* The way of a release through the quality gates (backend/app/            *)
(* continuous_evaluation): the scorecard of a candidate is compared with   *)
(* that of the baseline, judged by gates, and released if they let it.     *)
(***************************************************************************)
EXTENDS Integers, FiniteSets, Sequences

CONSTANTS Metrics,
          ReportedLower, \* those of which less is better, as the registry has it
          ReadLower,     \* those whose NAME says so to the detector
          BaseValues,    \* bound: what a baseline reports
          Values,        \* bound: what a candidate reports
          Unset,         \* nothing reported, no limit set
          Gates,         \* bound: gates, each a set of rules
          MaxResults     \* bound: gates that judge one release

ASSUME GateAssumption ==
    /\ ReportedLower \subseteq Metrics /\ ReadLower \subseteq Metrics
    /\ BaseValues \subseteq Nat /\ Values \subseteq Nat /\ Unset \in Int \ Nat
    /\ MaxResults \in Nat
    /\ \A gate \in Gates : \A rule \in gate :
          /\ rule.metric \in Metrics /\ rule.critical \in BOOLEAN
          /\ {rule.min, rule.max, rule.drop} \subseteq Nat \cup {Unset}

VARIABLES scores,   \* the scorecards, and what was found wrong with the candidate
          results,  \* the recorded results of gates, each with the gate as it was
          release   \* what the policy says, and whether the release goes ahead

gateVars == <<scores, results, release>>

NoScores == [phase |-> "none", base |-> <<>>, cand |-> <<>>, found |-> {}]
Decisions == {"PASS", "FAIL", "BLOCK_RELEASE"}

GateTypeOK ==
    /\ scores.phase \in {"none", "reported", "compared"}
    /\ \A finding \in scores.found : finding.severity \in {"CRITICAL", "MAJOR", "WARNING", "INFO"}
    /\ Len(results) <= MaxResults /\ \A i \in DOMAIN results : results[i].decision \in Decisions
    /\ release \in [status : {"none", "PENDING", "APPROVED", "REJECTED"}, ahead : BOOLEAN]

GateInit ==
    /\ scores = NoScores
    /\ results = <<>>
    /\ release = [status |-> "none", ahead |-> FALSE]

Report ==
    /\ scores.phase = "none"
    /\ \E base \in [Metrics -> BaseValues], cand \in [Metrics -> Values \cup {Unset}] :
          scores' = [NoScores EXCEPT !.phase = "reported", !.base = base, !.cand = cand]
    /\ UNCHANGED <<results, release>>
-----------------------------------------------------------------------------
(* Regressions.  A drop is relative to the baseline, in its direction as   *)
(* the name of the metric tells it; there is none from a baseline of zero. *)
Loss(base, cand, lower) == IF lower THEN cand - base ELSE base - cand
LossOf(m) == Loss(scores.base[m], scores.cand[m], m \in ReadLower)
Reaches(m, percent) == scores.base[m] > 0 /\ 100 * LossOf(m) >= percent * scores.base[m]

Severity(m) ==
    IF Reaches(m, 10) THEN "CRITICAL" ELSE IF Reaches(m, 5) THEN "MAJOR"
    ELSE IF Reaches(m, 3) THEN "WARNING" ELSE "INFO"

DetectRegressions ==
    /\ scores.phase = "reported"
    /\ scores' = [scores EXCEPT !.phase = "compared", !.found =
          {[metric |-> m, severity |-> Severity(m)] :
             m \in {x \in Metrics : scores.cand[x] # Unset /\ Reaches(x, 1)}}]
    /\ UNCHANGED <<results, release>>
-----------------------------------------------------------------------------
(* A gate breaks over a rule whose metric is reported beyond a limit, or   *)
(* dropped by more than it may, if the regressions found are given to it;  *)
(* the API gives none.  A critical one always breaks it.                   *)
Breaks(rule, given) ==
    \/ /\ scores.cand[rule.metric] # Unset
       /\ \/ rule.min # Unset /\ scores.cand[rule.metric] < rule.min
          \/ rule.max # Unset /\ scores.cand[rule.metric] > rule.max
    \/ /\ rule.drop # Unset
       /\ \E finding \in given :
             /\ finding.metric = rule.metric
             /\ 100 * LossOf(rule.metric) > rule.drop * scores.base[rule.metric]

Decision(gate, given) ==
    LET broken == {rule \in gate : Breaks(rule, given)} IN
    IF (\E rule \in broken : rule.critical) \/ (\E finding \in given : finding.severity = "CRITICAL")
    THEN "BLOCK_RELEASE"
    ELSE IF broken # {} THEN "FAIL" ELSE "PASS"

EvaluateGate(gate, give) ==
    LET given == IF give THEN scores.found ELSE {} IN
    /\ scores.phase \in {"reported", "compared"} /\ (give => scores.phase = "compared")
    /\ release.status = "none" /\ Len(results) < MaxResults
    /\ results' = Append(results, [gate |-> gate, given |-> give, decision |-> Decision(gate, given)])
    /\ UNCHANGED <<scores, release>>

(* The policy.  An agent that asks is refused; enforcement stops what is   *)
(* rejected, and lets pass what is pending as it does what is approved.    *)
Status(judged) ==
    IF judged = <<>> THEN "PENDING"
    ELSE IF \E i \in DOMAIN judged : judged[i].decision # "PASS" THEN "REJECTED" ELSE "APPROVED"

EvaluateRelease ==
    /\ release.status = "none"
    /\ release' = [release EXCEPT !.status = Status(results)]
    /\ UNCHANGED <<scores, results>>

EnforceRelease ==
    /\ release.status # "none" /\ ~release.ahead /\ Status(results) # "REJECTED"
    /\ release' = [release EXCEPT !.ahead = TRUE]
    /\ UNCHANGED <<scores, results>>

GateNext ==
    \/ Report \/ DetectRegressions \/ EvaluateRelease \/ EnforceRelease
    \/ \E gate \in Gates, give \in BOOLEAN : EvaluateGate(gate, give)

GateSpec == GateInit /\ [][GateNext]_gateVars
-----------------------------------------------------------------------------
(* A release that goes ahead after a gate judged it keeps every limit its  *)
(* gates set on what it reports.  Where a gate was given what was found,   *)
(* nothing it reports is worse by a tenth or more than a baseline that is  *)
(* not zero, worse in the direction of the registry: but for a metric      *)
(* whose name is misread.  And no release is rejected without a cause.     *)
Misread == (ReportedLower \ ReadLower) \cup (ReadLower \ ReportedLower)
WorseByTenth(m) ==
    /\ scores.cand[m] # Unset /\ scores.base[m] > 0
    /\ 10 * Loss(scores.base[m], scores.cand[m], m \in ReportedLower) >= scores.base[m]
WithinLimits(rule) ==
    scores.cand[rule.metric] = Unset \/
       /\ rule.min = Unset \/ scores.cand[rule.metric] >= rule.min
       /\ rule.max = Unset \/ scores.cand[rule.metric] <= rule.max

ReleasesAreEarned ==
    /\ release.ahead => \A i \in DOMAIN results :
          /\ \A rule \in results[i].gate : WithinLimits(rule)
          /\ results[i].given => \A m \in Metrics \ Misread : ~WorseByTenth(m)
    /\ release.status = "REJECTED" => \E i \in DOMAIN results :
          \/ \E rule \in results[i].gate : ~WithinLimits(rule)
          \/ results[i].given /\ scores.found # {}
    /\ release.status = "PENDING" <=> release.status # "none" /\ results = <<>>
===================================================================================
