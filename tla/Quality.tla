-------------------------------- MODULE Quality --------------------------------
(***************************************************************************)
(* How the quality of the answers is judged: the benchmark runs            *)
(* (EvaluationRuns) and the gates of a release (QualityGates), side by     *)
(* side.  They share no row.                                               *)
(***************************************************************************)
EXTENDS EvaluationRuns, QualityGates

QualitySpec == EvaluationSpec /\ GateSpec

(* Quality is judged by what was found: benchmark runs are recorded as     *)
(* they went, but for what a question rolled back, and a release keeps     *)
(* what the gates that judged it ask.                                      *)
EvaluationsAreHonest == RunsAreHonest /\ ReleasesAreEarned
================================================================================
