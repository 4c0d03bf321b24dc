------------------------------ MODULE EvaluationRuns ------------------------------
(***************************************************************************)
(* Benchmark runs of an evaluation dataset (backend/app/evaluation): the   *)
(* cases of the dataset are put to the analyst one after the other, on the *)
(* session that also holds the results not yet committed; then the run is  *)
(* completed, and compared with another by what the database has of them.  *)
(* Cases are added meanwhile.  Of a result only its verdict is kept.       *)
(***************************************************************************)
EXTENDS Naturals, FiniteSets, Sequences

CONSTANTS EvalRuns,  \* the runs, each with a session of its own
          MaxCases   \* bound: cases the dataset gets

ASSUME EvaluationAssumption == MaxCases \in Nat

VARIABLES cases,       \* how many enabled cases the dataset has, in order of creation
          runRow,      \* the rows of the runs
          resultRows,  \* the rows of their results
          bench,       \* what the process knows of each run, and its session
          comparison   \* a comparison of two runs

evaluationVars == <<cases, runRow, resultRows, bench, comparison>>

NoRow == [status |-> "none", total |-> 0, passed |-> 0, failed |-> 0]
NoBench == [phase |-> "idle", verdicts |-> <<>>, held |-> {}, broken |-> FALSE, undone |-> 0]
NoComparison == [phase |-> "none", base |-> {}, passed |-> {}, cand |-> {}, failures |-> {}, status |-> "none"]

EvaluationTypeOK ==
    /\ cases \in 0..MaxCases
    /\ \A r \in EvalRuns :
          /\ runRow[r].status \in {"none", "running", "completed"}
          /\ bench[r].phase \in {"idle", "asking", "ended"}
          /\ bench[r].verdicts \in Seq(BOOLEAN) /\ bench[r].held \subseteq 1..MaxCases
    /\ comparison.status \in {"none", "PASS", "WARNING", "FAIL"}

EvaluationInit ==
    /\ cases = 0
    /\ runRow = [r \in EvalRuns |-> NoRow]
    /\ resultRows = {}
    /\ bench = [r \in EvalRuns |-> NoBench]
    /\ comparison = NoComparison
-----------------------------------------------------------------------------
AddCase ==
    /\ cases < MaxCases
    /\ cases' = cases + 1
    /\ UNCHANGED <<runRow, resultRows, bench, comparison>>

(* The cases are read, and the row of the run is committed.                *)
StartRun(r) ==
    /\ bench[r].phase = "idle"
    /\ bench' = [bench EXCEPT ![r].phase = "asking"]
    /\ runRow' = [runRow EXCEPT ![r] = [NoRow EXCEPT !.status = "running", !.total = cases]]
    /\ UNCHANGED <<cases, resultRows, comparison>>

Asked(r) == Len(bench[r].verdicts)
Verdict(r, i) == [run |-> r, case |-> i, passed |-> bench[r].verdicts[i]]
Unsaved(r) == {Verdict(r, i) : i \in bench[r].held}

(* One question to the analyst.  Its outcome for the results held by the   *)
(* session: they stay, are committed with the rows of the analyst, are     *)
(* lost with them when it rolls back, or are lost in a flush that fails,   *)
(* which leaves the session broken until somebody rolls it back.           *)
AskCase(r, passes) ==
    LET i == Asked(r) + 1
        scored == Append(bench[r].verdicts, passes)
        after(held, broken, undone) ==
            bench' = [bench EXCEPT ![r] = [@ EXCEPT
                         !.verdicts = scored, !.held = held \cup {i}, !.broken = broken, !.undone = undone]]
    IN
    /\ bench[r].phase = "asking" /\ i <= runRow[r].total
    /\ \/ after(bench[r].held, bench[r].broken, bench[r].undone) /\ UNCHANGED resultRows
       \/ /\ ~bench[r].broken
          /\ after({}, FALSE, bench[r].undone)
          /\ resultRows' = resultRows \cup Unsaved(r)
       \/ \E broken \in BOOLEAN : after({}, broken, i) /\ UNCHANGED resultRows
    /\ UNCHANGED <<cases, runRow, comparison>>

(* The run is completed with the counts of the process, in one transaction *)
(* with the results still held.                                            *)
Passed(r) == Cardinality({i \in 1..Asked(r) : bench[r].verdicts[i]})
Summary(r) ==
    [runRow[r] EXCEPT !.status = "completed", !.passed = Passed(r), !.failed = Asked(r) - Passed(r)]

(* Mutant: the results are left to whoever commits next.                   *)
FinishRunAlone(r) ==
    /\ bench[r].phase = "asking" /\ Asked(r) = runRow[r].total /\ ~bench[r].broken
    /\ runRow' = [runRow EXCEPT ![r] = Summary(r)]
    /\ bench' = [bench EXCEPT ![r].phase = "ended"]
    /\ UNCHANGED <<cases, resultRows, comparison>>

FinishRun(r) ==
    /\ bench[r].phase = "asking" /\ Asked(r) = runRow[r].total /\ ~bench[r].broken
    /\ runRow' = [runRow EXCEPT ![r] = Summary(r)]
    /\ resultRows' = resultRows \cup Unsaved(r)
    /\ bench' = [bench EXCEPT ![r].phase = "ended", ![r].held = {}]
    /\ UNCHANGED <<cases, comparison>>

(* The process dies, or the run cannot be completed: nobody tells its row. *)
RunBreaksOff(r) ==
    /\ bench[r].phase = "asking"
    /\ bench' = [bench EXCEPT ![r].phase = "ended", ![r].held = {}]
    /\ UNCHANGED <<cases, runRow, resultRows, comparison>>
-----------------------------------------------------------------------------
(* A comparison asks for no status of the runs; it reads the results of    *)
(* one, then of the other.  What passed and fails now is a new failure, if *)
(* both have results; scores below the thresholds fail the comparison, and *)
(* slower answers are worth a warning.                                     *)
ResultsOf(r) == {row \in resultRows : row.run = r}

ReadBaseline(r) ==
    /\ comparison.phase = "none" /\ runRow[r].status # "none"
    /\ comparison' = [comparison EXCEPT !.phase = "read", !.base = {r},
                         !.passed = {row.case : row \in {x \in ResultsOf(r) : x.passed}}]
    /\ UNCHANGED <<cases, runRow, resultRows, bench>>

ReadCandidate(r) ==
    /\ comparison.phase = "read" /\ runRow[r].status # "none"
    /\ LET failures == {row.case : row \in {x \in ResultsOf(r) : ~x.passed}} \cap comparison.passed
       IN  \E worse, slower \in BOOLEAN :
             comparison' = [comparison EXCEPT
                !.phase = "ended", !.cand = {r}, !.passed = {}, !.failures = failures,
                !.status = IF worse THEN "FAIL"
                           ELSE IF slower \/ failures # {} THEN "WARNING" ELSE "PASS"]
    /\ UNCHANGED <<cases, runRow, resultRows, bench>>

EvaluationNext ==
    \/ AddCase
    \/ \E r \in EvalRuns :
          \/ StartRun(r) \/ FinishRun(r) \/ RunBreaksOff(r) \/ ReadBaseline(r) \/ ReadCandidate(r)
          \/ \E passes \in BOOLEAN : AskCase(r, passes)

EvaluationSpec == EvaluationInit /\ [][EvaluationNext]_evaluationVars
-----------------------------------------------------------------------------
(* Whatever the questions do to the session of a run: a result is stored   *)
(* with the verdict that was scored, and a run that is not completed       *)
(* counts nothing.  A completed one counts every case it began with, and   *)
(* has stored the results of all but those that a later question rolled    *)
(* back; its counts tell, its scorecard does not.  A comparison of two     *)
(* runs names only cases that passed in one and fail in the other.         *)
RunsAreHonest ==
    /\ \A row \in resultRows :
          row.case \in 1..Asked(row.run) /\ row = Verdict(row.run, row.case)
    /\ \A r \in EvalRuns :
          IF runRow[r].status = "completed"
          THEN /\ Asked(r) = runRow[r].total /\ runRow[r].passed + runRow[r].failed = runRow[r].total
               /\ \A i \in 1..runRow[r].total :
                     i >= bench[r].undone => Verdict(r, i) \in resultRows
          ELSE runRow[r].passed = 0 /\ runRow[r].failed = 0
    /\ \A b \in comparison.base, c \in comparison.cand :
          LET regressed == {i \in (1..Asked(b)) \cap (1..Asked(c)) :
                               bench[b].verdicts[i] /\ ~bench[c].verdicts[i]}
          IN  /\ comparison.failures \subseteq regressed
              /\ comparison.failures # {} => comparison.status # "PASS"
===================================================================================
