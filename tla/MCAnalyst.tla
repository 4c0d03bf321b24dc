------------------------------- MODULE MCAnalyst -------------------------------
(***************************************************************************)
(* Questions to the analyst on a day when nothing goes wrong: no statement,*)
(* no branch and no flush fails, unless the code itself makes it fail.     *)
(***************************************************************************)
EXTENDS AnalystAnswer

CalmRetrieved == {<<>>, <<[chunk |-> 1, document |-> 1, good |-> TRUE]>>}

CalmNext ==
    \/ BeginAnalysis /\ session'.ok
    \/ SqlQueries \/ RagRetrieves \/ RagGenerates \/ Synthesize
    \/ SqlRecords /\ (CanInsert(SqlSteps) => db' # db)
    \/ RagRecords /\ (CanInsert({RagStep}) => session'.ok)
    \/ RecordAnswer /\ (CanInsert({Synthesis}) => db' # db)

CalmSpec == AnalystInit /\ [][CalmNext]_analystVars
================================================================================
