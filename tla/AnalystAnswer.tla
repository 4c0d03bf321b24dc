------------------------------ MODULE AnalystAnswer ------------------------------
(***************************************************************************)
(* One question to the analyst (backend/app/analyst/service.py and         *)
(* executor.py, backend/app/sql_agent/service.py, backend/app/rag): a plan *)
(* with an SQL branch, a document branch or both, which run at once, each  *)
(* within its timeout, and on ONE database session.  Their evidence is     *)
(* merged, the answer put together, its citations validated, and the run   *)
(* recorded.                                                               *)
(* A flush, a commit and a rollback of the session are one step each.      *)
(***************************************************************************)
EXTENDS Naturals, FiniteSets, Sequences

CONSTANTS Retrieved,       \* bound: what a retrieval finds: sequences of chunk, document, good
          EvidenceTopK,    \* bound: the evidence asked for
          MaxPerDocument,  \* max_per_document of the selection
          MaxRows,         \* bound: rows of an SQL result that become evidence, at most 3
          MaxEvidence      \* max_evidence of the merger

(* A chunk is of one document.                                             *)
ASSUME AnalystAssumption ==
    /\ \A chunks \in Retrieved :
          /\ Len(chunks) \in Nat /\ DOMAIN chunks = 1..Len(chunks)
          /\ \A i, j \in DOMAIN chunks :
                chunks[i].chunk = chunks[j].chunk => chunks[i].document = chunks[j].document
    /\ EvidenceTopK \in Nat \ {0} /\ MaxPerDocument \in Nat \ {0}
    /\ MaxRows \in 0..3 /\ MaxEvidence \in Nat \ {0}

VARIABLES question,  \* its stage and the branches of its plan
          sql,       \* the SQL branch: its state and the rows it found
          rag,       \* the document branch: its state, chunks, evidence, tags
          db,        \* the rows committed: the run with its status, and the steps
          session,   \* the rows as its transaction sees them; ok unless it must be rolled back
          reply      \* what the caller gets

analystVars == <<question, sql, rag, db, session, reply>>

(* Steps, by their step_order, which is unique within a run.               *)
SqlSteps == {<<1, "sql_planning">>, <<2, "sql_execution">>}
RagStep == <<1, "rag_generation">>
Synthesis == <<10, "analyst_synthesis">>

NoRows == [run |-> "none", steps |-> {}]
NoReply == [tags |-> {}, evidence |-> {}, grounded |-> FALSE, degraded |-> FALSE, partial |-> FALSE]
Ended == {"done", "failed"}

AnalystTypeOK ==
    /\ question.stage \in {"new", "running", "recording", "answered", "timed out"}
    /\ sql.state \in {"off", "working", "queried"} \cup Ended
    /\ rag.state \in {"off", "working", "retrieved", "generated"} \cup Ended
    /\ \A rows \in {db, session.rows} :
          /\ rows.run \in {"none", "running", "completed", "partial"}
          /\ rows.steps \subseteq SqlSteps \cup {RagStep, Synthesis}

AnalystInit ==
    /\ question = [stage |-> "new", plan |-> {}]
    /\ sql = [state |-> "off", rows |-> 0]
    /\ rag = [state |-> "off", chunks |-> <<>>, evidence |-> 0, cites |-> {}, insufficient |-> FALSE]
    /\ db = NoRows
    /\ session = [rows |-> NoRows, ok |-> TRUE]
    /\ reply = NoReply
-----------------------------------------------------------------------------
(* The session.  Steps are inserted if their run is there and no order is  *)
(* taken twice; otherwise, or if the database fails, the transaction is    *)
(* lost, and the session refuses to go on until it is rolled back.         *)
CanInsert(steps) ==
    /\ session.ok /\ session.rows.run # "none"
    /\ \A s \in steps, t \in session.rows.steps : s[1] # t[1]
With(steps) == [session.rows EXCEPT !.steps = @ \cup steps]

Rollback == session' = [rows |-> db, ok |-> TRUE]

Commit(rows) == db' = rows /\ session' = [rows |-> rows, ok |-> TRUE]
-----------------------------------------------------------------------------
(* The run is inserted as running, and flushed, unless the database fails. *)
BeginAnalysis ==
    /\ question.stage = "new"
    /\ \E plan \in {{"sql"}, {"rag"}, {"sql", "rag"}} :
          /\ question' = [stage |-> "running", plan |-> plan]
          /\ sql' = IF "sql" \in plan THEN [sql EXCEPT !.state = "working"] ELSE sql
          /\ rag' = IF "rag" \in plan THEN [rag EXCEPT !.state = "working"] ELSE rag
    /\ session' \in {[rows |-> [NoRows EXCEPT !.run = "running"], ok |-> TRUE],
                     [rows |-> NoRows, ok |-> FALSE]}
    /\ UNCHANGED <<db, reply>>

(* A branch ends, by an exception or its timeout; a statement that failed  *)
(* or was cut off takes the transaction with it.                           *)
SqlFails ==
    /\ question.stage = "running" /\ sql.state \in {"working", "queried"}
    /\ sql' = [sql EXCEPT !.state = "failed"]
    /\ session' \in {session, [session EXCEPT !.ok = FALSE]}
    /\ UNCHANGED <<question, rag, db, reply>>

RagFails ==
    /\ question.stage = "running" /\ rag.state \in {"working", "retrieved", "generated"}
    /\ rag' = [rag EXCEPT !.state = "failed", !.chunks = <<>>]
    /\ session' \in {session, [session EXCEPT !.ok = FALSE]}
    /\ UNCHANGED <<question, sql, db, reply>>

(* The statement is generated, validated and executed, in the session.     *)
SqlQueries ==
    /\ question.stage = "running" /\ sql.state = "working" /\ session.ok
    /\ \E n \in 0..MaxRows : sql' = [state |-> "queried", rows |-> n]
    /\ UNCHANGED <<question, rag, db, session, reply>>

(* The steps are added and the session is committed, with whatever else is *)
(* in it, or rolled back, with whatever else was.                          *)
SqlRecords ==
    /\ question.stage = "running" /\ sql.state = "queried"
    /\ sql' = [sql EXCEPT !.state = "done"]
    /\ \/ CanInsert(SqlSteps) /\ Commit(With(SqlSteps))
       \/ Rollback /\ UNCHANGED db
    /\ UNCHANGED <<question, rag, reply>>
-----------------------------------------------------------------------------
(* The document branch.                                                    *)

(* Evidence is chosen from the good chunks, each where it first comes, in  *)
(* their order: not more than MaxPerDocument of a document, but the others *)
(* in what room is left.  Chunks are named by their ranks.                 *)
Good(chunks) == {i \in DOMAIN chunks : chunks[i].good}
Distinct(chunks) ==
    {i \in Good(chunks) : \A j \in Good(chunks) : j < i => chunks[j].chunk # chunks[i].chunk}

OfDocument(chunks, some, d) == {i \in some : chunks[i].document = d}
UpToRank(some, i) == {j \in some : j <= i}

WithinShare(chunks) ==
    LET all == Distinct(chunks) IN
    {i \in all : Cardinality(UpToRank(OfDocument(chunks, all, chunks[i].document), i)) <= MaxPerDocument}

(* The evidence a chunk becomes if there is room: E1, E2 and so on.        *)
EvidenceNumber(chunks, i) ==
    IF i \in WithinShare(chunks) THEN Cardinality(UpToRank(WithinShare(chunks), i))
    ELSE Cardinality(WithinShare(chunks)) + Cardinality(UpToRank(Distinct(chunks) \ WithinShare(chunks), i))

SelectEvidence(chunks) == {i \in Distinct(chunks) : EvidenceNumber(chunks, i) <= EvidenceTopK}

(* Chunks are retrieved and hydrated, in the session.                      *)
RagRetrieves ==
    /\ question.stage = "running" /\ rag.state = "working" /\ session.ok
    /\ \E chunks \in Retrieved : rag' = [rag EXCEPT !.state = "retrieved", !.chunks = chunks]
    /\ UNCHANGED <<question, sql, db, session, reply>>

(* Without evidence the answer says so; with it, as much as the budget of  *)
(* tokens allows, and the first in any case, goes to the model, which      *)
(* cites what it likes: what it was not given is struck out.               *)
RagGenerates ==
    LET found == Cardinality(SelectEvidence(rag.chunks)) IN
    /\ question.stage = "running" /\ rag.state = "retrieved"
    /\ \/ /\ found = 0
          /\ \E signal \in BOOLEAN :
                rag' = [rag EXCEPT !.state = "done", !.chunks = <<>>, !.insufficient = signal]
       \/ \E n \in 1..found, signal \in BOOLEAN : \E cites \in SUBSET (1..n) :
             rag' = [state |-> "generated", chunks |-> <<>>, evidence |-> n, cites |-> cites,
                     insufficient |-> signal]
    /\ UNCHANGED <<question, sql, db, session, reply>>

(* The step is flushed; a failure is logged, and the session left as it is.*)
RagRecords ==
    /\ question.stage = "running" /\ rag.state = "generated"
    /\ rag' = [rag EXCEPT !.state = "done"]
    /\ \/ CanInsert({RagStep}) /\ session' = [session EXCEPT !.rows = With({RagStep})]
       \/ session' = [session EXCEPT !.ok = FALSE]
    /\ UNCHANGED <<question, sql, db, reply>>
-----------------------------------------------------------------------------
(* The deadline of the whole request: an exception, and the session of the *)
(* request is rolled back.                                                 *)
AnalysisTimesOut ==
    /\ question.stage = "running"
    /\ question' = [question EXCEPT !.stage = "timed out"]
    /\ sql' = IF sql.state \in Ended \cup {"off"} THEN sql ELSE [sql EXCEPT !.state = "failed"]
    /\ rag' = IF rag.state \in Ended \cup {"off"} THEN rag
              ELSE [rag EXCEPT !.state = "failed", !.chunks = <<>>]
    /\ Rollback
    /\ UNCHANGED <<db, reply>>

(* Evidence: a summary and rows (S), chunks (R), up to the limit.          *)
Merged ==
    LET s == IF sql.state = "done" THEN {<<"S", i>> : i \in 1..(sql.rows + 1)} ELSE {}
        r == IF rag.state = "done" THEN {<<"R", i>> : i \in 1..rag.evidence} ELSE {}
    IN  {e \in s : e[2] <= MaxEvidence} \cup {e \in r : Cardinality(s) + e[2] <= MaxEvidence}

(* Tags: the SQL part cites S1; in the document part E1 becomes R1, other  *)
(* tags stay, and R1 is appended if it is missing.                         *)
Tags ==
    IF Merged = {} THEN {}
    ELSE (IF sql.state = "done" THEN {<<"S", 1>>} ELSE {})
         \cup (IF rag.state = "done" THEN {<<"R", 1>>} \cup {<<"E", i>> : i \in rag.cites \ {1}} ELSE {})

(* Mutant: tags of evidence that is not there are kept.                    *)
StripNoTags(tags) == tags

StripTags(tags) == tags \cap Merged

Failed == {b \in question.plan : (IF b = "sql" THEN sql.state ELSE rag.state) = "failed"}

(* Both branches have ended: the answer, with every piece of evidence that *)
(* was merged claimed as cited.                                            *)
Synthesize ==
    /\ question.stage = "running" /\ {sql.state, rag.state} \subseteq Ended \cup {"off"}
    /\ question' = [question EXCEPT !.stage = "recording"]
    /\ reply' = [tags |-> StripTags(Tags), evidence |-> Merged,
                 grounded |-> Merged # {} /\ ~(rag.state = "done" /\ rag.insufficient),
                 degraded |-> Failed # {}, partial |-> Failed \notin {{}, question.plan}]
    /\ UNCHANGED <<sql, rag, db, session>>

(* The run, if the session still knows it, is ended, and the synthesis     *)
(* added; or all of it is rolled back, and the answer returned.            *)
RecordAnswer ==
    /\ question.stage = "recording"
    /\ question' = [question EXCEPT !.stage = "answered"]
    /\ \/ /\ CanInsert({Synthesis})
          /\ Commit([With({Synthesis}) EXCEPT !.run = IF reply.degraded THEN "partial" ELSE "completed"])
       \/ Rollback /\ UNCHANGED db
    /\ UNCHANGED <<sql, rag, reply>>

AnalystNext ==
    \/ BeginAnalysis \/ SqlFails \/ SqlQueries \/ SqlRecords
    \/ RagFails \/ RagRetrieves \/ RagGenerates \/ RagRecords
    \/ AnalysisTimesOut \/ Synthesize \/ RecordAnswer

AnalystSpec == AnalystInit /\ [][AnalystNext]_analystVars
-----------------------------------------------------------------------------
(* Evidence is chosen well: all the room is used, no chunk comes twice,    *)
(* every number of the evidence names one, and a document gets more than   *)
(* its share only if no other has a chunk left.                            *)
ChunksOf(chunks, some) == {chunks[i].chunk : i \in some}
EvidenceIsDiverse(chunks) ==
    LET chosen == SelectEvidence(chunks)
        ids == Cardinality(ChunksOf(chunks, Good(chunks)))
        Held(d) == Cardinality(OfDocument(chunks, chosen, d))
    IN  /\ Cardinality(chosen) = (IF ids < EvidenceTopK THEN ids ELSE EvidenceTopK)
        /\ Cardinality(ChunksOf(chunks, chosen)) = Cardinality(chosen)
        /\ {EvidenceNumber(chunks, i) : i \in chosen} = 1..Cardinality(chosen)
        /\ \A i \in chosen, c \in Good(chunks) :
              (Held(chunks[i].document) > MaxPerDocument
                 /\ chunks[c].chunk \notin ChunksOf(chunks, chosen))
                 => Held(chunks[c].document) >= MaxPerDocument

(* Every tag in an answer is of evidence returned with it, and an answer   *)
(* called grounded has one, whatever the model cited and the limit cut off;*)
(* a branch that failed is told, and the answer called partial if another  *)
(* did not.  A run is recorded as ended only with the synthesis of its     *)
(* answer, partial exactly if the answer is degraded, and no step without  *)
(* its run: though both branches, which may fail and time out anywhere,    *)
(* commit and roll back the session of the other.                          *)
AnswersAreGrounded ==
    /\ rag.state = "retrieved" => EvidenceIsDiverse(rag.chunks)
    /\ question.stage \in {"recording", "answered"} =>
          /\ reply.tags \subseteq reply.evidence /\ (reply.grounded => reply.tags # {})
          /\ reply.degraded <=> "failed" \in {sql.state, rag.state}
          /\ reply.partial <=> {"done", "failed"} \subseteq {sql.state, rag.state}
    /\ db.run \in {"completed", "partial"} <=> Synthesis \in db.steps
    /\ Synthesis \in db.steps =>
          question.stage = "answered" /\ (db.run = "partial" <=> reply.degraded)
    /\ db.steps # {} => db.run # "none"

(* What the documentation says of every execution: its run is there, and   *)
(* has come from running to completed or partial                           *)
(* (task_18_unified_analyst.md:103).                                       *)
AnswersAreRecorded ==
    question.stage = "answered" => db.run \in {"completed", "partial"}
================================================================================
