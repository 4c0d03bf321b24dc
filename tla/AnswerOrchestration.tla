--------------------------- MODULE AnswerOrchestration ---------------------------
(***************************************************************************)
(* One question to the response orchestration (backend/app/                *)
(* response_orchestration): a plan, the branches it runs at once on ONE    *)
(* database session, the evidence they find with its conflicts, a text     *)
(* whose citations are verified, and a decision about it; with the rows    *)
(* that record the execution and its three steps.                          *)
(* Numbers, tags and sentences are as coarse as the decision tells apart;  *)
(* confidence is counted in ten-thousandths.                               *)
(***************************************************************************)
EXTENDS Naturals, FiniteSets, Sequences, SequencesExt

CONSTANTS SqlNumbers,      \* bound: the number an SQL result reports, 0 if none
          DocumentNumbers, \* bound: the numbers of the evidence of a document branch, in order
          PathCounts,      \* bound: how many paths the knowledge graph finds
          MaxItems,        \* max_evidence
          Citable          \* bound: the tags a text may cite, each a kind and a number

ASSUME OrchestrationAssumption ==
    /\ SqlNumbers \subseteq Nat /\ PathCounts \subseteq Nat /\ MaxItems \in Nat
    /\ DocumentNumbers \subseteq Seq(Nat) /\ Citable \subseteq {"S", "D", "G"} \X Nat

VARIABLES inquiry,   \* its phase and its plan
          branches,  \* the SQL branch and the document branch: state and what they found
          bundle,    \* the evidence collected, and the conflicts in it by severity
          ledger,    \* the rows committed: the execution, and its steps by their order
          ledgerTx,  \* the rows as the transaction sees them; ok unless it must be rolled back
          verdict    \* what the caller gets

orchestrationVars == <<inquiry, branches, bundle, ledger, ledgerTx, verdict>>

Execution == 0
Modes == {"AUTO", "SQL", "RAG", "GRAPH", "HYBRID"}
NoVerdict == [decision |-> "none", status |-> "none", cites |-> {}, claims |-> 0, supported |-> 0]
NoBundle == [items |-> <<>>, high |-> 0, medium |-> 0]

OrchestrationTypeOK ==
    /\ inquiry.phase \in {"new", "received", "executing", "generating", "answered", "ended", "failed"}
    /\ \A branch \in {branches.sql.state, branches.rag.state} :
          branch \in {"off", "working", "none", "found", "failed"}
    /\ Len(bundle.items) <= MaxItems
    /\ ledger \subseteq 0..3 /\ ledgerTx.rows \subseteq 0..3
    /\ verdict.status \in {"none", "NEEDS_CLARIFICATION", "COMPLETED", "PARTIAL", "INSUFFICIENT_EVIDENCE"}

OrchestrationInit ==
    /\ inquiry = [phase |-> "new", metrics |-> FALSE, paths |-> 0, ambiguous |-> FALSE]
    /\ branches = [sql |-> [state |-> "off", number |-> 0], rag |-> [state |-> "off", numbers |-> <<>>]]
    /\ bundle = NoBundle
    /\ ledger = {}
    /\ ledgerTx = [rows |-> {}, ok |-> TRUE]
    /\ verdict = NoVerdict
-----------------------------------------------------------------------------
(* The records.  A step is flushed into the transaction of the request; it *)
(* refers to its execution.  What cannot be flushed fails the request.     *)
CanRecord(row) == ledgerTx.ok /\ (row # Execution => Execution \in ledgerTx.rows)
Recorded(row) == ledgerTx' = [ledgerTx EXCEPT !.rows = @ \cup {row}]

(* An exception reaches the request's session, which is rolled back.       *)
InquiryFails ==
    /\ inquiry.phase \in {"new", "received", "executing", "generating"}
    /\ inquiry' = [inquiry EXCEPT !.phase = "failed"]
    /\ ledgerTx' = [rows |-> ledger, ok |-> TRUE]
    /\ UNCHANGED <<branches, bundle, ledger, verdict>>

(* The request ends: what its transaction holds is committed, or lost.     *)
InquiryEnds ==
    /\ inquiry.phase = "answered"
    /\ inquiry' = [inquiry EXCEPT !.phase = "ended"]
    /\ \/ ledgerTx.ok /\ ledger' = ledgerTx.rows /\ UNCHANGED ledgerTx
       \/ ledgerTx' = [rows |-> ledger, ok |-> TRUE] /\ UNCHANGED ledger
    /\ UNCHANGED <<branches, bundle, verdict>>

Receive ==
    /\ inquiry.phase = "new" /\ CanRecord(Execution)
    /\ inquiry' = [inquiry EXCEPT !.phase = "received"]
    /\ Recorded(Execution)
    /\ UNCHANGED <<branches, bundle, ledger, verdict>>
-----------------------------------------------------------------------------
(* The plan: the strategy is the mode, or follows from what the question   *)
(* mentions; a question with more than three metrics is ambiguous.         *)
Strategy(mode, numeric, documents, paths) ==
    CASE mode # "AUTO" -> mode
      [] mode = "AUTO" /\ numeric /\ ~documents -> "SQL"
      [] mode = "AUTO" /\ documents /\ ~numeric -> "RAG"
      [] mode = "AUTO" /\ ~numeric /\ ~documents /\ paths > 0 -> "GRAPH"
      [] OTHER -> "HYBRID"

Planned(strategy, metrics, paths) ==
    /\ inquiry' = [phase |-> "executing", metrics |-> metrics > 0, paths |-> paths,
                   ambiguous |-> metrics > 3]
    /\ branches' = [sql |-> [branches.sql EXCEPT
                        !.state = IF strategy \in {"SQL", "HYBRID"} THEN "working" ELSE "off"],
                    rag |-> [branches.rag EXCEPT
                        !.state = IF strategy \in {"RAG", "HYBRID"} THEN "working" ELSE "off"]]
    /\ UNCHANGED verdict

AsksBack ==
    /\ inquiry' = [inquiry EXCEPT !.phase = "answered", !.ambiguous = TRUE]
    /\ verdict' = [NoVerdict EXCEPT !.decision = "ASK_CLARIFICATION", !.status = "NEEDS_CLARIFICATION"]
    /\ UNCHANGED branches

PlanReasoning ==
    /\ inquiry.phase = "received" /\ CanRecord(1)
    /\ \E mode \in Modes, words, documents, enabled \in BOOLEAN, metrics \in {0, 1, 4}, paths \in PathCounts :
          IF metrics > 3 /\ enabled
          THEN AsksBack
          ELSE Planned(Strategy(mode, words \/ metrics > 0, documents, paths), metrics, paths)
    /\ Recorded(1)
    /\ UNCHANGED <<bundle, ledger>>
-----------------------------------------------------------------------------
(* The branches.  Each has its service, or does nothing; what it raises is *)
(* recorded as its failure.  The SQL branch needs a target, and commits    *)
(* the session with whatever is in it, or rolls it back; either branch may *)
(* leave a session that must be rolled back.  The evidence of a document   *)
(* branch is read from the answer in its result, where RAGService, which   *)
(* returns it beside the answer, leaves none.                              *)
Failing == ledgerTx' \in {ledgerTx, [ledgerTx EXCEPT !.ok = FALSE]} /\ UNCHANGED ledger

SqlEnds ==
    /\ inquiry.phase = "executing" /\ branches.sql.state = "working"
    /\ \/ /\ branches' = [branches EXCEPT !.sql.state = "none"]
          /\ UNCHANGED <<ledger, ledgerTx>>
       \/ /\ branches' = [branches EXCEPT !.sql.state = "failed"]
          /\ Failing
       \/ /\ \E n \in SqlNumbers : branches' = [branches EXCEPT !.sql = [state |-> "found", number |-> n]]
          /\ \/ ledgerTx.ok /\ ledger' = ledgerTx.rows /\ UNCHANGED ledgerTx
             \/ ledgerTx' = [rows |-> ledger, ok |-> TRUE] /\ UNCHANGED ledger
    /\ UNCHANGED <<inquiry, bundle, verdict>>

RagEnds ==
    /\ inquiry.phase = "executing" /\ branches.rag.state = "working"
    /\ \/ /\ branches' = [branches EXCEPT !.rag.state = "none"]
          /\ UNCHANGED <<ledger, ledgerTx>>
       \/ /\ branches' = [branches EXCEPT !.rag.state = "failed"]
          /\ Failing
       \/ /\ \E s \in DocumentNumbers :
                branches' = [branches EXCEPT !.rag = [state |-> "found", numbers |-> s]]
          /\ Failing
    /\ UNCHANGED <<inquiry, bundle, verdict>>

SomeBranchFailed == "failed" \in {branches.sql.state, branches.rag.state}
-----------------------------------------------------------------------------
(* The evidence, in the order it is put together, cut at MaxItems; each    *)
(* item has its tag, and the trust it is given times its confidence.       *)
EvidenceItem(kind, n, trust) == [tag |-> <<kind, n>>, trust |-> trust]
Collected ==
    LET sql == IF branches.sql.state = "found" THEN <<EvidenceItem("S", 1, 9800)>> ELSE <<>>
        documents == [i \in DOMAIN branches.rag.numbers |-> EvidenceItem("D", i, 8500)]
        paths == [i \in 1..inquiry.paths |-> EvidenceItem("G", i, 4875)]
        all == sql \o documents \o paths
    IN  SubSeq(all, 1, IF Len(all) < MaxItems THEN Len(all) ELSE MaxItems)

TagsOf(items) == {items[i].tag : i \in DOMAIN items}

(* Two numbers are in conflict if they differ by more than 5 and less than *)
(* 95 percent of the larger, severely if by more than 20.                  *)
Larger(a, b) == IF a > b THEN a ELSE b
Gap(a, b) == IF a > b THEN a - b ELSE b - a
Conflicting(a, b) ==
    a > 0 /\ b > 0 /\ 20 * Gap(a, b) > Larger(a, b) /\ 20 * Gap(a, b) < 19 * Larger(a, b)
Severe(a, b) == 5 * Gap(a, b) > Larger(a, b)

(* Of equal numbers the first is reported, and it alone loses its trust.   *)
Contested(items) ==
    LET numbers == branches.rag.numbers IN
    {i \in DOMAIN numbers :
        /\ {<<"S", 1>>, <<"D", i>>} \subseteq TagsOf(items)
        /\ Conflicting(branches.sql.number, numbers[i])
        /\ \A j \in 1..(i - 1) : numbers[j] # numbers[i]}

Collect ==
    LET items == Collected
        contested == Contested(items)
        high == {i \in contested : Severe(branches.sql.number, branches.rag.numbers[i])}
    IN
    /\ inquiry.phase = "executing" /\ CanRecord(2)
    /\ branches.sql.state # "working" /\ branches.rag.state # "working"
    /\ Recorded(2)
    /\ inquiry' = [inquiry EXCEPT !.phase = "generating"]
    /\ bundle' = [items |-> [i \in DOMAIN items |->
                       IF \E d \in contested : items[i].tag = <<"D", d>> THEN [items[i] EXCEPT !.trust = 0]
                       ELSE items[i]],
                  high |-> Cardinality(high), medium |-> Cardinality(contested \ high)]
    /\ UNCHANGED <<branches, ledger, verdict>>
-----------------------------------------------------------------------------
(* The text, as sentences with the tags they cite; a short one claims      *)
(* nothing.  The model cites what it likes.  Without it the first three    *)
(* items are quoted: tags stay in the sentence if the quotes are not       *)
(* punctuated, and slip into the next one if they are.  Without a gateway  *)
(* nothing is cited.                                                       *)
Sentence(cites, long) == [cites |-> cites, long |-> long]
Quoted(items) ==
    LET tags == [i \in 1..(IF Len(items) < 3 THEN Len(items) ELSE 3) |-> items[i].tag] IN
    {<<Sentence({tags[i] : i \in DOMAIN tags}, TRUE)>>,
     <<Sentence({}, TRUE)>> \o [i \in DOMAIN tags |-> Sentence({tags[i]}, i < Len(tags))]}
Written ==
    BoundedSeq({Sentence(c, long) : c \in {{}} \cup {{t} : t \in Citable}, long \in BOOLEAN}, 2)
AnswerTexts(items) ==
    IF items = <<>> THEN {<<Sentence({}, TRUE)>>}
    ELSE Written \cup Quoted(items) \cup {<<Sentence({}, TRUE)>>}

(* Tags of no item are struck out; a claim is supported if a tag is left.  *)
Repaired(text, items) == [i \in DOMAIN text |-> [text[i] EXCEPT !.cites = @ \cap TagsOf(items)]]
Claims(text) == {i \in DOMAIN text : text[i].long}
Supported(text) == {i \in Claims(text) : text[i].cites # {}}

TrustOf(items) == FoldLeft(LAMBDA total, item : total + item.trust, 0, items)

(* All that a repaired text cites is valid, which counts for a tenth.      *)
Confidence(claims, supported) ==
    LET n == Len(bundle.items)
        base == (IF claims = 0 THEN 2975 ELSE (3500 * supported) \div claims)
                + (25 * TrustOf(bundle.items)) \div (100 * n)
                + (IF inquiry.metrics THEN 1800 ELSE 1000) + (IF inquiry.paths > 0 THEN 800 ELSE 500)
                + 1000
        all == 2000 * bundle.high + 1000 * bundle.medium
        penalty == IF all < 6000 THEN all ELSE 6000
    IN  IF n = 0 \/ base < penalty THEN 0 ELSE base - penalty

DecisionOf(claims, supported, failed) ==
    LET confidence == Confidence(claims, supported) IN
    CASE inquiry.ambiguous -> "ASK_CLARIFICATION"
      [] ~inquiry.ambiguous /\ bundle.items = <<>> -> "INSUFFICIENT_EVIDENCE"
      [] ~inquiry.ambiguous /\ bundle.items # <<>> /\ 100 * supported < 65 * claims ->
            IF failed \/ Len(bundle.items) < 2 THEN "INSUFFICIENT_EVIDENCE" ELSE "PARTIAL_ANSWER"
      [] OTHER ->
            IF failed THEN "PARTIAL_ANSWER"
            ELSE IF bundle.high > 0 THEN "ANSWER_WITH_WARNING"
            ELSE IF confidence >= 7500 THEN "ANSWER"
            ELSE IF confidence >= 5000 THEN "ANSWER_WITH_WARNING" ELSE "PARTIAL_ANSWER"

(* Mutant: a failure of the document branch is forgiven.                    *)
DecisionOfSql(claims, supported) == DecisionOf(claims, supported, branches.sql.state = "failed")

Decision(claims, supported) == DecisionOf(claims, supported, SomeBranchFailed)

Status(decision) ==
    CASE decision = "PARTIAL_ANSWER" -> "PARTIAL"
      [] decision = "INSUFFICIENT_EVIDENCE" -> "INSUFFICIENT_EVIDENCE"
      [] OTHER -> "COMPLETED"

(* The messages of the conversation, if one is named, are flushed last: a  *)
(* flush that fails is passed over, though it leaves the session broken.   *)
Converses == ledgerTx' \in [rows : {ledgerTx.rows \cup {3}}, ok : BOOLEAN]

Answer ==
    /\ inquiry.phase = "generating" /\ CanRecord(3)
    /\ \E written \in AnswerTexts(bundle.items) :
          LET text == Repaired(written, bundle.items)
              claims == Cardinality(Claims(text))
              supported == Cardinality(Supported(text))
              decision == Decision(claims, supported)
          IN  verdict' = [decision |-> decision, status |-> Status(decision),
                          cites |-> UNION {text[i].cites : i \in DOMAIN text},
                          claims |-> claims, supported |-> supported]
    /\ Converses
    /\ inquiry' = [inquiry EXCEPT !.phase = "answered"]
    /\ UNCHANGED <<branches, bundle, ledger>>

OrchestrationNext ==
    \/ Receive \/ PlanReasoning \/ SqlEnds \/ RagEnds \/ Collect \/ Answer
    \/ InquiryFails \/ InquiryEnds

OrchestrationSpec == OrchestrationInit /\ [][OrchestrationNext]_orchestrationVars
-----------------------------------------------------------------------------
(* Whatever the branches found or lost and whatever the model wrote, an    *)
(* answer cites only evidence it was given; an unqualified one has no      *)
(* failed branch and no severe conflict behind it, and 65 percent of what  *)
(* it claims is supported; evidence is called insufficient only if there  *)
(* is none or a claim has none; and a failed branch is never passed over.  *)
(* Who is answered has the execution and its steps in the transaction,     *)
(* though a branch may have committed or rolled it back; no step is ever   *)
(* committed without its execution.                                        *)
DecisionsAreBacked ==
    /\ verdict.cites \subseteq TagsOf(bundle.items)
    /\ verdict.decision = "ANSWER" => bundle.high = 0
    /\ verdict.decision \in {"ANSWER", "ANSWER_WITH_WARNING"} =>
          /\ ~SomeBranchFailed /\ bundle.items # <<>>
          /\ 20 * verdict.supported >= 13 * verdict.claims
    /\ verdict.decision = "INSUFFICIENT_EVIDENCE" =>
          bundle.items = <<>> \/ verdict.supported < verdict.claims
    /\ verdict.status = "COMPLETED" /\ ~inquiry.ambiguous => ~SomeBranchFailed
    /\ inquiry.phase = "answered" =>
          ledgerTx.rows = (IF verdict.status = "NEEDS_CLARIFICATION" THEN {Execution, 1} ELSE 0..3)
    /\ \A rows \in {ledger, ledgerTx.rows} : rows # {} => Execution \in rows
=================================================================================
