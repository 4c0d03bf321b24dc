------------------------------ MODULE MCDocuments ------------------------------
(***************************************************************************)
(* The life of documents and what is asked of them: their upload, the      *)
(* stages that index one, each by workers with transactions of their own,  *)
(* the chunker and the searches of the knowledge graph, computations cut   *)
(* into steps, a question to the analyst and one to the orchestration, the *)
(* embedding of texts by callers that share a cache, and the windows that  *)
(* limit how often is asked.  They share no state: a behaviour is about    *)
(* one of them, its subject.                                               *)
(***************************************************************************)
EXTENDS DocumentUpload, DocumentPipeline, Chunker, GraphSearch, AnalystAnswer,
        AnswerOrchestration, EmbeddingBatches, RateWindows, TLC

CONSTANTS t1, t2

(* The workers of the stages are interchangeable, and so are the callers.  *)
MCTasks == {t1, t2}
Identities == Permutations(MCTasks)

VARIABLE subject

(* Documents as the parsers write them: text in one section or two, pages, *)
(* with tables that are blocks as well, and tables alone.  Among the       *)
(* blocks are texts of several paragraphs, sentences and words, items and  *)
(* rows too long for a chunk, a word too long for it, words joined by      *)
(* underscores, in sentences that are cut and that are not, equal blocks,  *)
(* rows of more and of fewer cells than the header has, and tables without *)
(* header, without rows and without both.                                  *)
MCPiece(name, len, glued) == [name |-> name, part |-> 1, len |-> len, glued |-> glued]
MCText(name, n) == [i \in 1..n |-> MCPiece(name, 4, FALSE)]
MCSnake(name, len, n) ==
    [i \in 1..(2 * n - 1) |-> IF i % 2 = 0 THEN MCPiece("_", 1, TRUE) ELSE MCPiece(name, len, i > 1)]
MCBlock(type, level, lines) == [type |-> type, level |-> level, lines |-> lines]
MCHeading(name, level) == MCBlock("heading", level, << <<MCText(name, 1)>> >>)
MCBlocks ==
    {MCHeading(name, level) : name \in {"A", "B"}, level \in {1, 2}} \cup
    {MCBlock("paragraph", 0, lines) : lines \in
        { << <<MCSnake("r", 8, 4)>> >>,
          << <<MCText("r", 3), MCText("s", 3), MCText("t", 4)>>, <<MCText("u", 2)>> >>,
          << <<MCText("r", 2), MCText("s", 9) \o MCSnake("s", 4, 4), MCText("t", 2)>> >>,
          << <<MCSnake("s", 8, 12)>> >>,
          << <<Append(MCText("r", 2), MCPiece("word", 100, FALSE))>> >> }} \cup
    {MCBlock("list", 0, <<items>>) : items \in
        { <<MCText("r", 3), MCText("s", 3), MCText("t", 1)>>, <<MCText("r", 2), MCText("s", 13)>> }} \cup
    {MCBlock("table", 0, << << MCText("head", 2) \o MCText("cell", 6) >> >>)}
MCCells(name, n) == [i \in 1..n |-> MCText(name, 1)]
MCTable(columns, cells, page) ==
    [header |-> MCCells("head", columns), rows |-> [i \in DOMAIN cells |-> MCCells("cell", cells[i])],
     page |-> page, sheet |-> MCText("Tables", 1)]
MCTables(blocks, page) ==
    [i \in DOMAIN SelectSeq(blocks, LAMBDA b : b.type = "table") |-> MCTable(2, <<1, 3, 2>>, page)]
MCSheets == {MCTable(columns, cells, 0) : columns \in {0, 2, 7}, cells \in {<<>>, <<1, 3, 2>>, <<2>>}}
MCGroup(name, level, page, blocks) ==
    [title |-> MCText(name, 1), level |-> level, page |-> page, blocks |-> blocks,
     tables |-> MCTables(blocks, page)]
MCDocument(layout, groups) ==
    [layout |-> layout, groups |-> groups, title |-> MCText("title", 1),
     tables |-> FlattenSeq([i \in DOMAIN groups |-> groups[i].tables])]
MCDocuments ==
    LET upTo(n) == BoundedSeq(MCBlocks, n) IN
    {MCDocument("sections", <<MCGroup("Content", 1, 0, s)>>) : s \in upTo(3)} \cup
    {MCDocument("sections", <<MCGroup("Introduction", 1, 0, s),
                              MCGroup("B", 2, 0, <<MCHeading("B", 2)>> \o t)>>) :
        s \in upTo(2), t \in upTo(1)} \cup
    {MCDocument("pages", <<MCGroup("", 1, 1, s), MCGroup("", 1, 2, t)>>) :
        s \in upTo(2), t \in upTo(1)} \cup
    {[MCDocument("none", <<>>) EXCEPT !.tables = s] : s \in BoundedSeq(MCSheets, 2)}

(* Two triangles that share an edge, a pair of opposite edges and a loop:  *)
(* every subset of them is a graph that is searched.                       *)
MCPairs == {<<1, 2>>, <<2, 3>>, <<3, 4>>, <<4, 1>>, <<2, 1>>, <<1, 3>>, <<3, 3>>}

(* A retrieval finds up to four of four chunks, of two documents.          *)
MCRetrieved ==
    BoundedSeq([chunk : {1, 2}, document : {"d"}, good : {TRUE}] \cup
               [chunk : {3, 4}, document : {"e"}, good : BOOLEAN], 4)

(* Documents agree with the number of the database, differ from it a bit   *)
(* or by much, or have nothing to do with it.                              *)
MCDocumentNumbers == {<<>>, <<100>>, <<110>>, <<150, 1>>, <<150, 150>>}
MCCitable == {<<"S", 1>>, <<"D", 1>>, <<"D", 2>>, <<"G", 1>>, <<"G", 2>>}

(* Batches of two: a text in two batches, one twice, one that is unfit.    *)
MCInputs == {<<"x">>, <<"x", "y", "x">>, <<"y", "long", "x">>}

(* Two requests of one user, one of another.                               *)
MCCallers == MCTasks \cup {"c"}
MCUserOf == [r \in MCCallers |-> IF r = "c" THEN "u2" ELSE "u1"]

life == <<uploadVars, pipelineVars, chunkerVars>>
questions == <<graphVars, analystVars, orchestrationVars>>
limits == <<embeddingVars, rateVars>>
use == <<questions, limits>>

Init ==
    /\ subject \in {"upload", "stages", "chunks", "graph", "analyst", "orchestration",
                   "embedding", "limits"}
    /\ UploadInit /\ PipelineInit /\ ChunkerInit /\ GraphInit /\ AnalystInit
    /\ OrchestrationInit /\ EmbeddingInit /\ RateInit

Next ==
    /\ UNCHANGED subject
    /\ \/ subject = "upload" /\ UploadNext /\ UNCHANGED <<pipelineVars, chunkerVars, use>>
       \/ subject = "stages" /\ PipelineNext /\ UNCHANGED <<uploadVars, chunkerVars, use>>
       \/ subject = "chunks" /\ ChunkerNext /\ UNCHANGED <<uploadVars, pipelineVars, use>>
       \/ subject = "graph" /\ GraphNext
             /\ UNCHANGED <<life, analystVars, orchestrationVars, limits>>
       \/ subject = "analyst" /\ AnalystNext
             /\ UNCHANGED <<life, graphVars, orchestrationVars, limits>>
       \/ subject = "orchestration" /\ OrchestrationNext
             /\ UNCHANGED <<life, graphVars, analystVars, limits>>
       \/ subject = "embedding" /\ EmbeddingNext /\ UNCHANGED <<life, questions, rateVars>>
       \/ subject = "limits" /\ RateNext /\ UNCHANGED <<life, questions, embeddingVars>>

Spec == Init /\ [][Next]_<<subject, life, use>>

(* A bound: batches that fail are followed while stages do not overlap.    *)
Entire(parts) == parts \in {{}, Parts}
WholeBatchesOverlap ==
    overlap =>
       /\ Entire(embeddings.done) /\ Entire(embeddings.indexed)
       /\ \A c \in Contents : Entire({p \in Parts : <<c, p>> \in points})
       /\ \A t \in Tasks : Entire(task[t].parts)

(* Whoever dies or overlaps, a name is held by one live document, a row by *)
(* one transaction at a time, and statuses are those of the code.          *)
DocumentsTypeOK ==
    /\ UploadTypeOK /\ PipelineTypeOK /\ AnalystTypeOK /\ OrchestrationTypeOK
    /\ EmbeddingTypeOK /\ RateTypeOK
================================================================================
