--------------------------- MODULE DocumentPipeline ---------------------------
(***************************************************************************)
(* The stages that take one document from upload to the vector index       *)
(* (backend/app/ingestion/service.py, app/services/chunking.py,            *)
(* embedding_pipeline.py, vector_indexing.py, document.py) as requests and *)
(* worker jobs run them: in any order, at once, and cut short anywhere.    *)
(*                                                                         *)
(* Each stage is one transaction: it reads the row, checks its status,     *)
(* flushes a transient status, which takes the lock of the row, works,     *)
(* flushes the final status, and is committed by its caller.  An exception *)
(* flushes "failed" and is raised again, so that the caller rolls back:    *)
(* workers leave their session without a commit, get_db_session calls      *)
(* rollback.  Parsing commits "processing" and "failed" by itself.         *)
(* Object storage and Qdrant take part in no transaction.  Chunk ids are   *)
(* derived from the content (chunking/hashing.py), the ids of embedding    *)
(* rows are random, and deleting a chunk deletes its embeddings.  Chunks   *)
(* are embedded and upserted in batches, some of which may fail: the       *)
(* chunks of a document fall into parts.                                   *)
(***************************************************************************)
EXTENDS Naturals, FiniteSets

CONSTANTS Tasks,      \* stages executed at a time
          Contents,   \* what a parse or a chunker version may make of the file
          NoContent,
          Parts       \* batches the chunks are embedded and upserted in

ASSUME PipelineAssumption == NoContent \notin Contents

VARIABLES doc,        \* the committed documents row; what it names: the artifact's key, a collection
          artifact,   \* parsed.json in the object store
          stored,     \* the uploaded object exists
          chunks,     \* content of the document_chunks rows
          embeddings, \* the embedding rows: their content, parts completed, parts indexed
          points,     \* <<content, part>> whose vectors are in Qdrant
          task,       \* what each does: content it read, names in the row it loaded, parts
                      \* to index, and whether the embedding rows it read are still there
          rowLock,    \* tasks with an uncommitted change of the row
          overlap,    \* two tasks were under way at once (history)
          stray       \* vectors were written or purged by a task that did not finish (history)

pipelineVars == <<doc, artifact, stored, chunks, embeddings, points, task, rowLock, overlap, stray>>
stores == <<artifact, stored, chunks, embeddings, points>>

Kinds == {"parse", "chunk", "embed", "index", "delete"}
CommittedStatus == {"uploaded", "processing", "parsed", "chunked", "embedded", "indexed",
                    "failed", "deleted"}
Content == Contents \cup {NoContent}
NoEmbeddings == [content |-> NoContent, done |-> {}, indexed |-> {}]
Names == {"artifact", "collection"}
Waiting == [kind |-> "none", at |-> "idle", seen |-> NoContent, names |-> {}, parts |-> {}, rows |-> FALSE]

Under(t) == task[t].at # "idle"
Is(t, kind, at) == task[t].kind = kind /\ task[t].at = at
Step(t, at) == task' = [task EXCEPT ![t].at = at]
Over(t) == task' = [task EXCEPT ![t] = Waiting]
OverReplacing(t) ==
    task' = [u \in Tasks |-> IF u = t THEN Waiting ELSE [task[u] EXCEPT !.rows = FALSE]]
Free(t) == rowLock \subseteq {t}

PipelineTypeOK ==
    /\ doc \in [status : CommittedStatus, deleted : BOOLEAN, names : SUBSET Names]
    /\ artifact \in Content /\ chunks \in Content /\ points \subseteq Contents \X Parts
    /\ embeddings \in [content : Content, done : SUBSET Parts, indexed : SUBSET Parts]
    /\ embeddings.indexed \subseteq embeddings.done
    /\ \A t \in Tasks :
          /\ task[t].kind \in Kinds \cup {"none"} /\ task[t].seen \in Content
          /\ task[t].names \subseteq Names /\ task[t].parts \subseteq Parts /\ task[t].rows \in BOOLEAN
    /\ rowLock \subseteq Tasks /\ Cardinality(rowLock) <= 1
    /\ {stored, overlap, stray} \subseteq BOOLEAN

PipelineInit ==
    /\ doc = [status |-> "uploaded", deleted |-> FALSE, names |-> {}]
    /\ artifact = NoContent /\ stored = TRUE
    /\ chunks = NoContent /\ embeddings = NoEmbeddings /\ points = {}
    /\ task = [t \in Tasks |-> Waiting]
    /\ rowLock = {} /\ overlap = FALSE /\ stray = FALSE
-----------------------------------------------------------------------------
(* A task begins: it finds the document and reads what its stage needs.    *)
Needs(kind) ==
    CASE kind = "delete" -> Names [] kind \in {"chunk", "embed"} -> {"collection"} [] OTHER -> {}

Begins(t, kind, at, seen) ==
    /\ task[t] = Waiting /\ ~doc.deleted
    /\ task' = [task EXCEPT ![t] = [kind |-> kind, at |-> at, seen |-> seen, names |-> doc.names \cap Needs(kind),
                                     parts |-> IF kind = "index" THEN embeddings.done ELSE {},
                                     rows |-> kind = "index"]]
    /\ overlap' = (overlap \/ \E u \in Tasks : Under(u))
    /\ UNCHANGED <<doc, stores, rowLock, stray>>

(* The metadata column is written as it was loaded, with the additions of  *)
(* the stage: a collection another stage recorded meanwhile is forgotten.  *)
Saved(t, status) ==
    [doc EXCEPT !.status = status,
                !.names = (@ \ {"collection"}) \cup task[t].names]

(* ingest_document has no status check: any document is parsed again.      *)
BeginParse(t) == Begins(t, "parse", "mark", NoContent)

BeginChunk(t) ==
    /\ doc.status \in {"parsed", "chunked"} /\ artifact # NoContent
    /\ Begins(t, "chunk", "lock", artifact)

(* Without force nothing is done when every chunk has a completed one.     *)
BeginEmbed(t, force) ==
    /\ doc.status \in {"chunked", "embedded"} /\ chunks # NoContent
    /\ embeddings.done # Parts \/ force
    /\ Begins(t, "embed", "lock", chunks)

(* Likewise when every completed embedding is indexed.                     *)
BeginIndex(t, force) ==
    /\ doc.status \in {"embedded", "indexed"}
    /\ chunks # NoContent /\ embeddings.done # {}
    /\ embeddings.indexed # embeddings.done \/ force
    /\ Begins(t, "index", "lock", chunks)

BeginDelete(t) == Begins(t, "delete", "purge", NoContent)
-----------------------------------------------------------------------------
(* Parsing: "processing" is committed first; a missing object or a parser  *)
(* error is recorded by _mark_failed in a transaction of its own, even on  *)
(* a deleted document.                                                     *)
MarkProcessing(t) ==
    /\ Is(t, "parse", "mark") /\ Free(t)
    /\ doc' = [doc EXCEPT !.status = "processing"]
    /\ task' = [task EXCEPT ![t].at = "parse", ![t].names = doc.names \cap {"collection"}]
    /\ UNCHANGED <<stores, rowLock, overlap, stray>>

Parse(t) ==
    /\ Is(t, "parse", "parse")
    /\ \/ /\ stored
          /\ \E c \in Contents : artifact' = c
          /\ Step(t, "record")
       \/ Step(t, "fail") /\ UNCHANGED artifact
    /\ UNCHANGED <<doc, stored, chunks, embeddings, points, rowLock, overlap, stray>>

RecordParse(t) ==
    /\ \/ Is(t, "parse", "record") /\ doc' = [Saved(t, "parsed") EXCEPT !.names = @ \cup {"artifact"}]
       \/ Is(t, "parse", "fail") /\ doc' = [doc EXCEPT !.status = "failed"]
    /\ Free(t)
    /\ Over(t)
    /\ UNCHANGED <<stores, rowLock, overlap, stray>>
-----------------------------------------------------------------------------
(* Mutant: the row is written without waiting for its lock.                *)
LockRowAtOnce(t) ==
    /\ task[t].at = "lock"
    /\ rowLock' = rowLock \cup {t}
    /\ Step(t, "work")
    /\ UNCHANGED <<doc, stores, overlap, stray>>

(* The flush of the transient status: it waits for the lock of the row.    *)
LockRow(t) ==
    /\ task[t].at = "lock" /\ Free(t)
    /\ rowLock' = {t}
    /\ Step(t, "work")
    /\ UNCHANGED <<doc, stores, overlap, stray>>

Commits(t, row) ==
    /\ doc' = row
    /\ rowLock' = {}
    /\ UNCHANGED <<artifact, stored, overlap>>

(* Mutant: the chunks are replaced without the cascade to their            *)
(* embeddings.                                                             *)
ChunkCommitsAlone(t) ==
    /\ Is(t, "chunk", "work")
    /\ Commits(t, Saved(t, "chunked"))
    /\ chunks' = task[t].seen
    /\ Over(t)
    /\ UNCHANGED <<embeddings, points, stray>>

(* Chunks are replaced, and with them their embeddings.                    *)
ChunkCommits(t) ==
    /\ Is(t, "chunk", "work")
    /\ Commits(t, Saved(t, "chunked"))
    /\ chunks' = task[t].seen
    /\ embeddings' = NoEmbeddings
    /\ OverReplacing(t)
    /\ UNCHANGED <<points, stray>>

(* Embeddings are replaced; a chunk that is gone fails the foreign key.    *)
(* If the provider embeds no chunk at all, "failed" is committed.          *)
EmbedCommits(t) ==
    /\ Is(t, "embed", "work") /\ chunks = task[t].seen
    /\ \E done \in SUBSET Parts :
          /\ embeddings' = [content |-> chunks, done |-> done, indexed |-> {}]
          /\ Commits(t, Saved(t, IF done = {} THEN "failed" ELSE "embedded"))
    /\ OverReplacing(t)
    /\ UNCHANGED <<chunks, points, stray>>

(* The vectors reach Qdrant before anything is committed; the batches that *)
(* failed are left out.                                                    *)
Upsert(t) ==
    /\ Is(t, "index", "work")
    /\ \E taken \in SUBSET task[t].parts :
          /\ points' = points \cup {task[t].seen} \X taken
          /\ task' = [task EXCEPT ![t].at = "upserted", ![t].parts = taken]
    /\ UNCHANGED <<doc, artifact, stored, chunks, embeddings, rowLock, overlap, stray>>

Indexed(t) ==
    [Saved(t, IF task[t].parts = {} THEN "failed" ELSE "indexed") EXCEPT !.names = @ \cup {"collection"}]

(* The embedding rows read at the start are updated, if they still exist;  *)
(* the document is indexed when part of it is, and with any outcome its    *)
(* metadata names the Qdrant collection.                                   *)
IndexCommits(t) ==
    /\ Is(t, "index", "upserted")
    /\ Commits(t, Indexed(t))
    /\ embeddings' = IF task[t].rows THEN [embeddings EXCEPT !.indexed = task[t].parts] ELSE embeddings
    /\ Over(t)
    /\ UNCHANGED <<chunks, points, stray>>

(* An exception, or the death of the process: the transaction is undone.   *)
Abandon(t) ==
    /\ Under(t)
    /\ Over(t)
    /\ rowLock' = rowLock \ {t}
    /\ stray' = (stray \/ Is(t, "index", "upserted") \/ task[t].kind = "delete")
    /\ UNCHANGED <<doc, stores, overlap>>
-----------------------------------------------------------------------------
(* DELETE: the vectors are purged, if the row says where they are, then    *)
(* the objects it names, then the row is marked.  Errors are suppressed,   *)
(* but for those of the uploaded object.                                   *)
Purge(t) ==
    /\ Is(t, "delete", "purge")
    /\ \/ points' = (IF "collection" \in task[t].names THEN {} ELSE points) /\ UNCHANGED stray
       \/ stray' = TRUE /\ UNCHANGED points
    /\ Step(t, "objects")
    /\ UNCHANGED <<doc, artifact, stored, chunks, embeddings, rowLock, overlap>>

DeleteObjects(t) ==
    /\ Is(t, "delete", "objects") /\ ~doc.deleted
    /\ stored' = FALSE
    /\ \/ artifact' = (IF "artifact" \in task[t].names THEN NoContent ELSE artifact) /\ UNCHANGED stray
       \/ stray' = TRUE /\ UNCHANGED artifact
    /\ Step(t, "soft")
    /\ UNCHANGED <<doc, chunks, embeddings, points, rowLock, overlap>>

SoftDelete(t) ==
    /\ Is(t, "delete", "soft") /\ Free(t)
    /\ doc' = IF doc.deleted THEN doc ELSE [doc EXCEPT !.status = "deleted", !.deleted = TRUE]
    /\ Over(t)
    /\ UNCHANGED <<stores, rowLock, overlap, stray>>
-----------------------------------------------------------------------------
PipelineNext ==
    \E t \in Tasks :
       \/ BeginParse(t) \/ BeginChunk(t) \/ BeginDelete(t)
       \/ \E force \in BOOLEAN : BeginEmbed(t, force) \/ BeginIndex(t, force)
       \/ MarkProcessing(t) \/ Parse(t) \/ RecordParse(t)
       \/ LockRow(t) \/ ChunkCommits(t) \/ EmbedCommits(t) \/ Upsert(t) \/ IndexCommits(t)
       \/ Purge(t) \/ DeleteObjects(t) \/ SoftDelete(t)
       \/ Abandon(t)

PipelineSpec == PipelineInit /\ [][PipelineNext]_pipelineVars
-----------------------------------------------------------------------------
Deleting == \E t \in Tasks : Under(t) /\ task[t].kind = "delete"

(* Embedding rows always describe the chunks that are there, whatever      *)
(* stages overlap: the cascade and the foreign key keep it, no status does.*)
(* The status says what the stores hold, as long as stages do not overlap  *)
(* and no deletion stops half way: through failures, deaths, partial       *)
(* batches, repeated and forced stages in any order.  An embedding marked  *)
(* indexed has its vector in Qdrant, and a deleted document has left       *)
(* nothing behind: neither the objects it names nor a vector.              *)
StoresAreTrue ==
    /\ embeddings # NoEmbeddings => embeddings.content = chunks
    /\ ~overlap /\ ~stray /\ ~Deleting =>
       /\ doc.status = "parsed" => artifact # NoContent
       /\ doc.status = "chunked" => chunks # NoContent /\ embeddings = NoEmbeddings
       /\ doc.status \in {"embedded", "indexed"} => chunks # NoContent /\ embeddings.done # {}
       /\ doc.status = "indexed" => embeddings.indexed # {}
       /\ ~doc.deleted => {chunks} \X embeddings.indexed \subseteq points
       /\ doc.deleted => points = {} /\ ~stored /\ ("artifact" \in doc.names => artifact = NoContent)
=============================================================================
