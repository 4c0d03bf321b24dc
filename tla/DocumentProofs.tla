--------------------------- MODULE DocumentProofs ---------------------------
(***************************************************************************)
(* Documents and what is asked of them, for any number of requests:        *)
(* uploads with their objects, and stages that take a document through     *)
(* stores which no one transaction covers; embedding calls that share a    *)
(* cache and wait for batches that end in any order; and the windows that  *)
(* limit how often users and organizations may ask.                        *)
(***************************************************************************)
EXTENDS DocumentUpload, DocumentPipeline, EmbeddingBatches, RateWindows, AnswerOrchestration,
        SequenceTheorems, FiniteSetTheorems, TLAPS
-----------------------------------------------------------------------------
(***************************************************************************)
(* Uploads and their objects.                                              *)
(***************************************************************************)
LostBy == [deaths : 0..MaxUploadDeaths, faults : 0..MaxUploadFaults, orphans : SUBSET Uploads]

(* An object is there from its saving on until its row or its cleanup      *)
(* takes it away.                                                          *)
ObjectsAreKept ==
    \A u \in Uploads :
       /\ upload[u] \in {"insert", "undo"} => u \in objects
       /\ removal[u] \in {"row", "removed"} => u \notin objects

UploadInv == UploadTypeOK /\ ObjectsAreKept /\ ObjectsFollowRows
-----------------------------------------------------------------------------
LEMMA UploadInitInv == UploadInit => UploadInv
  <1> SUFFICES ASSUME UploadInit  PROVE UploadInv
    OBVIOUS
  <1>1. [deaths |-> 0, faults |-> 0, orphans |-> {}] \in LostBy
    BY UploadAssumption DEF LostBy
  <1> QED
    BY <1>1 DEF UploadInit, UploadInv, UploadTypeOK, LostBy, ObjectsAreKept, ObjectsFollowRows, Active

(* The steps of an upload on its own row: its place and its object.        *)
LEMMA UploadGoesOn ==
  ASSUME UploadInv, NEW u \in Uploads, NEW at, UploadGoes(u, at),
         at \in {"new", "save", "insert", "undo", "duplicate", "error", "dead"},
         upload[u] # "created", removal' = removal,
         lostBy' \in LostBy, lostBy.orphans \subseteq lostBy'.orphans,
         \A v \in Uploads \ {u} : v \in objects' <=> v \in objects,
         objects' \subseteq Uploads,
         at \in {"insert", "undo"} => u \in objects',
         at \notin {"insert", "undo"} => u \notin objects' \ lostBy'.orphans
  PROVE  UploadInv'
  <1>1. /\ upload' \in [Uploads -> {"new", "save", "insert", "undo", "created", "duplicate", "error", "dead"}]
        /\ upload'[u] = at /\ \A v \in Uploads \ {u} : upload'[v] = upload[v]
    BY DEF UploadGoes, UploadInv, UploadTypeOK
  <1>2. removal[u] = "none" /\ ~Active(u) /\ ~Active(u)'
    BY <1>1 DEF UploadInv, UploadTypeOK, Active
  <1>3. \A v \in Uploads : Active(v)' <=> Active(v)
    BY <1>1, <1>2 DEF Active
  <1>4. UploadTypeOK'
    BY <1>1, <1>2 DEF UploadInv, UploadTypeOK, LostBy
  <1>5. ObjectsAreKept'
    BY <1>1, <1>2 DEF UploadInv, ObjectsAreKept
  <1>6. ObjectsFollowRows'
    BY <1>1, <1>2, <1>3 DEF UploadInv, ObjectsFollowRows
  <1> QED
    BY <1>4, <1>5, <1>6 DEF UploadInv

(* Orphans are added, never taken back.                                    *)
LEMMA FaultAdds ==
  ASSUME UploadInv, NEW more \in SUBSET Uploads, Faulty, Fault(more)
  PROVE  lostBy' \in LostBy /\ lostBy'.orphans = lostBy.orphans \cup more
  <1>1. lostBy \in LostBy
    BY DEF UploadInv, UploadTypeOK, LostBy
  <1>2. lostBy.faults + 1 \in 0..MaxUploadFaults /\ lostBy.orphans \cup more \in SUBSET Uploads
    BY <1>1, UploadAssumption DEF LostBy, Faulty
  <1>3. lostBy' = [lostBy EXCEPT !.faults = @ + 1, !.orphans = @ \cup more]
    BY DEF Fault
  <1> QED
    BY <1>1, <1>2, <1>3 DEF LostBy

LEMMA UploadStepKeeps ==
  ASSUME UploadInv, NEW u \in Uploads,
         \/ LookUpChecksum(u) \/ SaveObject(u) \/ InsertConflicts(u)
         \/ InsertRaises(u) \/ UndoObject(u) \/ UploadDies(u)
  PROVE  UploadInv'
  <1>1. lostBy \in LostBy /\ objects \subseteq Uploads
    BY DEF UploadInv, UploadTypeOK, LostBy
  <1>2. CASE LookUpChecksum(u)
    BY <1>1, <1>2, UploadGoesOn DEF LookUpChecksum, UploadInv, ObjectsFollowRows, Active
  <1>3. CASE SaveObject(u)
    BY <1>1, <1>3, UploadGoesOn DEF SaveObject
  <1>4. CASE InsertConflicts(u)
    BY <1>1, <1>4, UploadGoesOn DEF InsertConflicts, UploadInv, ObjectsAreKept
  <1>5. CASE InsertRaises(u)
    BY <1>1, <1>5, FaultAdds, UploadGoesOn DEF InsertRaises, UploadInv, ObjectsAreKept
  <1>6. CASE UndoObject(u)
    <2>1. upload[u] = "undo" /\ UploadGoes(u, "error") /\ removal' = removal
      BY <1>6 DEF UndoObject
    <2>2. CASE objects' = objects \ {u} /\ lostBy' = lostBy
      BY <1>1, <2>1, <2>2, UploadGoesOn
    <2>3. CASE Faulty /\ Fault({u}) /\ objects' = objects
      BY <1>1, <2>1, <2>3, FaultAdds, UploadGoesOn
    <2> QED
      BY <1>6, <2>2, <2>3 DEF UndoObject
  <1>7. CASE UploadDies(u)
    <2>1. lostBy' \in LostBy /\ lostBy'.orphans = lostBy.orphans \cup ({u} \cap objects)
      <3>1. lostBy.deaths + 1 \in 0..MaxUploadDeaths /\ lostBy.orphans \cup ({u} \cap objects) \in SUBSET Uploads
        BY <1>1, <1>7, UploadAssumption DEF UploadDies, LostBy
      <3>2. lostBy' = [lostBy EXCEPT !.deaths = @ + 1, !.orphans = @ \cup ({u} \cap objects)]
        BY <1>7 DEF UploadDies
      <3> QED
        BY <1>1, <3>1, <3>2 DEF LostBy
    <2> QED
      BY <1>1, <1>7, <2>1, UploadGoesOn DEF UploadDies
  <1> QED
    BY <1>2, <1>3, <1>4, <1>5, <1>6, <1>7

LEMMA InsertRowKeeps ==
  ASSUME UploadInv, NEW u \in Uploads, InsertRow(u)
  PROVE  UploadInv'
  <1>1. /\ upload[u] = "insert" /\ UploadGoes(u, "created") /\ \A v \in Uploads : ~Active(v)
        /\ UNCHANGED <<removal, objects, lostBy>>
    BY DEF InsertRow
  <1>2. /\ upload' \in [Uploads -> {"new", "save", "insert", "undo", "created", "duplicate", "error", "dead"}]
        /\ upload'[u] = "created" /\ \A v \in Uploads \ {u} : upload'[v] = upload[v]
    BY <1>1 DEF UploadGoes, UploadInv, UploadTypeOK
  <1>3. u \in objects /\ removal[u] = "none"
    BY <1>1 DEF UploadInv, UploadTypeOK, ObjectsAreKept
  <1>4. \A v \in Uploads : Active(v)' <=> v = u
    BY <1>1, <1>2, <1>3 DEF Active
  <1>5. UploadTypeOK' /\ ObjectsAreKept'
    BY <1>1, <1>2, <1>3 DEF UploadInv, UploadTypeOK, ObjectsAreKept
  <1>6. ObjectsFollowRows'
    BY <1>1, <1>2, <1>3, <1>4 DEF UploadInv, UploadTypeOK, ObjectsFollowRows
  <1> QED
    BY <1>5, <1>6 DEF UploadInv

LEMMA RemovalKeeps ==
  ASSUME UploadInv, NEW u \in Uploads,
         BeginRemoval(u) \/ RemoveObject(u) \/ SoftDeleteRow(u) \/ RemovalFails(u)
  PROVE  UploadInv'
  <1>1. upload' = upload /\ upload[u] = "created" /\ \A v \in Uploads \ {u} : removal'[v] = removal[v]
    BY DEF BeginRemoval, RemoveObject, SoftDeleteRow, RemovalFails, UploadInv, UploadTypeOK, Active
  <1>2. removal \in [Uploads -> {"none", "object", "row", "removed"}] /\ lostBy \in LostBy
        /\ objects \subseteq Uploads
    BY DEF UploadInv, UploadTypeOK, LostBy
  <1>3. CASE BeginRemoval(u)
    <2>1. removal'[u] = "object" /\ removal[u] = "none" /\ objects' = objects /\ lostBy' = lostBy
          /\ removal' \in [Uploads -> {"none", "object", "row", "removed"}]
      BY <1>2, <1>3 DEF BeginRemoval
    <2>2. \A v \in Uploads : Active(v)' <=> Active(v)
      BY <1>1, <2>1 DEF Active
    <2> QED
      BY <1>1, <1>2, <2>1, <2>2 DEF UploadInv, UploadTypeOK, ObjectsAreKept, ObjectsFollowRows
  <1>4. CASE RemoveObject(u)
    <2>1. removal'[u] = "row" /\ removal[u] = "object" /\ objects' = objects \ {u} /\ lostBy' = lostBy
          /\ removal' \in [Uploads -> {"none", "object", "row", "removed"}]
      BY <1>2, <1>4 DEF RemoveObject
    <2>2. \A v \in Uploads : Active(v)' <=> Active(v)
      BY <1>1, <2>1 DEF Active
    <2> QED
      BY <1>1, <1>2, <2>1, <2>2 DEF UploadInv, UploadTypeOK, ObjectsAreKept, ObjectsFollowRows
  <1>5. CASE SoftDeleteRow(u)
    <2>1. removal'[u] = "removed" /\ removal[u] = "row" /\ objects' = objects /\ lostBy' = lostBy
          /\ removal' \in [Uploads -> {"none", "object", "row", "removed"}]
      BY <1>2, <1>5 DEF SoftDeleteRow
    <2>2. u \notin objects
      BY <2>1 DEF UploadInv, ObjectsAreKept
    <2>3. \A v \in Uploads : Active(v)' <=> Active(v) /\ v # u
      BY <1>1, <2>1 DEF Active
    <2> QED
      BY <1>1, <1>2, <2>1, <2>2, <2>3 DEF UploadInv, UploadTypeOK, ObjectsAreKept, ObjectsFollowRows
  <1>6. CASE RemovalFails(u)
    <2>1. removal'[u] = "none" /\ removal[u] \in {"object", "row"} /\ objects' = objects
          /\ removal' \in [Uploads -> {"none", "object", "row", "removed"}]
      BY <1>2, <1>6 DEF RemovalFails
    <2>2. lostBy' \in LostBy /\ lostBy'.orphans = lostBy.orphans \cup ({u} \ objects)
      BY <1>6, FaultAdds DEF RemovalFails
    <2>3. \A v \in Uploads : Active(v)' <=> Active(v)
      BY <1>1, <2>1 DEF Active
    <2>4. UploadTypeOK' /\ ObjectsAreKept'
      BY <1>1, <1>2, <2>1, <2>2 DEF UploadInv, UploadTypeOK, LostBy, ObjectsAreKept
    <2>5. ObjectsFollowRows'
      BY <1>1, <1>2, <2>1, <2>2, <2>3 DEF UploadInv, ObjectsFollowRows
    <2> QED
      BY <2>4, <2>5 DEF UploadInv
  <1> QED
    BY <1>3, <1>4, <1>5, <1>6

LEMMA UploadStep == UploadInv /\ [UploadNext]_uploadVars => UploadInv'
  <1> SUFFICES ASSUME UploadInv, [UploadNext]_uploadVars  PROVE UploadInv'
    OBVIOUS
  <1>1. ASSUME NEW u \in Uploads,
               \/ LookUpChecksum(u) \/ SaveObject(u) \/ InsertConflicts(u)
               \/ InsertRaises(u) \/ UndoObject(u) \/ UploadDies(u)
        PROVE  UploadInv'
    BY <1>1, UploadStepKeeps
  <1>2. ASSUME NEW u \in Uploads,
               \/ InsertRow(u)
               \/ BeginRemoval(u) \/ RemoveObject(u) \/ SoftDeleteRow(u) \/ RemovalFails(u)
        PROVE  UploadInv'
    BY <1>2, InsertRowKeeps, RemovalKeeps
  <1>3. CASE UNCHANGED uploadVars
    BY <1>3 DEF uploadVars, UploadInv, UploadTypeOK, ObjectsAreKept, ObjectsFollowRows, Active
  <1> QED
    BY <1>1, <1>2, <1>3 DEF UploadNext

(* One active row per content, an object behind every active row, and no   *)
(* object that belongs to nothing, for any number of uploads, deletions,   *)
(* deaths and faults (upload_document, delete_document).                   *)
THEOREM UploadsKeepStoresTogether == UploadSpec => []ObjectsFollowRows
  <1>1. UploadInv => ObjectsFollowRows
    BY DEF UploadInv
  <1> QED
    BY <1>1, UploadInitInv, UploadStep, PTL DEF UploadSpec
-----------------------------------------------------------------------------
(***************************************************************************)
(* The stages of a document.                                               *)
(***************************************************************************)
StagePlaces == {"idle", "mark", "parse", "record", "fail", "lock", "work", "upserted", "purge", "objects", "soft"}
StageCalls ==
    [kind : Kinds \cup {"none"}, at : StagePlaces, seen : Content, names : SUBSET Names, parts : SUBSET Parts,
     rows : BOOLEAN]
EmbeddingTables == [content : Content, done : SUBSET Parts, indexed : SUBSET Parts]
DocumentRows == [status : CommittedStatus, deleted : BOOLEAN, names : SUBSET Names]

PipelineTablesOK ==
    /\ doc \in DocumentRows /\ artifact \in Content /\ chunks \in Content /\ points \subseteq Contents \X Parts
    /\ embeddings \in EmbeddingTables /\ embeddings.indexed \subseteq embeddings.done
    /\ task \in [Tasks -> StageCalls]
    /\ rowLock = {} \/ \E t \in Tasks : rowLock = {t}
    /\ {stored, overlap, stray} \subseteq BOOLEAN

At(x, kind, at) == x.kind = kind /\ x.at = at
SameName(row, x, name) == name \in x.names <=> name \in row.names

(* The rows a stage has read are those of the chunks it has read, as long  *)
(* as they are there.                                                      *)
StageReads(x, content, table) ==
    /\ x.kind \in {"chunk", "embed", "index"} => x.seen \in Contents
    /\ x.kind = "index" /\ x.rows => x.seen = content /\ table.done # {} /\ x.parts \subseteq table.done

(* What a stage that runs alone may rely on, and a deletion has done.      *)
StageAlone(x, row, key, object, vectors) ==
    /\ ~row.deleted
    /\ x.kind = "index" => x.rows
    /\ At(x, "index", "upserted") => {x.seen} \X x.parts \subseteq vectors
    /\ x.kind \in {"chunk", "embed", "delete"} \/ (x.kind = "parse" /\ x.at # "mark")
          => SameName(row, x, "collection")
    /\ x.kind = "delete" => SameName(row, x, "artifact")
    /\ At(x, "parse", "record") => key # NoContent
    /\ x.kind = "delete" /\ x.at \in {"objects", "soft"} => vectors = {}
    /\ At(x, "delete", "soft") => ~object /\ ("artifact" \in row.names => key = NoContent)

(* What the status says, what a deletion leaves, and where vectors are.    *)
StatusTells(row, key, content, table, vectors) ==
    /\ row.status = "parsed" => key # NoContent
    /\ row.status = "chunked" => content # NoContent /\ table = NoEmbeddings
    /\ row.status \in {"embedded", "indexed"} => content # NoContent /\ table.done # {}
    /\ row.status = "indexed" => table.indexed # {}
    /\ ~row.deleted => {content} \X table.indexed \subseteq vectors
NothingLeft(row, key, object, vectors) ==
    row.deleted => vectors = {} /\ ~object /\ ("artifact" \in row.names => key = NoContent)

Calm == ~overlap /\ ~stray
StoresInv ==
    /\ PipelineTablesOK
    /\ embeddings # NoEmbeddings => embeddings.content = chunks
    /\ \A t \in Tasks : StageReads(task[t], chunks, embeddings)
    /\ ~overlap => \A t, u \in Tasks : Under(t) /\ Under(u) => t = u
    /\ Calm =>
       /\ \A t \in Tasks : Under(t) => StageAlone(task[t], doc, artifact, stored, points)
       /\ ~Deleting => StatusTells(doc, artifact, chunks, embeddings, points)
       /\ NothingLeft(doc, artifact, stored, points)
       /\ points # {} => "collection" \in doc.names \/ \E t \in Tasks : Is(t, "index", "upserted")

LEMMA StoresInvImplies == StoresInv => PipelineTypeOK /\ StoresAreTrue
  <1> SUFFICES ASSUME StoresInv  PROVE PipelineTypeOK /\ StoresAreTrue
    OBVIOUS
  <1>1. Cardinality(rowLock) <= 1
    <2>1. rowLock = {} \/ \E t \in Tasks : rowLock = {t}
      BY DEF StoresInv, PipelineTablesOK
    <2>2. CASE rowLock = {}
      BY <2>2, FS_EmptySet
    <2>3. ASSUME NEW t \in Tasks, rowLock = {t}  PROVE Cardinality(rowLock) <= 1
      <3>1. Cardinality({t}) = 1
        BY FS_Singleton
      <3> QED
        BY <2>3, <3>1
    <2> QED
      BY <2>1, <2>2, <2>3
  <1>2. PipelineTypeOK
    BY <1>1 DEF StoresInv, PipelineTablesOK, PipelineTypeOK, StageCalls, DocumentRows, EmbeddingTables
  <1>3. StoresAreTrue
    BY DEF StoresInv, StoresAreTrue, Calm, StatusTells, NothingLeft
  <1> QED
    BY <1>2, <1>3

LEMMA StoresInitInv == PipelineInit => StoresInv
  <1> SUFFICES ASSUME PipelineInit  PROVE StoresInv
    OBVIOUS
  <1>1. Waiting \in StageCalls
    BY DEF Waiting, StageCalls, StagePlaces, Content
  <1>2. PipelineTablesOK
    BY <1>1 DEF PipelineInit, PipelineTablesOK, DocumentRows, EmbeddingTables, CommittedStatus, NoEmbeddings, Content
  <1>3. \A t \in Tasks : task[t] = Waiting /\ ~Under(t)
    BY DEF PipelineInit, Waiting, Under
  <1>4. \A t \in Tasks : StageReads(task[t], chunks, embeddings)
    BY <1>3 DEF StageReads, Waiting
  <1> QED
    BY <1>2, <1>3, <1>4, PipelineAssumption
       DEF PipelineInit, StoresInv, StatusTells, NothingLeft, NoEmbeddings

(* What a stage knows that runs alone.                                     *)
LEMMA StageKnows ==
  ASSUME StoresInv, NEW t \in Tasks, Under(t)
  PROVE  /\ task[t] \in StageCalls /\ StageReads(task[t], chunks, embeddings)
         /\ Calm => /\ StageAlone(task[t], doc, artifact, stored, points) /\ ~doc.deleted
                    /\ task[t].kind # "delete" => StatusTells(doc, artifact, chunks, embeddings, points)
                    /\ points # {} => "collection" \in doc.names \/ At(task[t], "index", "upserted")
  <1>1. task[t] \in StageCalls /\ StageReads(task[t], chunks, embeddings)
    BY DEF StoresInv, PipelineTablesOK
  <1>2. ASSUME Calm
        PROVE  /\ StageAlone(task[t], doc, artifact, stored, points) /\ ~doc.deleted
               /\ task[t].kind # "delete" => StatusTells(doc, artifact, chunks, embeddings, points)
               /\ points # {} => "collection" \in doc.names \/ At(task[t], "index", "upserted")
    <2>1. StageAlone(task[t], doc, artifact, stored, points) /\ ~doc.deleted
      BY <1>2 DEF StoresInv, StageAlone
    <2>2. \A u \in Tasks : Under(u) => u = t
      BY <1>2 DEF StoresInv, Calm
    <2>3. task[t].kind # "delete" => StatusTells(doc, artifact, chunks, embeddings, points)
      BY <1>2, <2>2 DEF StoresInv, Deleting
    <2>4. \A u \in Tasks : Is(u, "index", "upserted") => Under(u)
      BY DEF Is, Under
    <2>5. points # {} => "collection" \in doc.names \/ At(task[t], "index", "upserted")
      BY <1>2, <2>2, <2>4 DEF StoresInv, Is, At
    <2> QED
      BY <2>1, <2>3, <2>5
  <1> QED
    BY <1>1, <1>2

Off(x) == [x EXCEPT !.rows = FALSE]
Becomes(t, x) == task' = [task EXCEPT ![t] = x]
BecomesAlone(t, x) == task' = [u \in Tasks |-> IF u = t THEN x ELSE Off(task[u])]
TablesStay == chunks' = chunks /\ embeddings'.done = embeddings.done

(* What is to show of a step of a stage that is under way.                 *)
LEMMA StageStep ==
  ASSUME StoresInv, NEW t \in Tasks, Under(t), NEW x \in StageCalls,
         (Becomes(t, x) /\ TablesStay) \/ BecomesAlone(t, x),
         doc' \in DocumentRows, artifact' \in Content, chunks' \in Content, points' \subseteq Contents \X Parts,
         embeddings' \in EmbeddingTables, embeddings'.indexed \subseteq embeddings'.done,
         rowLock' = {} \/ \E u \in Tasks : rowLock' = {u}, stored' \in BOOLEAN, stray' \in BOOLEAN,
         overlap' = overlap, stray => stray',
         embeddings' # NoEmbeddings => embeddings'.content = chunks',
         StageReads(x, chunks', embeddings'),
         Calm' => /\ x.at # "idle" => StageAlone(x, doc', artifact', stored', points')
                  /\ x.at = "idle" \/ x.kind # "delete" =>
                        StatusTells(doc', artifact', chunks', embeddings', points')
                  /\ NothingLeft(doc', artifact', stored', points')
                  /\ points' # {} => "collection" \in doc'.names \/ At(x, "index", "upserted")
  PROVE  StoresInv'
  <1>1. task \in [Tasks -> StageCalls] /\ overlap \in BOOLEAN
    BY DEF StoresInv, PipelineTablesOK
  <1>2. \A y \in StageCalls : /\ Off(y) \in StageCalls /\ Off(y).at = y.at /\ Off(y).kind = y.kind
                              /\ Off(y).seen = y.seen /\ ~Off(y).rows
    BY DEF Off, StageCalls
  <1>3. task'[t] = x /\ task' \in [Tasks -> StageCalls]
    BY <1>1, <1>2 DEF Becomes, BecomesAlone
  <1>4. \A u \in Tasks \ {t} : task'[u].at = task[u].at /\ task'[u].kind = task[u].kind
    BY <1>1, <1>2 DEF Becomes, BecomesAlone
  <1>5. ASSUME NEW u \in Tasks  PROVE StageReads(task'[u], chunks', embeddings')
    <2>1. CASE u = t
      BY <1>3, <2>1
    <2>2. CASE u # t /\ Becomes(t, x) /\ TablesStay
      <3>1. task'[u] = task[u] /\ StageReads(task[u], chunks, embeddings)
        BY <1>1, <2>2 DEF Becomes, StoresInv
      <3> QED
        BY <2>2, <3>1 DEF StageReads, TablesStay
    <2>3. CASE u # t /\ BecomesAlone(t, x)
      <3>1. task'[u] = Off(task[u]) /\ task[u] \in StageCalls /\ StageReads(task[u], chunks, embeddings)
        BY <1>1, <2>3 DEF BecomesAlone, StoresInv
      <3> QED
        BY <1>2, <3>1 DEF StageReads
    <2> QED
      BY <2>1, <2>2, <2>3
  <1>6. PipelineTablesOK'
    BY <1>1, <1>3 DEF PipelineTablesOK
  <1>7. \A u \in Tasks : Under(u)' => Under(u)
    BY <1>4 DEF Under
  <1>8. ~overlap' => \A u \in Tasks : Under(u)' => u = t
    BY <1>7 DEF StoresInv
  <1>9. Calm' => \A u \in Tasks : Under(u)' => StageAlone(task'[u], doc', artifact', stored', points')
    BY <1>3, <1>8 DEF Calm, Under
  <1>10. Calm' /\ ~Deleting' => StatusTells(doc', artifact', chunks', embeddings', points')
    <2>1. ~Deleting' => x.at = "idle" \/ x.kind # "delete"
      BY <1>3 DEF Deleting, Under
    <2> QED
      BY <2>1
  <1>11. Calm' /\ points' # {} => "collection" \in doc'.names \/ \E u \in Tasks : Is(u, "index", "upserted")'
    BY <1>3 DEF Is, At
  <1> QED
    BY <1>5, <1>6, <1>8, <1>9, <1>10, <1>11 DEF StoresInv

LEMMA TablesKnown ==
  ASSUME StoresInv
  PROVE  /\ doc \in DocumentRows /\ artifact \in Content /\ chunks \in Content /\ points \subseteq Contents \X Parts
         /\ embeddings \in EmbeddingTables /\ embeddings.indexed \subseteq embeddings.done
         /\ (rowLock = {} \/ \E u \in Tasks : rowLock = {u})
         /\ stored \in BOOLEAN /\ stray \in BOOLEAN /\ overlap \in BOOLEAN
         /\ (embeddings # NoEmbeddings => embeddings.content = chunks)
  BY DEF StoresInv, PipelineTablesOK

(* What a stage writes of the row: its status and the names it keeps.      *)
LEMMA RowSaved ==
  ASSUME StoresInv, NEW t \in Tasks, Under(t), NEW status \in CommittedStatus
  PROVE  /\ Saved(t, status) \in DocumentRows /\ Saved(t, status).status = status
         /\ Saved(t, status).deleted = doc.deleted
         /\ Saved(t, status).names = (doc.names \ {"collection"}) \cup task[t].names
         /\ [doc EXCEPT !.status = status] \in DocumentRows
         /\ [doc EXCEPT !.status = status].status = status
         /\ [doc EXCEPT !.status = status].names = doc.names /\ [doc EXCEPT !.status = status].deleted = doc.deleted
  <1>1. doc \in DocumentRows /\ task[t] \in StageCalls
    BY StageKnows, TablesKnown
  <1>2. task[t].names \subseteq Names
    BY <1>1 DEF StageCalls
  <1> DEFINE kept == (doc.names \ {"collection"}) \cup task[t].names
  <1>3. kept \in SUBSET Names
    BY <1>1, <1>2 DEF DocumentRows
  <1>4. Saved(t, status) = [doc EXCEPT !.status = status, !.names = kept]
    BY DEF Saved
  <1> HIDE DEF kept
  <1>5. /\ Saved(t, status) \in DocumentRows /\ Saved(t, status).status = status
        /\ Saved(t, status).deleted = doc.deleted /\ Saved(t, status).names = kept
    BY <1>1, <1>3, <1>4 DEF DocumentRows
  <1>6. /\ [doc EXCEPT !.status = status] \in DocumentRows
        /\ [doc EXCEPT !.status = status].status = status
        /\ [doc EXCEPT !.status = status].names = doc.names /\ [doc EXCEPT !.status = status].deleted = doc.deleted
    BY <1>1 DEF DocumentRows
  <1> QED
    BY <1>5, <1>6 DEF kept

LEMMA WaitingIdle ==
  /\ Waiting \in StageCalls /\ Waiting.at = "idle" /\ Waiting.kind = "none"
  /\ \A content, table : StageReads(Waiting, content, table)
  BY DEF Waiting, StageCalls, StagePlaces, Content, StageReads

(* A stage that only moves on.                                             *)
LEMMA Moved ==
  ASSUME NEW x \in StageCalls, NEW at \in StagePlaces, NEW y, y = [x EXCEPT !.at = at]
  PROVE  /\ y \in StageCalls /\ y.at = at /\ y.kind = x.kind /\ y.seen = x.seen /\ y.names = x.names
         /\ y.parts = x.parts /\ y.rows = x.rows
         /\ \A content, table : StageReads(x, content, table) => StageReads(y, content, table)
  BY DEF StageCalls, StageReads

LEMMA MovesOn ==
  ASSUME StoresInv, NEW t \in Tasks, NEW at, Step(t, at)
  PROVE  Becomes(t, [task[t] EXCEPT !.at = at])
  BY DEF Step, Becomes, StoresInv, PipelineTablesOK

LEMMA LockRowKeeps ==
  ASSUME StoresInv, NEW t \in Tasks, LockRow(t)
  PROVE  StoresInv'
  <1> DEFINE x == task[t]  y == [x EXCEPT !.at = "work"]
  <1>1. Under(t) /\ x.at = "lock" /\ rowLock' = {t} /\ Becomes(t, y)
    BY MovesOn DEF LockRow, Under
  <1>2. /\ y \in StageCalls /\ y.at = "work" /\ y.kind = x.kind /\ y.seen = x.seen /\ y.names = x.names
        /\ y.parts = x.parts /\ y.rows = x.rows /\ StageReads(y, chunks, embeddings)
    BY <1>1, StageKnows, Moved DEF StagePlaces
  <1>3. /\ doc' = doc /\ artifact' = artifact /\ stored' = stored /\ chunks' = chunks /\ embeddings' = embeddings
        /\ points' = points /\ overlap' = overlap /\ stray' = stray
    BY DEF LockRow, stores
  <1>4. Calm => /\ StageAlone(x, doc, artifact, stored, points) /\ ~doc.deleted
                /\ x.kind # "delete" => StatusTells(doc, artifact, chunks, embeddings, points)
                /\ points # {} => "collection" \in doc.names \/ At(x, "index", "upserted")
    BY <1>1, StageKnows
  <1> HIDE DEF y, x
  <1>5. Calm' => /\ StageAlone(y, doc', artifact', stored', points')
                 /\ y.kind # "delete" => StatusTells(doc', artifact', chunks', embeddings', points')
                 /\ NothingLeft(doc', artifact', stored', points')
                 /\ points' # {} => "collection" \in doc'.names \/ At(y, "index", "upserted")
    BY <1>1, <1>2, <1>3, <1>4 DEF Calm, StageAlone, SameName, NothingLeft, At
  <1> QED
    BY <1>1, <1>2, <1>3, <1>5, TablesKnown, StageStep DEF TablesStay

LEMMA AbandonKeeps ==
  ASSUME StoresInv, NEW t \in Tasks, Abandon(t)
  PROVE  StoresInv'
  <1> DEFINE x == task[t]
  <1>1. Under(t) /\ Becomes(t, Waiting)
    BY DEF Abandon, Over, Becomes
  <1>2. /\ doc' = doc /\ artifact' = artifact /\ stored' = stored /\ chunks' = chunks /\ embeddings' = embeddings
        /\ points' = points /\ overlap' = overlap
        /\ stray' = (stray \/ At(x, "index", "upserted") \/ x.kind = "delete") /\ rowLock' = rowLock \ {t}
    BY DEF Abandon, stores, Is, At
  <1>3. Calm => /\ ~doc.deleted
                /\ x.kind # "delete" => StatusTells(doc, artifact, chunks, embeddings, points)
                /\ points # {} => "collection" \in doc.names \/ At(x, "index", "upserted")
    BY <1>1, StageKnows
  <1> HIDE DEF x
  <1>4. Calm' => /\ StatusTells(doc', artifact', chunks', embeddings', points')
                 /\ NothingLeft(doc', artifact', stored', points')
                 /\ points' # {} => "collection" \in doc'.names
    BY <1>2, <1>3 DEF Calm, NothingLeft
  <1>5. rowLock' = {} \/ \E u \in Tasks : rowLock' = {u}
    BY <1>2, TablesKnown
  <1>6. stray' \in BOOLEAN
    BY <1>2, TablesKnown DEF At
  <1> QED
    BY <1>1, <1>2, <1>4, <1>5, <1>6, TablesKnown, WaitingIdle, StageStep DEF TablesStay

LEMMA MarkKeeps ==
  ASSUME StoresInv, NEW t \in Tasks, MarkProcessing(t)
  PROVE  StoresInv'
  <1> DEFINE x == task[t]  kept == doc.names \cap {"collection"}
             y == [x EXCEPT !.at = "parse", !.names = kept]  row == [doc EXCEPT !.status = "processing"]
  <1>1. Under(t) /\ At(x, "parse", "mark") /\ x \in StageCalls
    BY StageKnows DEF MarkProcessing, Is, At, Under
  <1>2. Becomes(t, y)
    BY DEF MarkProcessing, Becomes, StoresInv, PipelineTablesOK, StageCalls
  <1>3. row \in DocumentRows /\ row.status = "processing" /\ row.names = doc.names /\ row.deleted = doc.deleted
    BY <1>1, RowSaved DEF CommittedStatus
  <1>4. /\ doc' = row /\ artifact' = artifact /\ stored' = stored /\ chunks' = chunks /\ embeddings' = embeddings
        /\ points' = points /\ overlap' = overlap /\ stray' = stray /\ rowLock' = rowLock
    BY DEF MarkProcessing, stores
  <1>5. kept \in SUBSET Names /\ ("collection" \in kept <=> "collection" \in doc.names)
    BY DEF Names
  <1>6. /\ y \in StageCalls /\ y.at = "parse" /\ y.kind = "parse" /\ y.names = kept
        /\ StageReads(y, chunks, embeddings)
    <2> HIDE DEF x, kept
    <2> QED
      BY <1>1, <1>5 DEF At, StageCalls, StagePlaces, StageReads
  <1>7. Calm => /\ ~doc.deleted /\ StatusTells(doc, artifact, chunks, embeddings, points)
                /\ points # {} => "collection" \in doc.names
    BY <1>1, StageKnows DEF At
  <1> HIDE DEF x, kept, row, y
  <1>8. Calm' => /\ StageAlone(y, doc', artifact', stored', points')
                 /\ StatusTells(doc', artifact', chunks', embeddings', points')
                 /\ NothingLeft(doc', artifact', stored', points')
                 /\ points' # {} => "collection" \in doc'.names
    BY <1>3, <1>4, <1>5, <1>6, <1>7 DEF Calm, StageAlone, SameName, NothingLeft, At, StatusTells
  <1> QED
    BY <1>1, <1>2, <1>3, <1>4, <1>6, <1>8, TablesKnown, StageStep DEF TablesStay

LEMMA ParseKeeps ==
  ASSUME StoresInv, NEW t \in Tasks, Parse(t)
  PROVE  StoresInv'
  <1> DEFINE x == task[t]
  <1>1. Under(t) /\ At(x, "parse", "parse") /\ x \in StageCalls /\ StageReads(x, chunks, embeddings)
    BY StageKnows DEF Parse, Is, At, Under
  <1>2. PICK at \in {"record", "fail"} : /\ Becomes(t, [x EXCEPT !.at = at])
                                         /\ artifact' \in Content /\ (at = "record" => artifact' \in Contents)
                                         /\ (artifact' = artifact \/ artifact' \in Contents)
    BY MovesOn, TablesKnown DEF Parse, Content
  <1> DEFINE y == [x EXCEPT !.at = at]
  <1>3. /\ y \in StageCalls /\ y.at = at /\ y.kind = x.kind /\ y.seen = x.seen /\ y.names = x.names
        /\ y.parts = x.parts /\ y.rows = x.rows /\ StageReads(y, chunks, embeddings)
    BY <1>1, Moved DEF StagePlaces
  <1>4. /\ doc' = doc /\ stored' = stored /\ chunks' = chunks /\ embeddings' = embeddings
        /\ points' = points /\ overlap' = overlap /\ stray' = stray /\ rowLock' = rowLock
    BY DEF Parse
  <1>5. Calm => /\ StageAlone(x, doc, artifact, stored, points) /\ ~doc.deleted
                /\ StatusTells(doc, artifact, chunks, embeddings, points)
                /\ points # {} => "collection" \in doc.names
    BY <1>1, StageKnows DEF At
  <1>6. NoContent \notin Contents
    BY PipelineAssumption
  <1>7. Becomes(t, y)
    BY <1>2
  <1> HIDE DEF x, y
  <1>8. Calm' => /\ StageAlone(y, doc', artifact', stored', points')
                 /\ StatusTells(doc', artifact', chunks', embeddings', points')
                 /\ NothingLeft(doc', artifact', stored', points')
                 /\ points' # {} => "collection" \in doc'.names
    BY <1>1, <1>2, <1>3, <1>4, <1>5, <1>6 DEF Calm, StageAlone, SameName, NothingLeft, At, StatusTells
  <1> QED
    BY <1>1, <1>2, <1>3, <1>4, <1>7, <1>8, TablesKnown, StageStep DEF TablesStay

LEMMA RecordKeeps ==
  ASSUME StoresInv, NEW t \in Tasks, RecordParse(t)
  PROVE  StoresInv'
  <1> DEFINE x == task[t]
  <1>1. /\ Under(t) /\ x.kind = "parse" /\ x.at \in {"record", "fail"} /\ x \in StageCalls
        /\ Becomes(t, Waiting)
    BY StageKnows DEF RecordParse, Is, Under, Over, Becomes
  <1>2. /\ doc' \in DocumentRows /\ doc'.deleted = doc.deleted
        /\ \/ x.at = "record" /\ doc'.status = "parsed"
              /\ doc'.names = (doc.names \ {"collection"}) \cup x.names \cup {"artifact"}
           \/ doc'.status = "failed" /\ doc'.names = doc.names
    <2>1. CASE Is(t, "parse", "record") /\ doc' = [Saved(t, "parsed") EXCEPT !.names = @ \cup {"artifact"}]
      <3> DEFINE saved == Saved(t, "parsed")  named == saved.names \cup {"artifact"}
      <3>1. saved \in DocumentRows /\ saved.status = "parsed" /\ saved.deleted = doc.deleted
            /\ saved.names = (doc.names \ {"collection"}) \cup x.names
        BY <1>1, RowSaved DEF CommittedStatus
      <3>2. doc' = [saved EXCEPT !.names = named]
        BY <2>1
      <3> HIDE DEF saved
      <3>3. named \in SUBSET Names
        BY <3>1 DEF DocumentRows, Names
      <3>4. named = (doc.names \ {"collection"}) \cup x.names \cup {"artifact"}
        BY <3>1
      <3> HIDE DEF named
      <3> QED
        BY <2>1, <3>1, <3>2, <3>3, <3>4 DEF DocumentRows, Is
    <2>2. CASE doc' = [doc EXCEPT !.status = "failed"]
      BY <1>1, <2>2, RowSaved DEF CommittedStatus
    <2> QED
      BY <2>1, <2>2 DEF RecordParse
  <1>3. /\ artifact' = artifact /\ stored' = stored /\ chunks' = chunks /\ embeddings' = embeddings
        /\ points' = points /\ overlap' = overlap /\ stray' = stray /\ rowLock' = rowLock
    BY DEF RecordParse, stores
  <1>4. Calm => /\ StageAlone(x, doc, artifact, stored, points) /\ ~doc.deleted
                /\ StatusTells(doc, artifact, chunks, embeddings, points)
                /\ points # {} => "collection" \in doc.names
    BY <1>1, StageKnows DEF At
  <1> HIDE DEF x
  <1>5. Calm => /\ (x.at = "record" => artifact # NoContent)
                /\ ("collection" \in x.names <=> "collection" \in doc.names)
    BY <1>1, <1>4 DEF StageAlone, SameName, At
  <1>6. Calm' => /\ StatusTells(doc', artifact', chunks', embeddings', points')
                 /\ NothingLeft(doc', artifact', stored', points')
                 /\ points' # {} => "collection" \in doc'.names
    BY <1>2, <1>3, <1>4, <1>5 DEF Calm, NothingLeft, StatusTells
  <1> QED
    BY <1>1, <1>2, <1>3, <1>6, TablesKnown, WaitingIdle, StageStep DEF TablesStay

LEMMA ChunkKeeps ==
  ASSUME StoresInv, NEW t \in Tasks, ChunkCommits(t)
  PROVE  StoresInv'
  <1> DEFINE x == task[t]  row == Saved(t, "chunked")
  <1>1. /\ Under(t) /\ At(x, "chunk", "work") /\ x \in StageCalls /\ x.seen \in Contents
        /\ BecomesAlone(t, Waiting)
    <2>1. x.seen \in Contents
      BY StageKnows DEF ChunkCommits, Is, Under, StageReads
    <2> QED
      BY <2>1, StageKnows DEF ChunkCommits, Is, At, Under, OverReplacing, BecomesAlone, Off
  <1>2. row \in DocumentRows /\ row.status = "chunked" /\ row.deleted = doc.deleted
        /\ row.names = (doc.names \ {"collection"}) \cup x.names
    BY <1>1, RowSaved DEF CommittedStatus
  <1>3. /\ doc' = row /\ artifact' = artifact /\ stored' = stored /\ chunks' = x.seen /\ embeddings' = NoEmbeddings
        /\ points' = points /\ overlap' = overlap /\ stray' = stray /\ rowLock' = {}
    BY DEF ChunkCommits, Commits
  <1>4. Calm => /\ StageAlone(x, doc, artifact, stored, points) /\ ~doc.deleted
                /\ points # {} => "collection" \in doc.names
    BY <1>1, StageKnows DEF At
  <1>5. NoEmbeddings \in EmbeddingTables /\ NoEmbeddings.indexed = {} /\ NoEmbeddings.done = {}
    BY DEF NoEmbeddings, EmbeddingTables, Content
  <1>6. x.seen \in Content /\ x.seen # NoContent
    BY <1>1, PipelineAssumption DEF Content
  <1> HIDE DEF x, row
  <1>7. Calm => ("collection" \in x.names <=> "collection" \in doc.names)
    BY <1>1, <1>4 DEF StageAlone, SameName, At
  <1>8. Calm' => /\ StatusTells(doc', artifact', chunks', embeddings', points')
                 /\ NothingLeft(doc', artifact', stored', points')
                 /\ points' # {} => "collection" \in doc'.names
    BY <1>2, <1>3, <1>4, <1>5, <1>6, <1>7 DEF Calm, NothingLeft, StatusTells
  <1> QED
    BY <1>1, <1>2, <1>3, <1>5, <1>6, <1>8, TablesKnown, WaitingIdle, StageStep

LEMMA EmbedKeeps ==
  ASSUME StoresInv, NEW t \in Tasks, EmbedCommits(t)
  PROVE  StoresInv'
  <1> DEFINE x == task[t]
  <1>1. /\ Under(t) /\ At(x, "embed", "work") /\ x \in StageCalls /\ x.seen \in Contents
        /\ BecomesAlone(t, Waiting)
    <2>1. x.seen \in Contents
      BY StageKnows DEF EmbedCommits, Is, Under, StageReads
    <2> QED
      BY <2>1, StageKnows DEF EmbedCommits, Is, At, Under, OverReplacing, BecomesAlone, Off
  <1>2. PICK done \in SUBSET Parts :
           /\ embeddings' = [content |-> chunks, done |-> done, indexed |-> {}]
           /\ Commits(t, Saved(t, IF done = {} THEN "failed" ELSE "embedded"))
    BY DEF EmbedCommits
  <1> DEFINE status == IF done = {} THEN "failed" ELSE "embedded"  row == Saved(t, status)
  <1>3. row \in DocumentRows /\ row.status = status /\ row.deleted = doc.deleted
        /\ row.names = (doc.names \ {"collection"}) \cup x.names
    <2>1. status \in CommittedStatus
      BY DEF CommittedStatus
    <2> HIDE DEF status
    <2> QED
      BY <1>1, <2>1, RowSaved
  <1>4. /\ doc' = row /\ artifact' = artifact /\ stored' = stored /\ chunks' = chunks
        /\ points' = points /\ overlap' = overlap /\ stray' = stray /\ rowLock' = {}
    BY <1>2 DEF EmbedCommits, Commits
  <1>5. Calm => /\ StageAlone(x, doc, artifact, stored, points) /\ ~doc.deleted
                /\ points # {} => "collection" \in doc.names
    BY <1>1, StageKnows DEF At
  <1>6. /\ embeddings' \in EmbeddingTables /\ embeddings'.indexed = {} /\ embeddings'.done = done
        /\ embeddings'.content = chunks
    BY <1>2, TablesKnown DEF EmbeddingTables
  <1>7. chunks # NoContent
    BY <1>1, PipelineAssumption DEF EmbedCommits
  <1>8. (status = "failed" /\ done = {}) \/ (status = "embedded" /\ done # {})
    OBVIOUS
  <1> HIDE DEF x, row, status
  <1>9. Calm => ("collection" \in x.names <=> "collection" \in doc.names)
    BY <1>1, <1>5 DEF StageAlone, SameName, At
  <1>10. Calm' => /\ StatusTells(doc', artifact', chunks', embeddings', points')
                  /\ NothingLeft(doc', artifact', stored', points')
                  /\ points' # {} => "collection" \in doc'.names
    BY <1>3, <1>4, <1>5, <1>6, <1>7, <1>8, <1>9 DEF Calm, NothingLeft, StatusTells
  <1> QED
    BY <1>1, <1>3, <1>4, <1>6, <1>10, TablesKnown, WaitingIdle, StageStep

LEMMA UpsertKeeps ==
  ASSUME StoresInv, NEW t \in Tasks, Upsert(t)
  PROVE  StoresInv'
  <1> DEFINE x == task[t]
  <1>1. /\ Under(t) /\ At(x, "index", "work") /\ x \in StageCalls /\ StageReads(x, chunks, embeddings)
        /\ x.seen \in Contents
    BY StageKnows DEF Upsert, Is, At, Under, StageReads
  <1>2. PICK taken \in SUBSET x.parts :
           /\ points' = points \cup {x.seen} \X taken
           /\ task' = [task EXCEPT ![t].at = "upserted", ![t].parts = taken]
    BY DEF Upsert
  <1> DEFINE y == [x EXCEPT !.at = "upserted", !.parts = taken]
  <1>3. Becomes(t, y)
    BY <1>2 DEF Becomes, StoresInv, PipelineTablesOK, StageCalls
  <1>4. /\ y \in StageCalls /\ y.at = "upserted" /\ y.kind = "index" /\ y.seen = x.seen /\ y.parts = taken
        /\ y.rows = x.rows
    <2> HIDE DEF x
    <2>1. taken \in SUBSET Parts
      BY <1>1, <1>2 DEF StageCalls
    <2> QED
      BY <1>1, <2>1 DEF At, StageCalls, StagePlaces
  <1>5. /\ doc' = doc /\ artifact' = artifact /\ stored' = stored /\ chunks' = chunks /\ embeddings' = embeddings
        /\ overlap' = overlap /\ stray' = stray /\ rowLock' = rowLock
    BY DEF Upsert
  <1>6. points' \subseteq Contents \X Parts
    <2>1. taken \subseteq Parts
      BY <1>1, <1>2 DEF StageCalls
    <2> QED
      BY <1>1, <1>2, <2>1, TablesKnown
  <1>7. Calm => /\ StageAlone(x, doc, artifact, stored, points) /\ ~doc.deleted
                /\ StatusTells(doc, artifact, chunks, embeddings, points)
    BY <1>1, StageKnows DEF At
  <1> HIDE DEF x, y
  <1>8. StageReads(y, chunks, embeddings)
    BY <1>1, <1>4, <1>2 DEF StageReads, At
  <1>9. points \subseteq points' /\ {x.seen} \X taken \subseteq points'
    BY <1>2
  <1>10. Calm' => /\ StageAlone(y, doc', artifact', stored', points')
                  /\ StatusTells(doc', artifact', chunks', embeddings', points')
                  /\ NothingLeft(doc', artifact', stored', points')
                  /\ At(y, "index", "upserted")
    BY <1>1, <1>4, <1>5, <1>7, <1>9 DEF Calm, StageAlone, SameName, NothingLeft, At, StatusTells
  <1> QED
    BY <1>1, <1>3, <1>4, <1>5, <1>6, <1>8, <1>10, TablesKnown, StageStep DEF TablesStay

LEMMA IndexKeeps ==
  ASSUME StoresInv, NEW t \in Tasks, IndexCommits(t)
  PROVE  StoresInv'
  <1> DEFINE x == task[t]  status == IF x.parts = {} THEN "failed" ELSE "indexed"
             saved == Saved(t, status)  named == saved.names \cup {"collection"}
             row == [saved EXCEPT !.names = named]
  <1>1. /\ Under(t) /\ At(x, "index", "upserted") /\ x \in StageCalls /\ StageReads(x, chunks, embeddings)
        /\ x.seen \in Contents /\ Becomes(t, Waiting)
    BY StageKnows DEF IndexCommits, Is, At, Under, StageReads, Over, Becomes
  <1>2. saved \in DocumentRows /\ saved.status = status /\ saved.deleted = doc.deleted
        /\ saved.names = (doc.names \ {"collection"}) \cup x.names
    <2>1. status \in CommittedStatus
      BY DEF CommittedStatus
    <2> HIDE DEF status
    <2> QED
      BY <1>1, <2>1, RowSaved
  <1>3. row \in DocumentRows /\ row.status = status /\ row.deleted = doc.deleted /\ "collection" \in row.names
    <2> HIDE DEF saved
    <2>1. named \in SUBSET Names /\ "collection" \in named
      BY <1>2 DEF DocumentRows, Names
    <2> HIDE DEF named
    <2> QED
      BY <1>2, <2>1 DEF DocumentRows
  <1>4. /\ doc' = row /\ artifact' = artifact /\ stored' = stored /\ chunks' = chunks
        /\ points' = points /\ overlap' = overlap /\ stray' = stray /\ rowLock' = {}
    BY DEF IndexCommits, Commits, Indexed
  <1>5. /\ embeddings' \in EmbeddingTables /\ embeddings'.done = embeddings.done
        /\ embeddings'.content = embeddings.content /\ embeddings'.indexed \subseteq embeddings'.done
        /\ x.rows => embeddings'.indexed = x.parts
        /\ embeddings' # NoEmbeddings => embeddings'.content = chunks
    <2>1. CASE x.rows
      <3> DEFINE parts == x.parts
      <3>1. embeddings' = [embeddings EXCEPT !.indexed = parts]
        BY <2>1 DEF IndexCommits
      <3>2. x.seen = chunks /\ embeddings.done # {} /\ parts \subseteq embeddings.done
        BY <1>1, <2>1 DEF StageReads, At
      <3>3. embeddings # NoEmbeddings
        BY <3>2 DEF NoEmbeddings
      <3>4. parts \in SUBSET Parts
        BY <1>1 DEF StageCalls
      <3> HIDE DEF parts
      <3>5. embeddings' \in EmbeddingTables /\ embeddings'.done = embeddings.done
            /\ embeddings'.content = embeddings.content /\ embeddings'.indexed = parts
        BY <3>1, <3>4, TablesKnown DEF EmbeddingTables
      <3> QED
        BY <2>1, <3>2, <3>3, <3>5, TablesKnown DEF parts
    <2>2. CASE ~x.rows
      BY <2>2, TablesKnown DEF IndexCommits
    <2> QED
      BY <2>1, <2>2
  <1>6. Calm => /\ StageAlone(x, doc, artifact, stored, points) /\ ~doc.deleted
    BY <1>1, StageKnows
  <1>7. (status = "failed" /\ x.parts = {}) \/ (status = "indexed" /\ x.parts # {})
    OBVIOUS
  <1>8. Calm => x.rows /\ {x.seen} \X x.parts \subseteq points
    BY <1>1, <1>6 DEF StageAlone, At
  <1>9. x.rows => x.seen = chunks /\ embeddings.done # {}
    BY <1>1 DEF StageReads, At
  <1>10. x.seen # NoContent
    BY <1>1, PipelineAssumption
  <1> HIDE DEF x, row, status, saved, named
  <1>11. Calm' => /\ StatusTells(doc', artifact', chunks', embeddings', points')
                  /\ NothingLeft(doc', artifact', stored', points')
                  /\ "collection" \in doc'.names
    BY <1>3, <1>4, <1>5, <1>6, <1>7, <1>8, <1>9, <1>10 DEF Calm, NothingLeft, StatusTells
  <1> QED
    BY <1>1, <1>3, <1>4, <1>5, <1>11, TablesKnown, WaitingIdle, StageStep DEF TablesStay

LEMMA PurgeKeeps ==
  ASSUME StoresInv, NEW t \in Tasks, Purge(t)
  PROVE  StoresInv'
  <1> DEFINE x == task[t]  y == [x EXCEPT !.at = "objects"]
  <1>1. Under(t) /\ At(x, "delete", "purge") /\ x \in StageCalls /\ Becomes(t, y)
    BY StageKnows, MovesOn DEF Purge, Is, At, Under
  <1>2. /\ y \in StageCalls /\ y.at = "objects" /\ y.kind = "delete" /\ y.names = x.names
        /\ StageReads(y, chunks, embeddings)
    BY <1>1, StageKnows, Moved DEF StagePlaces, At
  <1>3. /\ doc' = doc /\ artifact' = artifact /\ stored' = stored /\ chunks' = chunks /\ embeddings' = embeddings
        /\ overlap' = overlap /\ rowLock' = rowLock
    BY DEF Purge
  <1>4. \/ points' = (IF "collection" \in x.names THEN {} ELSE points) /\ stray' = stray
        \/ points' = points /\ stray' = TRUE
    BY DEF Purge
  <1>5. Calm => /\ StageAlone(x, doc, artifact, stored, points) /\ ~doc.deleted
                /\ points # {} => "collection" \in doc.names
    BY <1>1, StageKnows DEF At
  <1> HIDE DEF x, y
  <1>6. points' \subseteq Contents \X Parts /\ stray' \in BOOLEAN
    BY <1>4, TablesKnown
  <1>7. Calm => /\ "collection" \in x.names <=> "collection" \in doc.names
                /\ "artifact" \in x.names <=> "artifact" \in doc.names
    BY <1>1, <1>5 DEF StageAlone, SameName, At
  <1>8. Calm' => /\ StageAlone(y, doc', artifact', stored', points')
                 /\ NothingLeft(doc', artifact', stored', points')
                 /\ points' = {}
    BY <1>2, <1>3, <1>4, <1>5, <1>7 DEF Calm, StageAlone, SameName, NothingLeft, At
  <1> QED
    BY <1>1, <1>2, <1>3, <1>4, <1>6, <1>8, TablesKnown, StageStep DEF TablesStay

LEMMA ObjectsKeeps ==
  ASSUME StoresInv, NEW t \in Tasks, DeleteObjects(t)
  PROVE  StoresInv'
  <1> DEFINE x == task[t]  y == [x EXCEPT !.at = "soft"]
  <1>1. Under(t) /\ At(x, "delete", "objects") /\ x \in StageCalls /\ Becomes(t, y)
    BY StageKnows, MovesOn DEF DeleteObjects, Is, At, Under
  <1>2. /\ y \in StageCalls /\ y.at = "soft" /\ y.kind = "delete" /\ y.names = x.names
        /\ StageReads(y, chunks, embeddings)
    BY <1>1, StageKnows, Moved DEF StagePlaces, At
  <1>3. /\ doc' = doc /\ points' = points /\ stored' = FALSE /\ chunks' = chunks /\ embeddings' = embeddings
        /\ overlap' = overlap /\ rowLock' = rowLock
    BY DEF DeleteObjects
  <1>4. \/ artifact' = (IF "artifact" \in x.names THEN NoContent ELSE artifact) /\ stray' = stray
        \/ artifact' = artifact /\ stray' = TRUE
    BY DEF DeleteObjects
  <1>5. Calm => StageAlone(x, doc, artifact, stored, points) /\ ~doc.deleted
    BY <1>1, StageKnows
  <1> HIDE DEF x, y
  <1>6. artifact' \in Content /\ stray' \in BOOLEAN
    BY <1>4, TablesKnown DEF Content
  <1>7. Calm => /\ "collection" \in x.names <=> "collection" \in doc.names
                /\ "artifact" \in x.names <=> "artifact" \in doc.names
                /\ points = {}
    BY <1>1, <1>5 DEF StageAlone, SameName, At
  <1>8. Calm' => /\ StageAlone(y, doc', artifact', stored', points')
                 /\ NothingLeft(doc', artifact', stored', points')
                 /\ points' = {}
    BY <1>2, <1>3, <1>4, <1>5, <1>7 DEF Calm, StageAlone, SameName, NothingLeft, At
  <1>9. /\ TablesStay
        /\ doc' \in DocumentRows /\ chunks' \in Content /\ points' \subseteq Contents \X Parts
        /\ embeddings' \in EmbeddingTables /\ embeddings'.indexed \subseteq embeddings'.done
        /\ (embeddings' # NoEmbeddings => embeddings'.content = chunks')
    BY <1>3, TablesKnown DEF TablesStay
  <1>10. stored' \in BOOLEAN /\ (stray => stray')
    <2>1. stored' = FALSE /\ (stray' = stray \/ stray' = TRUE)
      BY <1>3, <1>4
    <2>2. stored' \in BOOLEAN
      BY <2>1, Zenon
    <2>3. stray => stray'
      BY <2>1, Zenon
    <2> QED
      BY <2>2, <2>3
  <1>11. rowLock' = {} \/ \E u \in Tasks : rowLock' = {u}
    BY <1>3, TablesKnown
  <1>12. StageReads(y, chunks', embeddings')
    BY <1>2, <1>3
  <1> QED
    BY <1>1, <1>2, <1>3, <1>6, <1>8, <1>9, <1>10, <1>11, <1>12, StageStep

LEMMA SoftDeleteKeeps ==
  ASSUME StoresInv, NEW t \in Tasks, SoftDelete(t)
  PROVE  StoresInv'
  <1> DEFINE x == task[t]  row == [doc EXCEPT !.status = "deleted", !.deleted = TRUE]
  <1>1. Under(t) /\ At(x, "delete", "soft") /\ Becomes(t, Waiting)
    BY DEF SoftDelete, Is, At, Under, Over, Becomes
  <1>2. row \in DocumentRows /\ row.status = "deleted" /\ row.deleted /\ row.names = doc.names
    BY TablesKnown DEF DocumentRows, CommittedStatus
  <1>3. doc' = IF doc.deleted THEN doc ELSE row
    BY DEF SoftDelete
  <1>4. /\ artifact' = artifact /\ points' = points /\ stored' = stored /\ chunks' = chunks
        /\ embeddings' = embeddings /\ overlap' = overlap /\ stray' = stray /\ rowLock' = rowLock
    BY DEF SoftDelete, stores
  <1>5. Calm => StageAlone(x, doc, artifact, stored, points) /\ ~doc.deleted
    BY <1>1, StageKnows
  <1> HIDE DEF x, row
  <1>6. Calm => points = {} /\ ~stored /\ ("artifact" \in doc.names => artifact = NoContent)
    BY <1>1, <1>5 DEF StageAlone, At
  <1>7. doc' \in DocumentRows
    BY <1>2, <1>3, TablesKnown
  <1>8. Calm' => /\ StatusTells(doc', artifact', chunks', embeddings', points')
                 /\ NothingLeft(doc', artifact', stored', points')
                 /\ points' = {}
    BY <1>2, <1>3, <1>4, <1>5, <1>6 DEF Calm, NothingLeft, StatusTells
  <1> QED
    BY <1>1, <1>4, <1>7, <1>8, TablesKnown, WaitingIdle, StageStep DEF TablesStay

(* A stage begins: alone, if no other is under way.                        *)
LEMMA BeginsKeeps ==
  ASSUME StoresInv, NEW t \in Tasks, NEW kind \in Kinds, NEW at, NEW seen \in Content,
         at = (CASE kind = "parse" -> "mark" [] kind = "delete" -> "purge" [] OTHER -> "lock"),
         kind \in {"chunk", "embed", "index"} => seen \in Contents,
         kind = "index" => seen = chunks /\ embeddings.done # {},
         Begins(t, kind, at, seen)
  PROVE  StoresInv'
  <1> DEFINE names == doc.names \cap Needs(kind)  parts == IF kind = "index" THEN embeddings.done ELSE {}
             rows == kind = "index"
             x == [kind |-> kind, at |-> at, seen |-> seen, names |-> names, parts |-> parts, rows |-> rows]
  <1>1. ~doc.deleted /\ task' = [task EXCEPT ![t] = x] /\ ~Under(t)
    BY DEF Begins, Waiting, Under
  <1>2. /\ doc' = doc /\ artifact' = artifact /\ stored' = stored /\ chunks' = chunks /\ embeddings' = embeddings
        /\ points' = points /\ rowLock' = rowLock /\ stray' = stray
        /\ overlap' = (overlap \/ \E u \in Tasks : Under(u))
    BY DEF Begins, stores
  <1>3. at \in StagePlaces /\ at # "idle" /\ at \notin {"record", "upserted", "objects", "soft"}
        /\ (kind = "parse" => at = "mark")
    BY DEF StagePlaces, Kinds
  <1>4. names \in SUBSET Names /\ parts \in SUBSET Parts /\ rows \in BOOLEAN
    BY TablesKnown DEF DocumentRows, EmbeddingTables
  <1>5. /\ kind \in {"chunk", "embed", "delete"} => ("collection" \in names <=> "collection" \in doc.names)
        /\ kind = "delete" => ("artifact" \in names <=> "artifact" \in doc.names)
    BY DEF Needs, Names, Kinds
  <1> HIDE DEF names
  <1>6. x \in StageCalls
    BY <1>3, <1>4 DEF StageCalls
  <1>7. StageReads(x, chunks, embeddings)
    BY DEF StageReads
  <1>8. Calm => StageAlone(x, doc, artifact, stored, points)
    BY <1>1, <1>3, <1>5 DEF StageAlone, SameName, At
  <1> HIDE DEF x
  <1>9. task \in [Tasks -> StageCalls]
    BY DEF StoresInv, PipelineTablesOK
  <1>10. task'[t] = x /\ (\A u \in Tasks \ {t} : task'[u] = task[u]) /\ task' \in [Tasks -> StageCalls]
    BY <1>1, <1>6, <1>9
  <1>11. PipelineTablesOK'
    <2>1. overlap' \in BOOLEAN
      BY <1>2, TablesKnown
    <2> QED
      BY <1>2, <1>10, <2>1, TablesKnown DEF PipelineTablesOK
  <1>12. \A u \in Tasks : StageReads(task'[u], chunks', embeddings')
    BY <1>2, <1>7, <1>10 DEF StoresInv
  <1>13. ~overlap' => \A u \in Tasks : ~Under(u) /\ (Under(u)' => u = t)
    BY <1>2, <1>10 DEF Under
  <1>14. Calm' => Calm
    BY <1>2 DEF Calm
  <1>15. Calm' => \A u \in Tasks : Under(u)' => StageAlone(task'[u], doc', artifact', stored', points')
    BY <1>2, <1>8, <1>10, <1>13, <1>14 DEF Calm
  <1>16. Calm' => /\ StatusTells(doc', artifact', chunks', embeddings', points')
                  /\ NothingLeft(doc', artifact', stored', points')
                  /\ points' # {} => "collection" \in doc'.names
    <2>1. ~overlap' => ~Deleting /\ \A u \in Tasks : ~Is(u, "index", "upserted")
      BY <1>13 DEF Deleting, Is, Under
    <2> QED
      BY <1>2, <1>14, <2>1 DEF Calm, StoresInv
  <1>17. (embeddings # NoEmbeddings => embeddings.content = chunks)'
    BY <1>2, TablesKnown
  <1> QED
    BY <1>11, <1>12, <1>13, <1>15, <1>16, <1>17 DEF StoresInv

LEMMA BeginningsKeep ==
  ASSUME StoresInv, NEW t \in Tasks,
         \/ BeginParse(t) \/ BeginChunk(t) \/ BeginDelete(t)
         \/ \E force \in BOOLEAN : BeginEmbed(t, force) \/ BeginIndex(t, force)
  PROVE  StoresInv'
  <1> DEFINE Place(kind) == CASE kind = "parse" -> "mark" [] kind = "delete" -> "purge" [] OTHER -> "lock"
  <1>1. artifact \in Content /\ chunks \in Content /\ NoContent \in Content
    BY TablesKnown DEF Content
  <1>2. \E kind \in Kinds : \E seen \in Content :
           /\ kind \in {"chunk", "embed", "index"} => seen \in Contents
           /\ kind = "index" => seen = chunks /\ embeddings.done # {}
           /\ Begins(t, kind, Place(kind), seen)
    <2>1. CASE BeginParse(t)
      BY <1>1, <2>1 DEF BeginParse, Kinds
    <2>2. CASE BeginDelete(t)
      BY <1>1, <2>2 DEF BeginDelete, Kinds
    <2>3. CASE BeginChunk(t)
      <3>1. artifact \in Contents /\ Begins(t, "chunk", "lock", artifact)
        BY <1>1, <2>3 DEF BeginChunk, Content
      <3> QED
        BY <1>1, <3>1 DEF Kinds
    <2>4. CASE \E force \in BOOLEAN : BeginEmbed(t, force)
      <3>1. chunks \in Contents /\ Begins(t, "embed", "lock", chunks)
        BY <1>1, <2>4 DEF BeginEmbed, Content
      <3> QED
        BY <1>1, <3>1 DEF Kinds
    <2>5. CASE \E force \in BOOLEAN : BeginIndex(t, force)
      <3>1. chunks \in Contents /\ embeddings.done # {} /\ Begins(t, "index", "lock", chunks)
        BY <1>1, <2>5 DEF BeginIndex, Content
      <3> QED
        BY <1>1, <3>1 DEF Kinds
    <2> QED
      BY <2>1, <2>2, <2>3, <2>4, <2>5
  <1> QED
    BY <1>2, BeginsKeeps

LEMMA StoresStepInv == StoresInv /\ [PipelineNext]_pipelineVars => StoresInv'
  <1> SUFFICES ASSUME StoresInv, [PipelineNext]_pipelineVars  PROVE StoresInv'
    OBVIOUS
  <1>1. CASE UNCHANGED pipelineVars
    BY <1>1 DEF pipelineVars, StoresInv, PipelineTablesOK, Under, Is, Calm, Deleting
  <1>2. CASE PipelineNext
    BY <1>2, BeginningsKeep, MarkKeeps, ParseKeeps, RecordKeeps, LockRowKeeps, ChunkKeeps, EmbedKeeps, UpsertKeeps,
       IndexKeeps, PurgeKeeps, ObjectsKeeps, SoftDeleteKeeps, AbandonKeeps DEF PipelineNext
  <1> QED
    BY <1>1, <1>2

(* Whatever stages overlap or die, the embeddings are of the chunks that   *)
(* are there; and while none overlaps and none that wrote vectors or       *)
(* deleted has stopped half way, the status says what the stores hold, and *)
(* a deleted document has left nothing.                                    *)
THEOREM StoresStayTrue == PipelineSpec => []StoresAreTrue
  <1>1. PipelineInit => StoresInv
    BY StoresInitInv
  <1>2. StoresInv /\ [PipelineNext]_pipelineVars => StoresInv'
    BY StoresStepInv
  <1>3. StoresInv => StoresAreTrue
    BY StoresInvImplies
  <1> QED
    BY <1>1, <1>2, <1>3, PTL DEF PipelineSpec
-----------------------------------------------------------------------------
(***************************************************************************)
(* The batches of an embedding call.                                       *)
(***************************************************************************)
(* The quotients that cut n items into batches.                            *)
LEMMA Quotients ==
  ASSUME NEW n \in Nat, NEW d \in Nat \ {0}
  PROVE  \E q, r \in Nat : n = d * q + r /\ r < d /\ n \div d = q
  <1>1. n \div d \in Nat /\ n % d \in Nat /\ n % d < d /\ n = d * (n \div d) + (n % d)
    OBVIOUS
  <1> QED
    BY <1>1

LEMMA Multiples ==
  ASSUME NEW d \in Nat \ {0}, NEW p \in Int, NEW q \in Int
  PROVE  /\ p <= q => d * p <= d * q
         /\ p < q => d * p + d <= d * q
         /\ d * p \in Int /\ d * q \in Int /\ d * p = p * d /\ d * (p - 1) = d * p - d
  OBVIOUS

Slots(x, b) == {k \in DOMAIN x.asked : (b - 1) * BatchSize < k /\ k <= b * BatchSize}
ItemsOf(x, b) == {x.asked[k] : k \in Slots(x, b)}

LEMMA BatchBounds ==
  ASSUME NEW S, NEW asked \in Seq(S)
  PROVE  LET n == Len(asked)  m == BatchCount(asked) IN
         /\ m \in Nat
         /\ \A b \in 1..m : /\ (b - 1) * BatchSize \in Nat /\ b * BatchSize \in Nat /\ (b - 1) * BatchSize + 1 <= n
                            /\ IF b = m THEN n <= b * BatchSize ELSE b * BatchSize <= n
         /\ \A k \in 1..n : \E b \in 1..m : (b - 1) * BatchSize < k /\ k <= b * BatchSize
         /\ \A b, d \in 1..m : b < d => b * BatchSize <= (d - 1) * BatchSize
  <1> DEFINE n == Len(asked)  m == BatchCount(asked)  d == BatchSize
  <1>1. n \in Nat /\ d \in Nat \ {0} /\ m = (n + d - 1) \div d /\ n + d - 1 \in Nat
    BY EmbeddingAssumption DEF BatchCount
  <1> HIDE DEF n, m, d
  <1>2. PICK r \in Nat : n + d - 1 = d * m + r /\ r < d /\ m \in Nat
    BY <1>1, Quotients
  <1>3. ASSUME NEW b \in 1..m
        PROVE  /\ (b - 1) * d \in Nat /\ b * d \in Nat /\ (b - 1) * d + 1 <= n
               /\ IF b = m THEN n <= b * d ELSE b * d <= n
    <2>1. b \in Int /\ m \in Int /\ 1 <= b /\ b <= m /\ b - 1 \in Int /\ 0 <= b - 1 /\ b - 1 < m /\ 0 \in Int
      BY <1>2
    <2>2. d * (b - 1) + d <= d * m /\ d * 0 <= d * (b - 1) /\ d * 0 <= d * b /\ d * b = b * d
          /\ d * (b - 1) = (b - 1) * d /\ (b < m => d * b + d <= d * m)
          /\ d * (b - 1) \in Int /\ d * b \in Int /\ d * m \in Int
      BY <1>1, <2>1, Multiples
    <2> QED
      BY <1>1, <1>2, <2>1, <2>2
  <1>4. ASSUME NEW k \in 1..n
        PROVE  \E b \in 1..m : (b - 1) * d < k /\ k <= b * d
    <2>1. k - 1 \in Nat /\ k \in Nat /\ k <= n
      BY <1>1
    <2>2. PICK q \in Nat, t \in Nat : k - 1 = d * q + t /\ t < d
      BY <1>1, <2>1, Quotients
    <2>3. q + 1 <= m
      <3>1. m <= q => d * m <= d * q
        BY <1>1, <1>2, Multiples
      <3>2. d * m \in Int /\ d * q \in Int
        BY <1>1, <1>2
      <3> QED
        BY <1>1, <1>2, <2>1, <2>2, <3>1, <3>2
    <2>4. q + 1 \in 1..m /\ (q + 1) - 1 = q
      BY <1>2, <2>3
    <2>5. q * d = d * q /\ (q + 1) * d = d * q + d /\ d * q \in Int
      BY <1>1
    <2>6. q * d < k /\ k <= (q + 1) * d
      BY <1>1, <2>1, <2>2, <2>5
    <2> QED
      BY <2>4, <2>6
  <1>5. ASSUME NEW b \in 1..m, NEW e \in 1..m, b < e  PROVE b * d <= (e - 1) * d
    <2>1. b \in Int /\ e - 1 \in Int /\ b <= e - 1
      BY <1>2, <1>5
    <2> QED
      BY <1>1, <2>1, Multiples
  <1> QED
    BY <1>2, <1>3, <1>4, <1>5 DEF n, m, d

Distinct(s) == \A j, k \in DOMAIN s : j # k => s[j] # s[k]

(* What create_batches makes of the indices asked for: every one of them   *)
(* is in one batch, and in one only.                                       *)
LEMMA BatchesPart ==
  ASSUME NEW S, NEW x, x.asked \in Seq(S), Distinct(x.asked)
  PROVE  LET all == 1..BatchCount(x.asked) IN
         /\ \A i \in Range(x.asked) : \E b \in all : i \in ItemsOf(x, b)
         /\ \A b \in all : ItemsOf(x, b) \subseteq Range(x.asked)
         /\ \A b, d \in all : b # d => ItemsOf(x, b) \cap ItemsOf(x, d) = {}
  <1> DEFINE m == BatchCount(x.asked)  n == Len(x.asked)
  <1>1. DOMAIN x.asked = 1..n /\ n \in Nat
    OBVIOUS
  <1>2. /\ m \in Nat
        /\ \A b \in 1..m : (b - 1) * BatchSize \in Nat /\ b * BatchSize \in Nat
        /\ \A k \in 1..n : \E b \in 1..m : (b - 1) * BatchSize < k /\ k <= b * BatchSize
        /\ \A b, d \in 1..m : b < d => b * BatchSize <= (d - 1) * BatchSize
    BY BatchBounds
  <1> HIDE DEF m, n
  <1>3. \A i \in Range(x.asked) : \E b \in 1..m : i \in ItemsOf(x, b)
    BY <1>1, <1>2 DEF Range, ItemsOf, Slots
  <1>4. \A b \in 1..m : ItemsOf(x, b) \subseteq Range(x.asked)
    BY DEF Range, ItemsOf, Slots
  <1>5. ASSUME NEW b \in 1..m, NEW d \in 1..m, b < d  PROVE Slots(x, b) \cap Slots(x, d) = {}
    BY <1>1, <1>2, <1>5 DEF Slots
  <1>6. ASSUME NEW b \in 1..m, NEW d \in 1..m, b # d  PROVE Slots(x, b) \cap Slots(x, d) = {}
    <2>1. b < d \/ d < b
      BY <1>2, <1>6
    <2> QED
      BY <1>5, <2>1
  <1>7. ASSUME NEW b \in 1..m, NEW d \in 1..m, b # d  PROVE ItemsOf(x, b) \cap ItemsOf(x, d) = {}
    BY <1>6, <1>7 DEF Distinct, ItemsOf, Slots
  <1> QED
    BY <1>3, <1>4, <1>7 DEF m

LEMMA BatchHolds ==
  ASSUME NEW S, NEW c, NEW x, x = embedding[c], x.asked \in Seq(S), Distinct(x.asked),
         NEW b \in 1..BatchCount(x.asked), NEW s, s = Batch(c, b)
  PROVE  s \in Seq(S) /\ Distinct(s) /\ Range(s) = ItemsOf(x, b)
  <1> DEFINE m == BatchCount(x.asked)  n == Len(x.asked)
             lo == (b - 1) * BatchSize + 1  hi == IF b = m THEN n ELSE b * BatchSize
  <1>1. DOMAIN x.asked = 1..n /\ n \in Nat
    OBVIOUS
  <1>2. /\ (b - 1) * BatchSize \in Nat /\ b * BatchSize \in Nat /\ lo \in Nat \ {0} /\ hi \in Nat
        /\ lo <= n /\ hi <= n /\ (b = m => n <= b * BatchSize)
    <2>1. \A e \in 1..m : /\ (e - 1) * BatchSize \in Nat /\ e * BatchSize \in Nat /\ (e - 1) * BatchSize + 1 <= n
                          /\ IF e = m THEN n <= e * BatchSize ELSE e * BatchSize <= n
      BY BatchBounds
    <2> DEFINE p == (b - 1) * BatchSize  q == b * BatchSize
    <2>2. p \in Nat /\ q \in Nat /\ p + 1 <= n /\ IF b = m THEN n <= q ELSE q <= n
      BY <2>1
    <2>3. lo = p + 1 /\ hi = IF b = m THEN n ELSE q
      OBVIOUS
    <2> HIDE DEF p, q, lo, hi, m, n
    <2>4. p \in Nat /\ q \in Nat /\ lo \in Nat \ {0} /\ hi \in Nat /\ lo <= n /\ hi <= n /\ (b = m => n <= q)
      BY <1>1, <2>2, <2>3 DEF n
    <2> QED
      BY <2>4 DEF p, q
  <1>3. s = SubSeq(x.asked, lo, hi)
    BY DEF Batch
  <1>4. Slots(x, b) = lo..hi
    <2>1. \A k \in 1..n : k > (b - 1) * BatchSize /\ k <= b * BatchSize <=> k >= lo /\ k <= hi
      BY <1>1, <1>2
    <2> QED
      BY <1>1, <1>2, <2>1 DEF Slots
  <1> HIDE DEF lo, hi, m, n
  <1>5. \A i \in lo..hi : i \in DOMAIN x.asked /\ x.asked[i] \in S
    BY <1>1, <1>2
  <1>6. /\ s \in Seq(S) /\ Len(s) = (IF lo <= hi THEN hi - lo + 1 ELSE 0)
        /\ \A i \in 1..(hi - lo + 1) : s[i] = x.asked[lo + i - 1]
    BY <1>2, <1>3, <1>5, SubSeqProperties
  <1>7. DOMAIN s = 1..(hi - lo + 1)
    <2>1. DOMAIN s = 1..Len(s) /\ lo \in Int /\ hi \in Int
      <3>1. s \in Seq(S) => DOMAIN s = 1..Len(s)
        OBVIOUS
      <3> QED
        BY <1>2, <1>6, <3>1
    <2>2. CASE lo <= hi
      BY <1>6, <2>1, <2>2
    <2>3. CASE ~(lo <= hi)
      <3>1. Len(s) = 0
        BY <1>6, <2>3
      <3>2. 1..0 = {} /\ 1..(hi - lo + 1) = {}
        BY <2>1, <2>3
      <3> QED
        BY <2>1, <3>1, <3>2
    <2> QED
      BY <2>2, <2>3
  <1>8. \A i \in DOMAIN s : lo + i - 1 \in lo..hi /\ s[i] = x.asked[lo + i - 1]
    <2>1. \A i \in 1..(hi - lo + 1) : lo + i - 1 \in lo..hi
      BY <1>2
    <2> QED
      BY <1>6, <1>7, <2>1
  <1>9. \A k \in lo..hi : k - lo + 1 \in DOMAIN s /\ s[k - lo + 1] = x.asked[k]
    <2> SUFFICES ASSUME NEW k \in lo..hi  PROVE k - lo + 1 \in DOMAIN s /\ s[k - lo + 1] = x.asked[k]
      OBVIOUS
    <2>1. k - lo + 1 \in DOMAIN s /\ lo + (k - lo + 1) - 1 = k
      BY <1>2, <1>7
    <2> QED
      BY <1>8, <2>1
  <1>10. Distinct(s)
    <2> SUFFICES ASSUME NEW j \in DOMAIN s, NEW k \in DOMAIN s, j # k  PROVE s[j] # s[k]
      BY DEF Distinct
    <2>1. lo + j - 1 # lo + k - 1
      <3>1. j \in Int /\ k \in Int /\ lo \in Int
        BY <1>2, <1>7
      <3> QED
        BY <3>1
    <2>2. lo + j - 1 \in DOMAIN x.asked /\ lo + k - 1 \in DOMAIN x.asked
      BY <1>5, <1>8
    <2> QED
      BY <1>8, <2>1, <2>2 DEF Distinct
  <1>11. Range(s) = ItemsOf(x, b)
    BY <1>4, <1>8, <1>9 DEF Range, ItemsOf
  <1> QED
    BY <1>6, <1>10, <1>11

(* The indices of a finite set of numbers, in order.                       *)
LEMMA AscendingHolds ==
  ASSUME NEW T, IsFiniteSet(T), NEW s \in Ascending(T)
  PROVE  s \in Seq(T) /\ Range(s) = T /\ Distinct(s)
  <1> DEFINE n == Cardinality(T)
  <1>1. n \in Nat
    BY FS_CardinalityType
  <1>2. s \in [1..n -> T] /\ \A i, k \in 1..n : i # k => s[i] # s[k]
    BY DEF Ascending, SetToSeqs
  <1>3. s \in Seq(T)
    BY <1>1, <1>2
  <1>4. s \in Injection(1..n, T)
    BY <1>2 DEF Injection, IsInjective
  <1>5. Cardinality(1..n) = n
    <2> HIDE DEF n
    <2> QED
      BY <1>1, FS_Interval
  <1>6. s \in Surjection(1..n, T)
    BY <1>4, <1>5, FS_Injection
  <1>7. \A t \in T : \E i \in DOMAIN s : s[i] = t
    BY <1>2, <1>6 DEF Surjection
  <1> QED
    BY <1>2, <1>3, <1>7 DEF Range, Distinct

LEMMA RemovedIsShorter ==
  ASSUME NEW S, NEW s \in Seq(S), NEW i \in DOMAIN s  PROVE Len(RemoveAt(s, i)) # Len(s)
  <1> DEFINE n == Len(s)  front == SubSeq(s, 1, i - 1)  back == SubSeq(s, i + 1, n)
  <1>1. n \in Nat /\ DOMAIN s = 1..n /\ i \in 1..n
    OBVIOUS
  <1>2. front \in Seq(S) /\ Len(front) = i - 1
    BY <1>1, SubSeqProperties
  <1>3. back \in Seq(S) /\ Len(back) = n - i
    BY <1>1, SubSeqProperties
  <1>4. RemoveAt(s, i) = front \o back
    BY DEF RemoveAt
  <1> HIDE DEF front, back, n
  <1>5. Len(front \o back) = (i - 1) + (n - i)
    BY <1>2, <1>3
  <1> QED
    BY <1>1, <1>4, <1>5 DEF n
-----------------------------------------------------------------------------
(* The inductive invariant.  While a call waits for a batch, the items of  *)
(* that batch have neither a vector nor an error; all the others have one  *)
(* of the two, and a vector is that of the item's own text.                *)
EmbedCalls ==
    [at : {"idle", "reading", "embedding", "told"}, texts : Seq(EmbedTexts),
     vectors : Seq(EmbedTexts \cup {NoVector}), errors : SUBSET Nat, asked : Seq(Nat),
     attempts : Seq(0..(MaxRetries + 1)), ended : SUBSET Nat, faulted : BOOLEAN,
     status : {"none", "success", "partial", "failure"}]

Waits(x, i) == \E b \in DOMAIN x.attempts \ x.ended : i \in ItemsOf(x, b)

ItemsTyped(x) ==
    /\ DOMAIN x.vectors = DOMAIN x.texts /\ x.errors \subseteq DOMAIN x.texts
    /\ Distinct(x.asked) /\ Range(x.asked) \subseteq DOMAIN x.texts
    /\ \A i \in DOMAIN x.texts : x.vectors[i] \in {NoVector, x.texts[i]}

ErrorsJustified(x) ==
    \A i \in x.errors : x.texts[i] \in Unfit \/ (x.faulted /\ i \in Range(x.asked))

ItemsSettled(x) ==
    /\ x.at # "embedding" => DOMAIN x.attempts \subseteq x.ended
    /\ x.at = "reading" =>
          /\ x.ended = {} /\ \A i \in x.errors : x.texts[i] \in Unfit
          /\ \A i \in DOMAIN x.texts : x.vectors[i] = NoVector
    /\ x.at = "embedding" =>
          /\ DOMAIN x.attempts = 1..BatchCount(x.asked) /\ x.ended \subseteq DOMAIN x.attempts
          /\ \A i \in DOMAIN x.texts :
                /\ (x.vectors[i] = NoVector) <=> (i \in x.errors \/ Waits(x, i))
                /\ Waits(x, i) => i \notin x.errors
    /\ x.at = "told" =>
          /\ \A i \in DOMAIN x.texts : (x.vectors[i] = NoVector) <=> i \in x.errors
          /\ (x.status = "success") <=> x.errors = {}

OwnVectors(x) == x \in EmbedCalls /\ ItemsTyped(x) /\ ErrorsJustified(x) /\ ItemsSettled(x)
OwnCache(cache) == \A t \in EmbedTexts : cache[t] \in {NoVector, t}

EmbeddingInv ==
    /\ vectorCache \in [EmbedTexts -> EmbedTexts \cup {NoVector, Malformed}] /\ OwnCache(vectorCache)
    /\ embedding \in [EmbedCallers -> EmbedCalls] /\ \A c \in EmbedCallers : OwnVectors(embedding[c])

LEMMA SeqElements ==
  /\ \A R, r : r \in Seq(R) => \A i \in DOMAIN r : r[i] \in R
  /\ \A R, S, r : r \in Seq(R) /\ R \subseteq S => r \in Seq(S)
  /\ \A R, e, n : n \in Nat /\ e \in R => [i \in 1..n |-> e] \in Seq(R)
  OBVIOUS

LEMMA EmbeddingInvImplies == EmbeddingInv => EmbeddingTypeOK /\ VectorsAreTheirOwn
  <1> SUFFICES ASSUME EmbeddingInv  PROVE EmbeddingTypeOK /\ VectorsAreTheirOwn
    OBVIOUS
  <1>1. vectorCache \in [EmbedTexts -> EmbedTexts \cup {NoVector, Malformed}]
    BY DEF EmbeddingInv
  <1>2. ASSUME NEW c \in EmbedCallers
        PROVE  /\ embedding[c].at \in {"idle", "reading", "embedding", "told"}
               /\ embedding[c].status \in {"none", "success", "partial", "failure"}
               /\ embedding[c].errors \subseteq DOMAIN embedding[c].texts
               /\ \A i \in DOMAIN embedding[c].attempts : embedding[c].attempts[i] \in 0..(MaxRetries + 1)
    <2>1. embedding[c] \in EmbedCalls /\ ItemsTyped(embedding[c])
      BY DEF EmbeddingInv, OwnVectors
    <2>2. embedding[c].attempts \in Seq(0..(MaxRetries + 1))
      BY <2>1 DEF EmbedCalls
    <2>3. \A i \in DOMAIN embedding[c].attempts : embedding[c].attempts[i] \in 0..(MaxRetries + 1)
      BY <2>2, SeqElements
    <2> QED
      BY <2>1, <2>3 DEF EmbedCalls, ItemsTyped
  <1>3. EmbeddingTypeOK
    BY <1>1, <1>2 DEF EmbeddingTypeOK
  <1>4. VectorsAreTheirOwn
    BY DEF EmbeddingInv, OwnVectors, ItemsTyped, ErrorsJustified, ItemsSettled, OwnCache, VectorsAreTheirOwn
  <1> QED
    BY <1>3, <1>4

(* A batch ends: those of its items that are bad are in error, the others  *)
(* have the vectors of their texts.                                        *)
LEMMA EndBatch ==
  ASSUME NEW x, OwnVectors(x), x.at = "embedding", NEW b \in DOMAIN x.attempts \ x.ended, NEW y \in EmbedCalls,
         NEW bad, bad \subseteq ItemsOf(x, b),
         y.at = x.at, y.texts = x.texts, y.asked = x.asked, y.attempts = x.attempts,
         y.ended = x.ended \cup {b}, y.errors = x.errors \cup bad, x.faulted \/ bad # {} => y.faulted,
         DOMAIN y.vectors = DOMAIN x.vectors,
         \A i \in DOMAIN x.vectors : y.vectors[i] = IF i \in ItemsOf(x, b) \ bad THEN x.texts[i] ELSE x.vectors[i]
  PROVE  OwnVectors(y)
  <1>1. x \in EmbedCalls /\ ItemsTyped(x) /\ ErrorsJustified(x) /\ ItemsSettled(x)
    BY DEF OwnVectors
  <1>2. x.asked \in Seq(Nat) /\ Distinct(x.asked) /\ x.texts \in Seq(EmbedTexts)
    BY <1>1 DEF EmbedCalls, ItemsTyped
  <1>3. DOMAIN x.attempts = 1..BatchCount(x.asked) /\ x.ended \subseteq DOMAIN x.attempts
    BY <1>1 DEF ItemsSettled
  <1>4. \A d : ItemsOf(y, d) = ItemsOf(x, d)
    BY DEF ItemsOf, Slots
  <1>5. /\ \A d \in DOMAIN x.attempts : ItemsOf(x, d) \subseteq Range(x.asked)
        /\ \A d, e \in DOMAIN x.attempts : d # e => ItemsOf(x, d) \cap ItemsOf(x, e) = {}
    BY <1>2, <1>3, BatchesPart
  <1>6. ItemsOf(x, b) \subseteq Range(x.asked) /\ Range(x.asked) \subseteq DOMAIN x.texts
    BY <1>1, <1>5 DEF ItemsTyped
  <1>7. \A i : Waits(y, i) <=> Waits(x, i) /\ i \notin ItemsOf(x, b)
    BY <1>4, <1>5 DEF Waits
  <1>8. ItemsTyped(y)
    BY <1>1, <1>6 DEF ItemsTyped
  <1>9. ErrorsJustified(y)
    BY <1>1, <1>6 DEF ErrorsJustified
  <1>10. ASSUME NEW i \in DOMAIN x.texts
         PROVE  /\ (y.vectors[i] = NoVector) <=> (i \in y.errors \/ Waits(y, i))
                /\ Waits(y, i) => i \notin y.errors
    <2>1. x.texts[i] # NoVector /\ DOMAIN x.vectors = DOMAIN x.texts
      BY <1>1, <1>2, EmbeddingAssumption DEF ItemsTyped
    <2>2. (x.vectors[i] = NoVector) <=> (i \in x.errors \/ Waits(x, i))
      BY <1>1 DEF ItemsSettled
    <2>3. Waits(x, i) => i \notin x.errors
      BY <1>1 DEF ItemsSettled
    <2>4. i \in ItemsOf(x, b) => Waits(x, i)
      BY DEF Waits
    <2> QED
      BY <1>7, <2>1, <2>2, <2>3, <2>4
  <1>11. ItemsSettled(y)
    BY <1>3, <1>10 DEF ItemsSettled
  <1> QED
    BY <1>8, <1>9, <1>11 DEF OwnVectors

(* What the provider answers, as far as it is used: for each text its own  *)
(* vector or a malformed one, or nothing at all.                           *)
LEMMA AnswersOf ==
  ASSUME NEW s \in Seq(EmbedTexts), NEW vectors \in Answers(s)
  PROVE  Len(vectors) = Len(s) =>
            /\ DOMAIN vectors = DOMAIN s
            /\ \A j \in DOMAIN s : vectors[j] \in {Malformed, s[j]}
  <1> SUFFICES ASSUME Len(vectors) = Len(s)
               PROVE  DOMAIN vectors = DOMAIN s /\ \A j \in DOMAIN s : vectors[j] \in {Malformed, s[j]}
    OBVIOUS
  <1>1. \A i \in DOMAIN s : vectors # RemoveAt(s, i)
    BY RemovedIsShorter
  <1>2. vectors = s \/ \E i \in DOMAIN s : vectors = [s EXCEPT ![i] = Malformed]
    BY <1>1 DEF Answers
  <1>3. s = [j \in DOMAIN s |-> s[j]]
    OBVIOUS
  <1> QED
    BY <1>2, <1>3

LEMMA FillEnds ==
  ASSUME NEW x, OwnVectors(x), x.at = "embedding", NEW b \in DOMAIN x.attempts \ x.ended,
         NEW s \in Seq(Nat), Distinct(s), Range(s) = ItemsOf(x, b),
         NEW v, DOMAIN v \subseteq DOMAIN s, \A j \in DOMAIN v : v[j] \in {Malformed, x.texts[s[j]]}
  PROVE  OwnVectors(Fill(x, b, s, v))
  <1> DEFINE y == Fill(x, b, s, v)
             good == {j \in DOMAIN v : v[j] # Malformed}
             bad == {s[j] : j \in DOMAIN s \ good}
             Filled(i) == \E j \in good : s[j] = i
             vecs == [i \in DOMAIN x.vectors |-> IF Filled(i) THEN v[CHOOSE j \in good : s[j] = i] ELSE x.vectors[i]]
  <1>1. x \in EmbedCalls /\ ItemsTyped(x) /\ ErrorsJustified(x) /\ ItemsSettled(x)
    BY DEF OwnVectors
  <1>2. x.asked \in Seq(Nat) /\ Distinct(x.asked) /\ x.texts \in Seq(EmbedTexts)
        /\ DOMAIN x.attempts = 1..BatchCount(x.asked) /\ x.ended \subseteq DOMAIN x.attempts
        /\ DOMAIN x.vectors = DOMAIN x.texts /\ Range(x.asked) \subseteq DOMAIN x.texts
    BY <1>1 DEF EmbedCalls, ItemsTyped, ItemsSettled
  <1>3. ItemsOf(x, b) \subseteq DOMAIN x.texts
    BY <1>2, BatchesPart
  <1>4. y = [x EXCEPT !.ended = x.ended \cup {b}, !.errors = x.errors \cup bad,
                      !.faulted = x.faulted \/ bad # {}, !.vectors = vecs]
    BY DEF Fill
  <1>5. bad \subseteq ItemsOf(x, b)
    BY DEF Range
  <1>6. ASSUME NEW i \in DOMAIN x.vectors
        PROVE  vecs[i] = IF i \in ItemsOf(x, b) \ bad THEN x.texts[i] ELSE x.vectors[i]
    <2>1. CASE i \in ItemsOf(x, b) \ bad
      <3>1. PICK j \in DOMAIN s : s[j] = i
        BY <2>1 DEF Range
      <3>2. j \in good
        BY <2>1, <3>1
      <3>3. \A k \in good : s[k] = i => k = j
        BY <3>1, <3>2 DEF Distinct
      <3>4. (CHOOSE k \in good : s[k] = i) = j
        BY <3>1, <3>2, <3>3
      <3>5. v[j] = x.texts[i]
        BY <3>1, <3>2
      <3> QED
        BY <2>1, <3>1, <3>2, <3>4, <3>5
    <2>2. CASE i \notin ItemsOf(x, b) \ bad
      <3>1. ~Filled(i)
        <4>1. SUFFICES ASSUME NEW j \in good, s[j] = i  PROVE FALSE
          OBVIOUS
        <4>2. i \in ItemsOf(x, b)
          BY <4>1 DEF Range
        <4>3. PICK k \in DOMAIN s \ good : s[k] = i
          BY <2>2, <4>2
        <4> QED
          BY <4>1, <4>3 DEF Distinct
      <3> QED
        BY <2>2, <3>1
    <2> QED
      BY <2>1, <2>2
  <1>7. \A i \in DOMAIN x.vectors : vecs[i] \in EmbedTexts \cup {NoVector}
    <2>1. \A i \in DOMAIN x.texts : x.texts[i] \in EmbedTexts
      BY <1>2
    <2>2. \A i \in DOMAIN x.texts : x.vectors[i] \in EmbedTexts \cup {NoVector}
      BY <1>1, <2>1 DEF ItemsTyped
    <2> HIDE DEF vecs, bad
    <2> QED
      BY <1>2, <1>6, <2>1, <2>2
  <1>8. DOMAIN vecs = DOMAIN x.vectors /\ vecs \in Seq(EmbedTexts \cup {NoVector})
    <2>1. DOMAIN vecs = DOMAIN x.vectors /\ vecs = [i \in DOMAIN x.vectors |-> vecs[i]]
      OBVIOUS
    <2>2. x.vectors \in Seq(EmbedTexts \cup {NoVector})
      BY <1>1 DEF EmbedCalls
    <2>3. PICK n \in Nat : DOMAIN x.vectors = 1..n
      BY <2>2
    <2> HIDE DEF vecs
    <2> QED
      BY <1>7, <2>1, <2>3
  <1> HIDE DEF vecs, bad
  <1>9. b \in Nat /\ bad \subseteq Nat
    <2>1. DOMAIN x.attempts \subseteq Nat /\ DOMAIN x.texts \subseteq Nat
      BY <1>1 DEF EmbedCalls
    <2> QED
      BY <1>3, <1>5, <2>1
  <1>10. y \in EmbedCalls
    <2>1. x.ended \cup {b} \in SUBSET Nat /\ x.errors \cup bad \in SUBSET Nat /\ (x.faulted \/ bad # {}) \in BOOLEAN
      BY <1>1, <1>9 DEF EmbedCalls
    <2> DEFINE e == x.ended \cup {b}  r == x.errors \cup bad  f == (x.faulted \/ bad # {})
    <2>2. y = [x EXCEPT !.ended = e, !.errors = r, !.faulted = f, !.vectors = vecs]
      BY <1>4
    <2> HIDE DEF e, r, f, y
    <2>3. e \in SUBSET Nat /\ r \in SUBSET Nat /\ f \in BOOLEAN
      BY <2>1 DEF e, r, f
    <2> QED
      BY <1>1, <1>8, <2>2, <2>3 DEF EmbedCalls
  <1>11. /\ y.at = x.at /\ y.texts = x.texts /\ y.asked = x.asked /\ y.attempts = x.attempts
         /\ y.ended = x.ended \cup {b} /\ y.errors = x.errors \cup bad /\ y.vectors = vecs
         /\ y.faulted = (x.faulted \/ bad # {})
    BY <1>1, <1>4 DEF EmbedCalls
  <1>12. OwnVectors(y)
    <2> HIDE DEF y
    <2> QED
      BY <1>5, <1>6, <1>8, <1>10, <1>11, EndBatch
  <1> QED
    BY <1>12

LEMMA NoCallOwns ==
  /\ NoCall \in EmbedCalls /\ OwnVectors(NoCall)
  /\ NoCall.asked = <<>> /\ NoCall.ended = {} /\ NoCall.attempts = <<>>
  <1>1. NoCall \in EmbedCalls
    BY EmbeddingAssumption DEF NoCall, EmbedCalls
  <1>2. OwnVectors(NoCall)
    BY <1>1 DEF NoCall, OwnVectors, ItemsTyped, ErrorsJustified, ItemsSettled, Distinct, Range
  <1> QED
    BY <1>1, <1>2 DEF NoCall

LEMMA EmbeddingInitInv == EmbeddingInit => EmbeddingInv
  <1>1. EmbeddingInit => embedding \in [EmbedCallers -> EmbedCalls] /\ \A c \in EmbedCallers : OwnVectors(embedding[c])
    BY NoCallOwns DEF EmbeddingInit
  <1>2. EmbeddingInit => vectorCache \in [EmbedTexts -> EmbedTexts \cup {NoVector, Malformed}] /\ OwnCache(vectorCache)
    BY DEF EmbeddingInit, OwnCache
  <1> QED
    BY <1>1, <1>2 DEF EmbeddingInv

(* What a call becomes is all there is to show of a step of it that leaves *)
(* the cache alone.                                                        *)
LEMMA CallStep ==
  ASSUME EmbeddingInv, NEW c \in EmbedCallers, NEW x, OwnVectors(x), CallBecomes(c, x),
         vectorCache' \in [EmbedTexts -> EmbedTexts \cup {NoVector, Malformed}], OwnCache(vectorCache')
  PROVE  EmbeddingInv'
  <1>1. embedding' = [embedding EXCEPT ![c] = x] /\ x \in EmbedCalls
    BY DEF CallBecomes, OwnVectors
  <1>2. embedding' \in [EmbedCallers -> EmbedCalls]
    BY <1>1 DEF EmbeddingInv
  <1>3. \A d \in EmbedCallers : OwnVectors(embedding'[d])
    <2> SUFFICES ASSUME NEW d \in EmbedCallers  PROVE OwnVectors(embedding'[d])
      OBVIOUS
    <2>1. embedding'[d] = IF d = c THEN x ELSE embedding[d]
      BY <1>1 DEF EmbeddingInv
    <2>2. OwnVectors(embedding[d])
      BY DEF EmbeddingInv
    <2> QED
      BY <2>1, <2>2
  <1>4. \A d \in EmbedCallers : OwnVectors(embedding[d])'
    BY <1>3
  <1> QED
    BY <1>2, <1>4 DEF EmbeddingInv

LEMMA BeginsOwn ==
  ASSUME NEW texts \in Inputs
  PROVE  OwnVectors([NoCall EXCEPT !.at = "reading", !.texts = texts,
                     !.vectors = [i \in DOMAIN texts |-> NoVector],
                     !.errors = {i \in DOMAIN texts : texts[i] \in Unfit}])
  <1> DEFINE vecs == [i \in DOMAIN texts |-> NoVector]
             unfit == {i \in DOMAIN texts : texts[i] \in Unfit}
             x == [NoCall EXCEPT !.at = "reading", !.texts = texts, !.vectors = vecs, !.errors = unfit]
  <1>1. texts \in Seq(EmbedTexts)
    BY EmbeddingAssumption
  <1>2. vecs \in Seq(EmbedTexts \cup {NoVector}) /\ DOMAIN vecs = DOMAIN texts /\ \A i \in DOMAIN texts : vecs[i] = NoVector
    BY <1>1
  <1>3. unfit \in SUBSET Nat /\ unfit \subseteq DOMAIN texts /\ \A i \in unfit : texts[i] \in Unfit
    BY <1>1
  <1> HIDE DEF vecs, unfit
  <1>4. NoCall \in EmbedCalls /\ NoCall.asked = <<>> /\ NoCall.ended = {} /\ NoCall.attempts = <<>>
    BY NoCallOwns
  <1>5. /\ x \in EmbedCalls /\ x.at = "reading" /\ x.texts = texts /\ x.vectors = vecs /\ x.errors = unfit
        /\ x.asked = <<>> /\ x.ended = {} /\ x.attempts = <<>>
    BY <1>1, <1>2, <1>3, <1>4 DEF EmbedCalls
  <1>6. OwnVectors(x)
    <2> HIDE DEF x
    <2>1. Distinct(x.asked) /\ Range(x.asked) = {}
      BY <1>5 DEF Distinct, Range
    <2>2. ItemsTyped(x)
      BY <1>2, <1>3, <1>5, <2>1 DEF ItemsTyped
    <2>3. ErrorsJustified(x)
      BY <1>3, <1>5 DEF ErrorsJustified
    <2>4. DOMAIN x.attempts = {}
      BY <1>5
    <2>5. ItemsSettled(x)
      BY <1>2, <1>3, <1>5, <2>4 DEF ItemsSettled
    <2> QED
      BY <1>5, <2>2, <2>3, <2>5 DEF OwnVectors
  <1> QED
    BY <1>6 DEF vecs, unfit

HasRead(x, found, hits, asked) ==
    [x EXCEPT !.at = "embedding",
              !.vectors = [i \in DOMAIN x.texts |-> IF i \in hits THEN found[x.texts[i]] ELSE NoVector],
              !.asked = asked, !.attempts = [b \in 1..BatchCount(asked) |-> 0]]

(* What is found of the cache, and what is asked for.                      *)
LEMMA ReadsOwn ==
  ASSUME NEW x, OwnVectors(x), x.at = "reading", NEW found, OwnCache(found),
         NEW hits, hits = {i \in DOMAIN x.texts \ x.errors : found[x.texts[i]] \notin {NoVector, Malformed}},
         NEW asked \in Ascending((DOMAIN x.texts \ x.errors) \ hits)
  PROVE  OwnVectors(HasRead(x, found, hits, asked))
  <1> DEFINE vecs == [i \in DOMAIN x.texts |-> IF i \in hits THEN found[x.texts[i]] ELSE NoVector]
             requests == [b \in 1..BatchCount(asked) |-> 0]
             rest == (DOMAIN x.texts \ x.errors) \ hits
             y == [x EXCEPT !.at = "embedding", !.vectors = vecs, !.asked = asked, !.attempts = requests]
  <1>1. x \in EmbedCalls /\ ItemsTyped(x) /\ ErrorsJustified(x) /\ ItemsSettled(x)
    BY DEF OwnVectors
  <1>2. x.texts \in Seq(EmbedTexts)
    BY <1>1 DEF EmbedCalls
  <1>3. \A i \in DOMAIN x.texts : x.texts[i] \in EmbedTexts /\ x.texts[i] # NoVector
    BY <1>2, EmbeddingAssumption
  <1>4. PICK n \in Nat : DOMAIN x.texts = 1..n
    BY <1>2
  <1>5. asked \in Seq(rest) /\ Range(asked) = rest /\ Distinct(asked)
    <2>1. IsFiniteSet(1..n)
      BY <1>4, FS_Interval
    <2>2. IsFiniteSet(rest)
      BY <1>4, <2>1, FS_Subset
    <2> HIDE DEF rest
    <2> QED
      BY <2>2, AscendingHolds DEF rest
  <1>6. asked \in Seq(Nat)
    <2>1. rest \subseteq Nat
      BY <1>4
    <2> HIDE DEF rest
    <2> QED
      BY <1>5, <2>1, SeqElements
  <1>7. requests \in Seq(0..(MaxRetries + 1)) /\ DOMAIN requests = 1..BatchCount(asked)
    <2>1. BatchCount(asked) \in Nat
      BY <1>6, BatchBounds
    <2>2. 0 \in 0..(MaxRetries + 1)
      BY EmbeddingAssumption
    <2> DEFINE m == BatchCount(asked)
    <2> HIDE DEF m
    <2> QED
      BY <2>1, <2>2, SeqElements DEF m
  <1>8. /\ vecs \in Seq(EmbedTexts \cup {NoVector}) /\ DOMAIN vecs = DOMAIN x.texts
        /\ \A i \in DOMAIN x.texts : /\ vecs[i] \in {NoVector, x.texts[i]}
                                     /\ (vecs[i] = NoVector) <=> i \notin hits
    <2>1. \A i \in DOMAIN x.texts : /\ vecs[i] \in {NoVector, x.texts[i]}
                                    /\ (vecs[i] = NoVector) <=> i \notin hits
      BY <1>3 DEF OwnCache
    <2>2. DOMAIN vecs = DOMAIN x.texts /\ vecs = [i \in DOMAIN x.texts |-> vecs[i]]
      OBVIOUS
    <2> HIDE DEF vecs
    <2> QED
      BY <1>3, <1>4, <2>1, <2>2
  <1> HIDE DEF vecs, requests
  <1>9. /\ y \in EmbedCalls /\ y.at = "embedding" /\ y.texts = x.texts /\ y.vectors = vecs /\ y.asked = asked
        /\ y.attempts = requests /\ y.ended = x.ended /\ y.errors = x.errors /\ y.faulted = x.faulted
    BY <1>1, <1>6, <1>7, <1>8 DEF EmbedCalls
  <1> HIDE DEF y, rest
  <1>10. Range(asked) \subseteq DOMAIN x.texts
    BY <1>5 DEF rest
  <1>11. ItemsTyped(y)
    BY <1>1, <1>5, <1>8, <1>9, <1>10 DEF ItemsTyped
  <1>12. ErrorsJustified(y)
    <2>1. \A i \in x.errors : x.texts[i] \in Unfit
      BY <1>1 DEF ItemsSettled
    <2> QED
      BY <1>9, <2>1 DEF ErrorsJustified
  <1>13. \A i \in DOMAIN x.texts : Waits(y, i) <=> i \in rest
    <2>1. /\ \A i \in Range(y.asked) : \E b \in 1..BatchCount(y.asked) : i \in ItemsOf(y, b)
          /\ \A b \in 1..BatchCount(y.asked) : ItemsOf(y, b) \subseteq Range(y.asked)
      BY <1>5, <1>6, <1>9, BatchesPart
    <2>2. x.ended = {}
      BY <1>1 DEF ItemsSettled
    <2> QED
      BY <1>5, <1>7, <1>9, <2>1, <2>2 DEF Waits
  <1>14. ItemsSettled(y)
    <2>1. x.ended = {}
      BY <1>1 DEF ItemsSettled
    <2>2. \A i \in DOMAIN x.texts : i \in hits <=> i \notin x.errors /\ i \notin rest
      BY DEF rest
    <2> QED
      BY <1>7, <1>8, <1>9, <1>13, <2>1, <2>2 DEF ItemsSettled, rest
  <1> QED
    BY <1>9, <1>11, <1>12, <1>14 DEF OwnVectors, HasRead, y, vecs, requests

(* A request is made for a batch.                                          *)
LEMMA RequestsOwn ==
  ASSUME NEW x, OwnVectors(x), x.at = "embedding", NEW b \in DOMAIN x.attempts, NEW k \in 0..(MaxRetries + 1)
  PROVE  OwnVectors([x EXCEPT !.attempts[b] = k])
  <1> DEFINE requests == [x.attempts EXCEPT ![b] = k]
             y == [x EXCEPT !.attempts = requests]
  <1>1. x \in EmbedCalls /\ ItemsTyped(x) /\ ErrorsJustified(x) /\ ItemsSettled(x)
    BY DEF OwnVectors
  <1>2. x.attempts \in Seq(0..(MaxRetries + 1))
    BY <1>1 DEF EmbedCalls
  <1>3. requests \in Seq(0..(MaxRetries + 1)) /\ DOMAIN requests = DOMAIN x.attempts
    BY <1>2
  <1>4. y = [x EXCEPT !.attempts[b] = k]
    BY <1>1 DEF EmbedCalls
  <1> HIDE DEF requests
  <1>5. /\ y \in EmbedCalls /\ y.at = x.at /\ y.texts = x.texts /\ y.vectors = x.vectors /\ y.asked = x.asked
        /\ y.attempts = requests /\ y.ended = x.ended /\ y.errors = x.errors /\ y.faulted = x.faulted
    BY <1>1, <1>3 DEF EmbedCalls
  <1> HIDE DEF y
  <1>6. \A i : Waits(y, i) <=> Waits(x, i)
    BY <1>3, <1>5 DEF Waits, ItemsOf, Slots
  <1>7. ItemsTyped(y) /\ ErrorsJustified(y)
    BY <1>1, <1>5 DEF ItemsTyped, ErrorsJustified
  <1>8. ItemsSettled(y)
    BY <1>1, <1>3, <1>5, <1>6 DEF ItemsSettled
  <1> QED
    BY <1>4, <1>5, <1>7, <1>8 DEF OwnVectors

(* All batches have ended: nothing waits, and what has no vector is in     *)
(* error.                                                                  *)
LEMMA TellsOwn ==
  ASSUME NEW x, OwnVectors(x), x.at = "embedding", x.ended = DOMAIN x.attempts,
         NEW made, made = {i \in DOMAIN x.vectors : x.vectors[i] # NoVector /\ i \notin x.errors},
         NEW s, s = IF made = DOMAIN x.texts THEN "success" ELSE IF made = {} THEN "failure" ELSE "partial"
  PROVE  OwnVectors([x EXCEPT !.at = "told", !.status = s])
  <1> DEFINE y == [x EXCEPT !.at = "told", !.status = s]
  <1>1. x \in EmbedCalls /\ ItemsTyped(x) /\ ErrorsJustified(x) /\ ItemsSettled(x)
    BY DEF OwnVectors
  <1>2. s \in {"none", "success", "partial", "failure"}
    OBVIOUS
  <1>3. /\ y \in EmbedCalls /\ y.at = "told" /\ y.texts = x.texts /\ y.vectors = x.vectors /\ y.asked = x.asked
        /\ y.errors = x.errors /\ y.faulted = x.faulted /\ y.status = s
        /\ y.attempts = x.attempts /\ y.ended = x.ended
    BY <1>1, <1>2 DEF EmbedCalls
  <1> HIDE DEF y
  <1>4. \A i : ~Waits(x, i)
    BY DEF Waits
  <1>5. \A i \in DOMAIN x.texts : (x.vectors[i] = NoVector) <=> i \in x.errors
    BY <1>1, <1>4 DEF ItemsSettled
  <1>6. DOMAIN x.vectors = DOMAIN x.texts /\ x.errors \subseteq DOMAIN x.texts
    BY <1>1 DEF ItemsTyped
  <1>7. made = DOMAIN x.texts <=> x.errors = {}
    BY <1>5, <1>6
  <1>8. ItemsTyped(y) /\ ErrorsJustified(y)
    BY <1>1, <1>3 DEF ItemsTyped, ErrorsJustified
  <1>9. s = "success" <=> x.errors = {}
    BY <1>7
  <1>10. ItemsSettled(y)
    BY <1>3, <1>5, <1>9 DEF ItemsSettled
  <1> QED
    BY <1>3, <1>8, <1>10 DEF OwnVectors, y

LEMMA CachesOwn ==
  ASSUME NEW x, OwnVectors(x), NEW cache, OwnCache(cache),
         cache \in [EmbedTexts -> EmbedTexts \cup {NoVector, Malformed}]
  PROVE  LET filled == [t \in EmbedTexts |->
                          IF \E i \in Computed(x) : x.texts[i] = t
                          THEN x.vectors[CHOOSE i \in Computed(x) : x.texts[i] = t] ELSE cache[t]]
         IN filled \in [EmbedTexts -> EmbedTexts \cup {NoVector, Malformed}] /\ OwnCache(filled)
  <1> DEFINE Own(t) == \E i \in Computed(x) : x.texts[i] = t
             Its(t) == CHOOSE i \in Computed(x) : x.texts[i] = t
             filled == [t \in EmbedTexts |-> IF Own(t) THEN x.vectors[Its(t)] ELSE cache[t]]
  <1>1. ItemsTyped(x)
    BY DEF OwnVectors
  <1>2. ASSUME NEW t \in EmbedTexts  PROVE filled[t] \in {NoVector, t}
    <2>1. CASE Own(t)
      <3>1. Its(t) \in Computed(x) /\ x.texts[Its(t)] = t
        BY <2>1
      <3>2. Its(t) \in DOMAIN x.texts
        BY <1>1, <3>1 DEF Computed, ItemsTyped
      <3>3. x.vectors[Its(t)] \in {NoVector, x.texts[Its(t)]}
        BY <1>1, <3>2 DEF ItemsTyped
      <3> HIDE DEF Its
      <3> QED
        BY <2>1, <3>1, <3>3
    <2>2. CASE ~Own(t)
      BY <2>2 DEF OwnCache
    <2> QED
      BY <2>1, <2>2
  <1>3. filled = [t \in EmbedTexts |-> filled[t]]
    OBVIOUS
  <1> HIDE DEF filled
  <1>4. OwnCache(filled) /\ filled \in [EmbedTexts -> EmbedTexts \cup {NoVector, Malformed}]
    BY <1>2, <1>3 DEF OwnCache
  <1> QED
    BY <1>4 DEF filled

(* What a batch of a call asks for.                                        *)
LEMMA AsksFor ==
  ASSUME EmbeddingInv, NEW c \in EmbedCallers, NEW x, x = embedding[c], x.at = "embedding",
         NEW b \in DOMAIN x.attempts, NEW s, s = Batch(c, b)
  PROVE  /\ s \in Seq(Nat) /\ Distinct(s) /\ Range(s) = ItemsOf(x, b)
         /\ [j \in DOMAIN s |-> x.texts[s[j]]] \in Seq(EmbedTexts)
         /\ Len([j \in DOMAIN s |-> x.texts[s[j]]]) = Len(s)
  <1>1. OwnVectors(x)
    BY DEF EmbeddingInv
  <1>2. x \in EmbedCalls /\ ItemsTyped(x) /\ ItemsSettled(x)
    BY <1>1 DEF OwnVectors
  <1>3. x.asked \in Seq(Nat) /\ Distinct(x.asked) /\ b \in 1..BatchCount(x.asked) /\ x.texts \in Seq(EmbedTexts)
    BY <1>2 DEF EmbedCalls, ItemsTyped, ItemsSettled
  <1>4. s \in Seq(Nat) /\ Distinct(s) /\ Range(s) = ItemsOf(x, b)
    BY <1>3, BatchHolds
  <1>5. ItemsOf(x, b) \subseteq DOMAIN x.texts
    BY <1>2, <1>3, BatchesPart DEF ItemsTyped
  <1>6. \A j \in DOMAIN s : x.texts[s[j]] \in EmbedTexts
    BY <1>3, <1>4, <1>5 DEF Range
  <1>7. [j \in DOMAIN s |-> x.texts[s[j]]] \in Seq(EmbedTexts) /\ Len([j \in DOMAIN s |-> x.texts[s[j]]]) = Len(s)
    BY <1>4, <1>6
  <1> QED
    BY <1>4, <1>7

LEMMA InFlightWaits ==
  ASSUME EmbeddingInv, NEW c \in EmbedCallers, NEW b \in InFlight(c)
  PROVE  /\ b \in DOMAIN embedding[c].attempts \ embedding[c].ended
         /\ embedding[c].at = "embedding" /\ embedding[c].attempts[b] \in 1..(MaxRetries + 1)
  <1>1. embedding[c] \in EmbedCalls /\ ItemsSettled(embedding[c])
    BY DEF EmbeddingInv, OwnVectors
  <1>2. embedding[c].attempts \in Seq(0..(MaxRetries + 1))
    BY <1>1 DEF EmbedCalls
  <1>3. embedding[c].attempts[b] \in 0..(MaxRetries + 1)
    BY <1>2, SeqElements DEF InFlight
  <1> QED
    BY <1>1, <1>3, EmbeddingAssumption DEF InFlight, ItemsSettled

LEMMA RequestKeeps ==
  ASSUME EmbeddingInv, NEW c \in EmbedCallers, NEW b \in DOMAIN embedding[c].attempts,
         StartBatch(c, b) \/ RetryBatch(c, b)
  PROVE  EmbeddingInv'
  <1> DEFINE x == embedding[c]
  <1>1. x.at = "embedding" /\ OwnVectors(x)
    BY InFlightWaits DEF StartBatch, RetryBatch, EmbeddingInv
  <1>2. \E k \in 0..(MaxRetries + 1) : CallBecomes(c, [x EXCEPT !.attempts[b] = k])
    <2>1. CASE StartBatch(c, b)
      <3>1. 1 \in 0..(MaxRetries + 1)
        BY EmbeddingAssumption
      <3> QED
        BY <2>1, <3>1 DEF StartBatch
    <2>2. CASE RetryBatch(c, b)
      <3> DEFINE k == x.attempts[b] + 1
      <3>1. k \in 0..(MaxRetries + 1)
        BY <2>2, InFlightWaits, EmbeddingAssumption DEF RetryBatch
      <3>2. CallBecomes(c, [x EXCEPT !.attempts[b] = k])
        BY <2>2 DEF RetryBatch
      <3> HIDE DEF k
      <3> QED
        BY <3>1, <3>2
    <2> QED
      BY <2>1, <2>2
  <1>3. PICK y : OwnVectors(y) /\ CallBecomes(c, y)
    BY <1>1, <1>2, RequestsOwn
  <1>4. vectorCache' = vectorCache
    BY DEF StartBatch, RetryBatch
  <1> QED
    BY <1>3, <1>4, CallStep DEF EmbeddingInv

LEMMA BatchFailsKeeps ==
  ASSUME EmbeddingInv, NEW c \in EmbedCallers, NEW b, BatchFails(c, b)
  PROVE  EmbeddingInv'
  <1> DEFINE x == embedding[c]  failed == Range(Batch(c, b))
             y == [x EXCEPT !.ended = x.ended \cup {b}, !.faulted = TRUE, !.errors = x.errors \cup failed]
  <1>1. x.at = "embedding" /\ OwnVectors(x) /\ b \in DOMAIN x.attempts \ x.ended
    BY InFlightWaits DEF BatchFails, EmbeddingInv
  <1>2. CallBecomes(c, y) /\ vectorCache' = vectorCache
    BY DEF BatchFails
  <1>3. failed = ItemsOf(x, b) /\ failed \subseteq Nat
    <2>1. Batch(c, b) \in Seq(Nat) /\ failed = ItemsOf(x, b)
      BY <1>1, AsksFor
    <2> QED
      BY <2>1 DEF Range
  <1>4. x \in EmbedCalls /\ b \in Nat
    BY <1>1 DEF OwnVectors, EmbedCalls
  <1> HIDE DEF failed
  <1>5. /\ y \in EmbedCalls /\ y.at = x.at /\ y.texts = x.texts /\ y.asked = x.asked /\ y.attempts = x.attempts
        /\ y.ended = x.ended \cup {b} /\ y.errors = x.errors \cup failed /\ y.vectors = x.vectors /\ y.faulted
    BY <1>3, <1>4 DEF EmbedCalls
  <1> HIDE DEF y, x
  <1>6. OwnVectors(y)
    BY <1>1, <1>3, <1>5, EndBatch
  <1> QED
    BY <1>2, <1>6, CallStep DEF EmbeddingInv

LEMMA AnswerKeeps ==
  ASSUME EmbeddingInv, NEW c \in EmbedCallers, NEW b, AnswerBatch(c, b)
  PROVE  EmbeddingInv'
  <1> DEFINE x == embedding[c]  s == Batch(c, b)  asks == [j \in DOMAIN s |-> x.texts[s[j]]]
  <1>1. x.at = "embedding" /\ OwnVectors(x) /\ b \in DOMAIN x.attempts \ x.ended
    BY InFlightWaits DEF AnswerBatch, EmbeddingInv
  <1>2. PICK vectors \in Answers(asks) :
           CallBecomes(c, Fill(x, b, s, IF Len(vectors) = Len(s) THEN vectors ELSE <<>>))
    BY DEF AnswerBatch
  <1>3. s \in Seq(Nat) /\ Distinct(s) /\ Range(s) = ItemsOf(x, b) /\ asks \in Seq(EmbedTexts) /\ Len(asks) = Len(s)
    BY <1>1, AsksFor
  <1> DEFINE v == IF Len(vectors) = Len(s) THEN vectors ELSE <<>>
  <1>4. DOMAIN asks = DOMAIN s /\ \A j \in DOMAIN s : asks[j] = x.texts[s[j]]
    OBVIOUS
  <1> HIDE DEF asks, s
  <1>5. Len(vectors) = Len(s) => DOMAIN vectors = DOMAIN s /\ \A j \in DOMAIN s : vectors[j] \in {Malformed, asks[j]}
    BY <1>3, <1>4, AnswersOf
  <1>6. DOMAIN v \subseteq DOMAIN s /\ \A j \in DOMAIN v : v[j] \in {Malformed, x.texts[s[j]]}
    BY <1>4, <1>5
  <1>7. CallBecomes(c, Fill(x, b, s, v))
    BY <1>2
  <1> HIDE DEF v, x
  <1>8. OwnVectors(Fill(x, b, s, v))
    BY <1>1, <1>3, <1>6, FillEnds
  <1>9. vectorCache' = vectorCache
    BY DEF AnswerBatch
  <1> QED
    BY <1>7, <1>8, <1>9, CallStep DEF EmbeddingInv

LEMMA TellKeeps ==
  ASSUME EmbeddingInv, NEW c \in EmbedCallers, TellItems(c)
  PROVE  EmbeddingInv'
  <1> DEFINE x == embedding[c]
             made == {i \in DOMAIN x.vectors : x.vectors[i] # NoVector /\ i \notin x.errors}
             s == IF made = DOMAIN x.texts THEN "success" ELSE IF made = {} THEN "failure" ELSE "partial"
             y == [x EXCEPT !.at = "told", !.status = s]
  <1>1. x.at = "embedding" /\ OwnVectors(x) /\ x.ended = DOMAIN x.attempts /\ CallBecomes(c, y)
    BY DEF TellItems, EmbeddingInv
  <1>2. OwnVectors(y)
    BY <1>1, TellsOwn
  <1>3. vectorCache' \in [EmbedTexts -> EmbedTexts \cup {NoVector, Malformed}] /\ OwnCache(vectorCache')
    BY <1>1, CachesOwn DEF TellItems, EmbeddingInv
  <1> QED
    BY <1>1, <1>2, <1>3, CallStep

LEMMA ReadKeeps ==
  ASSUME EmbeddingInv, NEW c \in EmbedCallers, ReadVectors(c)
  PROVE  EmbeddingInv'
  <1> DEFINE x == embedding[c]  fit == DOMAIN x.texts \ x.errors
             Hits(found) == {i \in fit : found[x.texts[i]] \notin {NoVector, Malformed}}
  <1>1. x.at = "reading" /\ OwnVectors(x) /\ vectorCache' = vectorCache
    BY DEF ReadVectors, EmbeddingInv
  <1>2. PICK found \in {vectorCache, [t \in EmbedTexts |-> NoVector]} :
           \E asked \in Ascending(fit \ Hits(found)) :
              CallBecomes(c, [x EXCEPT !.at = "embedding",
                 !.vectors = [i \in DOMAIN x.texts |-> IF i \in Hits(found) THEN found[x.texts[i]] ELSE NoVector],
                 !.asked = asked, !.attempts = [b \in 1..BatchCount(asked) |-> 0]])
    BY DEF ReadVectors
  <1>3. OwnCache(found)
    BY <1>2 DEF OwnCache, EmbeddingInv
  <1>4. PICK asked \in Ascending(fit \ Hits(found)) :
           CallBecomes(c, [x EXCEPT !.at = "embedding",
              !.vectors = [i \in DOMAIN x.texts |-> IF i \in Hits(found) THEN found[x.texts[i]] ELSE NoVector],
              !.asked = asked, !.attempts = [b \in 1..BatchCount(asked) |-> 0]])
    BY <1>2
  <1> DEFINE y == [x EXCEPT !.at = "embedding",
              !.vectors = [i \in DOMAIN x.texts |-> IF i \in Hits(found) THEN found[x.texts[i]] ELSE NoVector],
              !.asked = asked, !.attempts = [b \in 1..BatchCount(asked) |-> 0]]
  <1>5. OwnVectors(y)
    <2> DEFINE hits == Hits(found)
    <2>1. hits = {i \in DOMAIN x.texts \ x.errors : found[x.texts[i]] \notin {NoVector, Malformed}}
      OBVIOUS
    <2>2. asked \in Ascending((DOMAIN x.texts \ x.errors) \ hits)
      OBVIOUS
    <2> HIDE DEF hits, x
    <2>3. OwnVectors(HasRead(x, found, hits, asked))
      BY <1>1, <1>3, <2>1, <2>2, ReadsOwn
    <2> QED
      BY <2>3 DEF hits, x, HasRead
  <1>6. CallBecomes(c, y)
    BY <1>4
  <1> HIDE DEF y
  <1> QED
    BY <1>1, <1>5, <1>6, CallStep DEF EmbeddingInv

LEMMA EmbeddingStepInv == EmbeddingInv /\ [EmbeddingNext]_embeddingVars => EmbeddingInv'
  <1> SUFFICES ASSUME EmbeddingInv, [EmbeddingNext]_embeddingVars  PROVE EmbeddingInv'
    OBVIOUS
  <1>1. CASE UNCHANGED embeddingVars
    BY <1>1 DEF embeddingVars, EmbeddingInv
  <1>2. ASSUME NEW c \in EmbedCallers, BeginEmbedding(c)  PROVE EmbeddingInv'
    <2>1. PICK x : OwnVectors(x) /\ CallBecomes(c, x)
      BY <1>2, BeginsOwn DEF BeginEmbedding
    <2> QED
      BY <1>2, <2>1, CallStep DEF BeginEmbedding, EmbeddingInv
  <1>3. ASSUME NEW c \in EmbedCallers, CallLeaves(c)  PROVE EmbeddingInv'
    BY <1>3, NoCallOwns, CallStep DEF CallLeaves, EmbeddingInv
  <1>4. ASSUME NEW t \in EmbedTexts, VectorExpires(t)  PROVE EmbeddingInv'
    BY <1>4 DEF VectorExpires, EmbeddingInv, OwnCache
  <1> QED
    BY <1>1, <1>2, <1>3, <1>4, ReadKeeps, TellKeeps, RequestKeeps, BatchFailsKeeps, AnswerKeeps DEF EmbeddingNext

(* However the batches of the calls in flight are answered, cut short,     *)
(* failed or retried, in whatever order, and whatever calls share the      *)
(* cache, each item ends with the vector of its own text or with an error. *)
THEOREM VectorsStayTheirOwn == EmbeddingSpec => []VectorsAreTheirOwn
  <1>1. EmbeddingInit => EmbeddingInv
    BY EmbeddingInitInv
  <1>2. EmbeddingInv /\ [EmbeddingNext]_embeddingVars => EmbeddingInv'
    BY EmbeddingStepInv
  <1>3. EmbeddingInv => VectorsAreTheirOwn
    BY EmbeddingInvImplies
  <1> QED
    BY <1>1, <1>2, <1>3, PTL DEF EmbeddingSpec
-----------------------------------------------------------------------------
(***************************************************************************)
(* The windows of the rate limiter.                                        *)
(***************************************************************************)
RatePlaces == InCall \cup {"new", "admitted", "denied"}
RateCalls == [at : RatePlaces, key : Keys, now : Nat]

RateTablesOK ==
    /\ clock \in Nat /\ unsettled \subseteq Nat
    /\ window \in [Keys -> SUBSET (1..clock)] /\ granted \in [Keys -> SUBSET (1..clock)]
    /\ newestCall \in [Keys -> Nat]
    /\ caller \in [Callers -> RateCalls]

(* A reading belongs to one call, and is not let through before its answer.*)
ReadingsAreNew ==
    /\ \A r \in Callers : caller[r].now <= clock /\ (caller[r].at \in InCall => caller[r].now >= 1)
    /\ \A r, q \in Callers : r # q /\ caller[r].at \in InCall
       /\ caller[q].at \in InCall => caller[r].now # caller[q].now
    /\ \A r \in Callers, k \in Keys : caller[r].at \in InCall => caller[r].now \notin granted[k]

Recent(passed, newest) == {n \in passed : n + Window > newest}
OverAt(calls, k) == {calls[q].now : q \in {q \in Callers : calls[q].at = "over" /\ calls[q].key = k}}

WindowIsKept(k, entries, passed, newest, calls, failed) ==
    /\ Cardinality(Recent(passed, newest)) <= Limit(k)
    /\ Recent(passed, newest) \subseteq entries
    /\ entries \subseteq passed \cup failed \cup OverAt(calls, k)

RateInv ==
    /\ RateTablesOK /\ ReadingsAreNew
    /\ \A k \in Keys : WindowIsKept(k, window[k], granted[k], newestCall[k], caller, unsettled)
-----------------------------------------------------------------------------
LEMMA LimitsAreNumbers ==
  /\ \A k \in Keys : Limit(k) \in Nat \ {0}
  /\ Window \in Nat /\ \A r \in Callers : UserOf[r] \in Keys /\ UserOf[r] # "org"
  BY RateAssumption DEF Limit, Keys

LEMMA RateInitInv == RateInit => RateInv
  <1> SUFFICES ASSUME RateInit  PROVE RateInv
    OBVIOUS
  <1>1. \A r \in Callers : [at |-> "new", key |-> UserOf[r], now |-> 0] \in RateCalls
    BY LimitsAreNumbers DEF RateCalls, RatePlaces
  <1>2. RateTablesOK
    BY <1>1 DEF RateInit, RateTablesOK
  <1>3. \A r \in Callers : caller[r].at = "new" /\ caller[r].now = 0
    BY DEF RateInit
  <1>4. ReadingsAreNew
    BY <1>3 DEF ReadingsAreNew, RateInit, InCall
  <1>5. ASSUME NEW k \in Keys
        PROVE  WindowIsKept(k, window[k], granted[k], newestCall[k], caller, unsettled)
    <2>1. Recent(granted[k], newestCall[k]) = {} /\ window[k] = {}
      BY DEF RateInit, Recent
    <2>2. Limit(k) \in Nat
      BY LimitsAreNumbers
    <2> QED
      BY <2>1, <2>2, FS_EmptySet DEF WindowIsKept
  <1> QED
    BY <1>2, <1>4, <1>5 DEF RateInv

LEMMA RateFacts ==
  ASSUME RateInv
  PROVE  /\ clock \in Nat /\ unsettled \subseteq Nat
         /\ window \in [Keys -> SUBSET (1..clock)] /\ granted \in [Keys -> SUBSET (1..clock)]
         /\ newestCall \in [Keys -> Nat] /\ caller \in [Callers -> RateCalls]
         /\ \A k \in Keys : WindowIsKept(k, window[k], granted[k], newestCall[k], caller, unsettled)
  BY DEF RateInv, RateTablesOK

(* A window that is only taken out of.                                     *)
LEMMA WindowStays ==
  ASSUME NEW k, NEW entries, NEW left, NEW passed, NEW newest, NEW calls, NEW calls2, NEW failed, NEW failed2,
         WindowIsKept(k, entries, passed, newest, calls, failed),
         left \subseteq entries, Recent(passed, newest) \cap entries \subseteq left,
         \A m \in left : m \in failed \cup OverAt(calls, k) => m \in failed2 \cup OverAt(calls2, k)
  PROVE  WindowIsKept(k, left, passed, newest, calls2, failed2)
  BY DEF WindowIsKept

(* What is left of a window when the call of reading n is executed, and    *)
(* when n is let through then.                                             *)
Precedes(k, entries, passed, newest, n, later) ==
    /\ k \in Keys /\ entries \subseteq Nat /\ IsFiniteSet(entries) /\ passed \subseteq Nat
    /\ n \in Nat /\ newest \in Nat /\ later \in Nat /\ later >= n /\ later >= newest
    /\ Cardinality(Recent(passed, newest)) <= Limit(k) /\ Recent(passed, newest) \subseteq entries

Follows(k, entries, passed, newest, n, later) ==
    /\ Recent(passed, later) \subseteq Recent(entries, n)
    /\ Cardinality(Recent(passed, later)) <= Limit(k)
    /\ Recent(passed \cup {n}, later) \subseteq Recent(entries, n) \cup {n}
    /\ Cardinality(Recent(entries, n)) < Limit(k) => Cardinality(Recent(passed \cup {n}, later)) <= Limit(k)

LEMMA WindowAfterCall ==
  ASSUME NEW k, NEW entries, NEW passed, NEW newest, NEW n, NEW later,
         Precedes(k, entries, passed, newest, n, later)
  PROVE  Follows(k, entries, passed, newest, n, later)
  <1> USE DEF Precedes
  <1> DEFINE kept == Recent(entries, n)
  <1>1. Window \in Nat /\ Limit(k) \in Nat
    BY LimitsAreNumbers
  <1>2. Recent(passed, later) \subseteq Recent(passed, newest) /\ \A m \in Recent(passed, later) : m + Window > n
    <2>1. ASSUME NEW m \in Recent(passed, later)
          PROVE  m \in passed /\ m + Window > newest /\ m + Window > n
      <3>1. m \in passed /\ m + Window > later
        BY <2>1 DEF Recent
      <3>2. m + Window \in Nat
        BY <1>1, <3>1
      <3> QED
        BY <1>1, <3>1, <3>2
    <2> QED
      BY <2>1 DEF Recent
  <1>3. Recent(passed, later) \subseteq kept
    BY <1>2 DEF Recent
  <1>4. IsFiniteSet(kept) /\ IsFiniteSet(Recent(passed, newest))
    <2>1. kept \subseteq entries
      BY DEF Recent
    <2> QED
      BY <2>1, FS_Subset
  <1>5. Cardinality(Recent(passed, later)) <= Limit(k)
    <2>1. Cardinality(Recent(passed, later)) <= Cardinality(Recent(passed, newest))
      BY <1>2, <1>4, FS_Subset
    <2>2. IsFiniteSet(Recent(passed, later))
      BY <1>2, <1>4, FS_Subset
    <2>3. Cardinality(Recent(passed, later)) \in Nat /\ Cardinality(Recent(passed, newest)) \in Nat
      BY <1>4, <2>2, FS_CardinalityType
    <2> QED
      BY <1>1, <2>1, <2>3
  <1>6. Recent(passed \cup {n}, later) \subseteq kept \cup {n}
    <2>1. Recent(passed \cup {n}, later) \subseteq Recent(passed, later) \cup {n}
      BY DEF Recent
    <2> QED
      BY <1>3, <2>1
  <1>7. Cardinality(kept) < Limit(k) => Cardinality(Recent(passed \cup {n}, later)) <= Limit(k)
    <2>1. Cardinality(kept) \in Nat
      BY <1>4, FS_CardinalityType
    <2>2. /\ IsFiniteSet(kept \cup {n})
          /\ Cardinality(kept \cup {n}) = IF n \in kept THEN Cardinality(kept) ELSE Cardinality(kept) + 1
      BY <1>4, FS_AddElement
    <2>3. /\ IsFiniteSet(Recent(passed \cup {n}, later))
          /\ Cardinality(Recent(passed \cup {n}, later)) <= Cardinality(kept \cup {n})
      BY <1>6, <2>2, FS_Subset
    <2>4. Cardinality(Recent(passed \cup {n}, later)) \in Nat
      BY <2>3, FS_CardinalityType
    <2> QED
      BY <1>1, <2>1, <2>2, <2>3, <2>4
  <1> QED
    BY <1>3, <1>5, <1>6, <1>7 DEF Follows

(* A request moves: those over the limit with a key are the same, but for  *)
(* it.                                                                     *)
LEMMA OverMoves ==
  ASSUME NEW calls \in [Callers -> RateCalls], NEW r \in Callers, NEW x, NEW calls2, calls2 = [calls EXCEPT ![r] = x], NEW k
  PROVE  /\ \A m \in OverAt(calls, k) :
               m \in OverAt(calls2, k) \/ (m = calls[r].now /\ calls[r].at = "over" /\ calls[r].key = k)
         /\ x.at = "over" /\ x.key = k => x.now \in OverAt(calls2, k)
  BY DEF OverAt

LEMMA OverStays ==
  ASSUME NEW calls, NEW calls2, NEW r \in Callers, \A q \in Callers \ {r} : calls2[q] = calls[q], NEW k
  PROVE  \A m \in OverAt(calls, k) :
            m \in OverAt(calls2, k) \/ (m = calls[r].now /\ calls[r].at = "over" /\ calls[r].key = k)
  BY DEF OverAt

(* A request goes on, with the reading it has or with a new one.           *)
LEMMA RequestMoves ==
  ASSUME RateInv, NEW r \in Callers, NEW x \in RateCalls, caller' = [caller EXCEPT ![r] = x],
         clock' \in {clock, clock + 1}, unsettled' \subseteq Nat,
         window' \in [Keys -> SUBSET (1..clock')], granted' \in [Keys -> SUBSET (1..clock')],
         newestCall' \in [Keys -> Nat],
         \/ x.now = caller[r].now /\ (x.at \in InCall => caller[r].at \in InCall)
         \/ x.now = clock + 1 /\ clock' = clock + 1,
         \/ granted' = granted
         \/ /\ caller[r].at \in InCall /\ (x.at \in InCall => x.now = clock + 1)
            /\ granted' = [granted EXCEPT ![caller[r].key] = @ \cup {caller[r].now}],
         \A k \in Keys : WindowIsKept(k, window'[k], granted'[k], newestCall'[k], caller', unsettled')
  PROVE  RateInv'
  <1>1. /\ clock \in Nat /\ clock' \in Nat /\ clock <= clock' /\ caller \in [Callers -> RateCalls]
        /\ granted \in [Keys -> SUBSET (1..clock)] /\ ReadingsAreNew
    BY RateFacts DEF RateInv
  <1>2. caller'[r] = x /\ \A q \in Callers \ {r} : caller'[q] = caller[q]
    BY <1>1
  <1>3. \A q \in Callers : caller[q].now \in Nat /\ caller[q].now <= clock /\ caller[q].key \in Keys
    BY <1>1 DEF ReadingsAreNew, RateCalls
  <1>4. \A q \in Callers : caller'[q].now <= clock' /\ (caller'[q].at \in InCall => caller'[q].now >= 1)
    <2>1. \A q \in Callers : caller[q].at \in InCall => caller[q].now >= 1
      BY <1>1 DEF ReadingsAreNew
    <2> QED
      BY <1>1, <1>2, <1>3, <2>1
  <1>5. \A q \in Callers \ {r} : x.at \in InCall /\ caller[q].at \in InCall => x.now # caller[q].now
    <2>1. CASE x.now = clock + 1
      BY <1>1, <1>3, <2>1
    <2>2. CASE x.now = caller[r].now /\ (x.at \in InCall => caller[r].at \in InCall)
      BY <1>1, <2>2 DEF ReadingsAreNew
    <2> QED
      BY <2>1, <2>2
  <1>6. \A q, p \in Callers : q # p /\ caller'[q].at \in InCall /\ caller'[p].at \in InCall => caller'[q].now # caller'[p].now
    BY <1>1, <1>2, <1>5 DEF ReadingsAreNew
  <1>7. ASSUME NEW q \in Callers, NEW k \in Keys, caller'[q].at \in InCall
        PROVE  caller'[q].now \notin granted'[k]
    <2>1. CASE granted' = granted
      <3>1. CASE q = r
        <4>1. x.now = clock + 1 => x.now \notin granted[k]
          BY <1>1
        <4> QED
          BY <1>1, <1>2, <1>7, <2>1, <3>1, <4>1 DEF ReadingsAreNew
      <3>2. CASE q # r
        BY <1>1, <1>2, <1>7, <2>1, <3>2 DEF ReadingsAreNew
      <3> QED
        BY <3>1, <3>2
    <2>2. CASE /\ caller[r].at \in InCall /\ (x.at \in InCall => x.now = clock + 1)
               /\ granted' = [granted EXCEPT ![caller[r].key] = @ \cup {caller[r].now}]
      <3>1. granted'[k] \subseteq granted[k] \cup {caller[r].now}
        BY <1>1, <2>2
      <3>2. CASE q = r
        <4>1. caller'[q].now = clock + 1
          BY <1>2, <1>7, <2>2, <3>2
        <4>2. clock + 1 \notin granted[k] /\ clock + 1 # caller[r].now
          BY <1>1, <1>3
        <4> QED
          BY <3>1, <4>1, <4>2
      <3>3. CASE q # r
        BY <1>1, <1>2, <1>7, <2>2, <3>1, <3>3 DEF ReadingsAreNew
      <3> QED
        BY <3>2, <3>3
    <2> QED
      BY <2>1, <2>2
  <1>8. ReadingsAreNew'
    BY <1>4, <1>6, <1>7 DEF ReadingsAreNew
  <1>9. RateTablesOK'
    BY <1>1 DEF RateTablesOK
  <1>10. (\A k \in Keys : WindowIsKept(k, window[k], granted[k], newestCall[k], caller, unsettled))'
    OBVIOUS
  <1> QED
    BY <1>8, <1>9, <1>10 DEF RateInv

LEMMA AllowedMoves ==
  ASSUME RateInv, NEW r \in Callers, Allowed(r)
  PROVE  \E x \in RateCalls :
            /\ caller' = [caller EXCEPT ![r] = x] /\ clock' \in {clock, clock + 1}
            /\ \/ x.now = caller[r].now /\ x.at \notin InCall
               \/ x.now = clock + 1 /\ clock' = clock + 1 /\ x.at # "over"
  <1>1. caller[r] \in RateCalls /\ clock \in Nat /\ clock + 1 \in Nat
    BY RateFacts
  <1>2. CASE CallerIs(r, [caller[r] EXCEPT !.at = "admitted"]) /\ UNCHANGED clock
    <2> DEFINE x == [caller[r] EXCEPT !.at = "admitted"]
    <2>1. x \in RateCalls /\ x.now = caller[r].now /\ x.at = "admitted"
      BY <1>1 DEF RateCalls, RatePlaces
    <2> HIDE DEF x
    <2>2. caller' = [caller EXCEPT ![r] = x]
      BY <1>2 DEF CallerIs, x
    <2> QED
      BY <1>2, <2>1, <2>2 DEF InCall
  <1>3. CASE Checks(r, "org")
    <2> DEFINE x == [at |-> "pipeline", key |-> "org", now |-> clock + 1]
    <2>1. x \in RateCalls /\ x.now = clock + 1 /\ x.at = "pipeline"
      BY <1>1 DEF RateCalls, RatePlaces, InCall, Keys
    <2> HIDE DEF x
    <2>2. caller' = [caller EXCEPT ![r] = x] /\ clock' = clock + 1
      BY <1>3 DEF Checks, CallerIs, x
    <2> QED
      BY <2>1, <2>2
  <1> QED
    BY <1>2, <1>3 DEF Allowed

LEMMA CallFacts ==
  ASSUME RateInv, NEW r \in Callers, caller[r].at \in InCall
  PROVE  /\ caller[r] \in RateCalls /\ caller[r].key \in Keys /\ caller[r].now \in 1..clock
         /\ \A k \in Keys : caller[r].now \notin granted[k]
  <1>1. caller[r] \in RateCalls /\ clock \in Nat /\ ReadingsAreNew
    BY RateFacts DEF RateInv
  <1> QED
    BY <1>1 DEF RateCalls, ReadingsAreNew

LEMMA ArriveInv ==
  ASSUME RateInv, NEW r \in Callers, Arrive(r)
  PROVE  RateInv'
  <1> DEFINE x == [at |-> "pipeline", key |-> UserOf[r], now |-> clock + 1]
  <1>1. x \in RateCalls /\ x.at = "pipeline" /\ x.now = clock + 1
    BY RateFacts, LimitsAreNumbers DEF RateCalls, RatePlaces, InCall
  <1>2. /\ caller' = [caller EXCEPT ![r] = x] /\ clock' = clock + 1 /\ caller[r].at = "new"
        /\ UNCHANGED <<window, granted, newestCall, unsettled>>
    BY DEF Arrive, Checks, CallerIs, RedisKept
  <1> HIDE DEF x
  <1>3. ASSUME NEW k \in Keys
        PROVE  WindowIsKept(k, window'[k], granted'[k], newestCall'[k], caller', unsettled')
    <2>1. \A m \in OverAt(caller, k) : m \in OverAt(caller', k)
      BY <1>1, <1>2, RateFacts, OverMoves
    <2>2. WindowIsKept(k, window[k], granted[k], newestCall[k], caller, unsettled)
      BY RateFacts
    <2> QED
      BY <1>2, <2>1, <2>2, WindowStays
  <1>4. /\ window' \in [Keys -> SUBSET (1..clock')] /\ granted' \in [Keys -> SUBSET (1..clock')]
        /\ newestCall' \in [Keys -> Nat] /\ unsettled' \subseteq Nat
    BY <1>2, RateFacts
  <1> QED
    BY <1>1, <1>2, <1>3, <1>4, RequestMoves

(* The window a call was executed for, when n was let through or is one of *)
(* those over the limit or of those whose call failed.                     *)
LEMMA ExecutedWindow ==
  ASSUME RateInv, NEW r \in Callers, caller[r].at = "pipeline", Executes(r), NEW calls, NEW failed, NEW passed,
         \/ /\ passed = granted[caller[r].key]
            /\ caller[r].now \in failed \cup OverAt(calls, caller[r].key)
         \/ /\ passed = granted[caller[r].key] \cup {caller[r].now}
            /\ Cardinality(InWindow(r)) < Limit(caller[r].key),
         unsettled \subseteq failed, OverAt(caller, caller[r].key) \subseteq OverAt(calls, caller[r].key)
  PROVE  WindowIsKept(caller[r].key, window'[caller[r].key], passed, newestCall'[caller[r].key], calls, failed)
  <1> DEFINE k == caller[r].key
             n == caller[r].now
             later == newestCall'[k]
             kept == Recent(window[k], n)
  <1>1. k \in Keys /\ n \in 1..clock /\ clock \in Nat /\ n \in Nat
    BY CallFacts, RateFacts DEF InCall
  <1>2. /\ window \in [Keys -> SUBSET (1..clock)] /\ granted \in [Keys -> SUBSET (1..clock)]
        /\ newestCall \in [Keys -> Nat]
        /\ WindowIsKept(k, window[k], granted[k], newestCall[k], caller, unsettled)
    BY <1>1, RateFacts
  <1>3. InWindow(r) = kept /\ kept \subseteq window[k]
    BY DEF InWindow, Recent
  <1>4. window'[k] = kept \cup {n} /\ later = (IF n > newestCall[k] THEN n ELSE newestCall[k])
    BY <1>1, <1>2, <1>3 DEF Executes
  <1>5. /\ window[k] \subseteq Nat /\ IsFiniteSet(window[k]) /\ granted[k] \subseteq Nat
        /\ newestCall[k] \in Nat /\ later \in Nat /\ later >= n /\ later >= newestCall[k]
    <2>0. clock \in Int /\ 1 \in Int
      BY <1>1
    <2>1. IsFiniteSet(1..clock)
      BY <2>0, FS_Interval
    <2>2. IsFiniteSet(window[k])
      BY <1>1, <1>2, <2>1, FS_Subset
    <2> QED
      BY <1>1, <1>2, <1>4, <2>2
  <1>6. \/ passed = granted[k] /\ n \in failed \cup OverAt(calls, k)
        \/ passed = granted[k] \cup {n} /\ Cardinality(kept) < Limit(k)
    BY <1>3
  <1>7. unsettled \subseteq failed /\ OverAt(caller, k) \subseteq OverAt(calls, k)
    OBVIOUS
  <1>8. WindowIsKept(k, window'[k], passed, later, calls, failed)
    <2> HIDE DEF k, n, later
    <2>1. /\ Cardinality(Recent(granted[k], newestCall[k])) <= Limit(k)
          /\ Recent(granted[k], newestCall[k]) \subseteq window[k]
          /\ window[k] \subseteq granted[k] \cup unsettled \cup OverAt(caller, k)
      BY <1>2 DEF WindowIsKept
    <2>2. Follows(k, window[k], granted[k], newestCall[k], n, later)
      BY <1>1, <1>5, <2>1, WindowAfterCall DEF Precedes
    <2>3. Cardinality(Recent(passed, later)) <= Limit(k) /\ Recent(passed, later) \subseteq kept \cup {n}
      BY <1>6, <2>2 DEF Follows
    <2>4. kept \cup {n} \subseteq passed \cup failed \cup OverAt(calls, k)
      BY <1>3, <1>6, <1>7, <2>1
    <2> QED
      BY <1>4, <2>3, <2>4 DEF WindowIsKept
  <1> QED
    BY <1>8

LEMMA PipelineInv ==
  ASSUME RateInv, NEW r \in Callers, Pipeline(r)
  PROVE  RateInv'
  <1> DEFINE o == caller[r]
             n == o.now
  <1>1. o.at = "pipeline" /\ o.at \in InCall
    BY DEF Pipeline, InCall
  <1>2. o \in RateCalls /\ o.key \in Keys /\ n \in 1..clock /\ clock \in Nat /\ n \in Nat /\ clock + 1 \in Nat
    BY <1>1, CallFacts, RateFacts
  <1>3. /\ window' = [window EXCEPT ![o.key] = InWindow(r) \cup {n}]
        /\ newestCall' = [newestCall EXCEPT ![o.key] = IF n > newestCall[o.key] THEN n ELSE newestCall[o.key]]
        /\ unsettled' = unsettled
    BY DEF Pipeline, Executes
  <1>4. InWindow(r) = Recent(window[o.key], n) /\ InWindow(r) \subseteq window[o.key]
    BY DEF InWindow, Recent
  <1>5. PICK x \in RateCalls :
           /\ caller' = [caller EXCEPT ![r] = x] /\ clock' \in {clock, clock + 1}
           /\ \/ /\ granted' = [granted EXCEPT ![o.key] = @ \cup {n}]
                 /\ Cardinality(InWindow(r)) < Limit(o.key)
                 /\ \/ x.now = n /\ x.at \notin InCall
                    \/ x.now = clock + 1 /\ clock' = clock + 1
              \/ granted' = granted /\ x.at = "over" /\ x.now = n /\ x.key = o.key
    <2>1. CASE WithinLimit(r) /\ granted' = [granted EXCEPT ![o.key] = @ \cup {n}] /\ Allowed(r)
      BY <2>1, AllowedMoves DEF WithinLimit
    <2>2. CASE CallerIs(r, [o EXCEPT !.at = "over"]) /\ UNCHANGED <<clock, granted>>
      <3> DEFINE x == [o EXCEPT !.at = "over"]
      <3>1. x \in RateCalls /\ x.at = "over" /\ x.now = n /\ x.key = o.key
        BY <1>2 DEF RateCalls, RatePlaces, InCall
      <3> HIDE DEF x
      <3>2. caller' = [caller EXCEPT ![r] = x] /\ clock' = clock /\ granted' = granted
        BY <2>2 DEF CallerIs, x
      <3> QED
        BY <3>1, <3>2
    <2> QED
      BY <2>1, <2>2 DEF Pipeline
  <1> HIDE DEF o, n
  <1>6. /\ window \in [Keys -> SUBSET (1..clock)] /\ granted \in [Keys -> SUBSET (1..clock)]
        /\ newestCall \in [Keys -> Nat] /\ unsettled \subseteq Nat /\ caller \in [Callers -> RateCalls]
    BY RateFacts
  <1>7. InWindow(r) \cup {n} \subseteq 1..clock
    BY <1>2, <1>4, <1>6
  <1>8. 1..clock \subseteq 1..clock'
    BY <1>2, <1>5
  <1>9. /\ window' \in [Keys -> SUBSET (1..clock')] /\ granted' \in [Keys -> SUBSET (1..clock')]
        /\ newestCall' \in [Keys -> Nat] /\ unsettled' \subseteq Nat
    BY <1>2, <1>3, <1>5, <1>6, <1>7, <1>8
  <1>10. ASSUME NEW k \in Keys
         PROVE  WindowIsKept(k, window'[k], granted'[k], newestCall'[k], caller', unsettled')
    <2>1. WindowIsKept(k, window[k], granted[k], newestCall[k], caller, unsettled)
      BY RateFacts
    <2>2. /\ \A m \in OverAt(caller, k) : m \in OverAt(caller', k)
          /\ x.at = "over" /\ x.key = k => x.now \in OverAt(caller', k)
      BY <1>1, <1>5, <1>6, OverMoves DEF o
    <2>3. CASE k # o.key
      <3>1. window'[k] = window[k] /\ granted'[k] = granted[k] /\ newestCall'[k] = newestCall[k]
        BY <1>3, <1>5, <1>6, <2>3
      <3> QED
        BY <1>3, <2>1, <2>2, <3>1, WindowStays
    <2>4. CASE k = o.key
      <3>1. OverAt(caller, k) \subseteq OverAt(caller', k)
        BY <2>2
      <3>2. \/ granted'[k] = granted[k] /\ n \in unsettled' \cup OverAt(caller', k)
            \/ granted'[k] = granted[k] \cup {n} /\ Cardinality(InWindow(r)) < Limit(k)
        BY <1>2, <1>5, <1>6, <2>2, <2>4
      <3>3. k = caller[r].key /\ n = caller[r].now /\ caller[r].at = "pipeline" /\ Executes(r) /\ unsettled \subseteq unsettled'
        BY <1>1, <1>3, <2>4 DEF o, n, Pipeline
      <3> QED
        BY <3>1, <3>2, <3>3, ExecutedWindow
    <2> QED
      BY <2>3, <2>4
  <1>11. \/ x.now = n /\ (x.at \in InCall => o.at \in InCall)
         \/ x.now = clock + 1 /\ clock' = clock + 1
    BY <1>1, <1>5
  <1>12. \/ granted' = granted
         \/ /\ o.at \in InCall /\ (x.at \in InCall => x.now = clock + 1)
            /\ granted' = [granted EXCEPT ![o.key] = @ \cup {n}]
    BY <1>1, <1>5
  <1> QED
    BY <1>5, <1>9, <1>10, <1>11, <1>12, RequestMoves DEF o, n

LEMMA TakeBackInv ==
  ASSUME RateInv, NEW r \in Callers, TakeBack(r)
  PROVE  RateInv'
  <1> DEFINE x == [caller[r] EXCEPT !.at = "earliest"]
  <1>1. caller[r].at = "over" /\ caller[r].at \in InCall
    BY DEF TakeBack, InCall
  <1>2. /\ caller[r] \in RateCalls /\ caller[r].key \in Keys /\ caller[r].now \in 1..clock
        /\ \A k \in Keys : caller[r].now \notin granted[k]
    BY <1>1, CallFacts
  <1>3. x \in RateCalls /\ x.at = "earliest" /\ x.now = caller[r].now /\ x.key = caller[r].key
    BY <1>2 DEF RateCalls, RatePlaces, InCall
  <1>4. /\ caller' = [caller EXCEPT ![r] = x] /\ UNCHANGED <<clock, granted, newestCall, unsettled>>
        /\ window' = [window EXCEPT ![caller[r].key] = @ \ {caller[r].now}]
    BY DEF TakeBack, CallerIs, Removes
  <1> HIDE DEF x
  <1>5. /\ clock \in Nat /\ window \in [Keys -> SUBSET (1..clock)]
           /\ granted \in [Keys -> SUBSET (1..clock)]
        /\ newestCall \in [Keys -> Nat] /\ unsettled \subseteq Nat /\ caller \in [Callers -> RateCalls]
    BY RateFacts
  <1>6. window' \in [Keys -> SUBSET (1..clock')]
    BY <1>4, <1>5
  <1>7. ASSUME NEW k \in Keys
        PROVE  WindowIsKept(k, window'[k], granted'[k], newestCall'[k], caller', unsettled')
    <2>1. WindowIsKept(k, window[k], granted[k], newestCall[k], caller, unsettled)
      BY RateFacts
    <2>2. \A m \in OverAt(caller, k) : m \in OverAt(caller', k) \/ (m = caller[r].now /\ caller[r].key = k)
      <3>1. \A q \in Callers \ {r} : caller'[q] = caller[q]
        BY <1>4, <1>5
      <3> QED
        BY <3>1, OverStays
    <2>3. window'[k] \subseteq window[k] /\ (caller[r].key = k => caller[r].now \notin window'[k])
      BY <1>2, <1>4, <1>5
    <2>4. \A m \in window[k] : m \in window'[k] \/ m = caller[r].now
      BY <1>2, <1>4, <1>5
    <2>5. Recent(granted[k], newestCall[k]) \cap window[k] \subseteq window'[k]
      BY <1>2, <2>4 DEF Recent
    <2>6. \A m \in window'[k] : m \in unsettled \cup OverAt(caller, k) => m \in unsettled' \cup OverAt(caller', k)
      BY <1>4, <2>2, <2>3
    <2>7. WindowIsKept(k, window'[k], granted[k], newestCall[k], caller', unsettled')
      BY <2>1, <2>3, <2>5, <2>6, WindowStays
    <2> QED
      BY <1>4, <2>7
  <1> QED
    BY <1>1, <1>3, <1>4, <1>5, <1>6, <1>7, RequestMoves

LEMMA DenyInv ==
  ASSUME RateInv, NEW r \in Callers, Deny(r)
  PROVE  RateInv'
  <1> DEFINE x == [caller[r] EXCEPT !.at = "denied"]
  <1>1. caller[r].at = "earliest" /\ caller[r].at \in InCall /\ caller[r] \in RateCalls
    BY RateFacts DEF Deny, InCall
  <1>2. x \in RateCalls /\ x.now = caller[r].now /\ x.at \notin InCall
    BY <1>1 DEF RateCalls, RatePlaces, InCall
  <1>3. caller' = [caller EXCEPT ![r] = x] /\ UNCHANGED <<clock, window, granted, newestCall, unsettled>>
    BY DEF Deny, CallerIs, RedisKept
  <1> HIDE DEF x
  <1>4. ASSUME NEW k \in Keys
        PROVE  WindowIsKept(k, window'[k], granted'[k], newestCall'[k], caller', unsettled')
    <2>1. \A m \in OverAt(caller, k) : m \in OverAt(caller', k)
      BY <1>1, <1>3, RateFacts, OverMoves
    <2>2. WindowIsKept(k, window[k], granted[k], newestCall[k], caller, unsettled)
      BY RateFacts
    <2> QED
      BY <1>3, <2>1, <2>2, WindowStays
  <1> QED
    BY <1>2, <1>3, <1>4, RateFacts, RequestMoves

(* A call fails: done, or not; its reading is then one of the unsettled.   *)
LEMMA RedisFailsInv ==
  ASSUME RateInv, NEW r \in Callers, RedisFails(r)
  PROVE  RateInv'
  <1> DEFINE o == caller[r]
             n == o.now
  <1>1. /\ o.at \in InCall /\ unsettled' = unsettled \cup {n} /\ granted' = granted /\ Allowed(r)
        /\ \/ UNCHANGED <<window, newestCall>>
           \/ o.at = "pipeline" /\ Executes(r)
           \/ o.at = "over" /\ Removes(r) /\ UNCHANGED newestCall
    BY DEF RedisFails
  <1>2. /\ o \in RateCalls /\ o.key \in Keys /\ n \in 1..clock /\ clock \in Nat /\ n \in Nat
           /\ clock + 1 \in Nat
        /\ \A k \in Keys : n \notin granted[k]
    BY <1>1, CallFacts, RateFacts
  <1>3. /\ window \in [Keys -> SUBSET (1..clock)] /\ granted \in [Keys -> SUBSET (1..clock)]
        /\ newestCall \in [Keys -> Nat] /\ unsettled \subseteq Nat /\ caller \in [Callers -> RateCalls]
    BY RateFacts
  <1>4. PICK x \in RateCalls :
           /\ caller' = [caller EXCEPT ![r] = x] /\ clock' \in {clock, clock + 1}
           /\ \/ x.now = n /\ x.at \notin InCall
              \/ x.now = clock + 1 /\ clock' = clock + 1
    BY <1>1, AllowedMoves
  <1>5. \/ /\ newestCall' = newestCall
           /\ window' = window \/ window' = [window EXCEPT ![o.key] = @ \ {n}]
        \/ /\ o.at = "pipeline" /\ Executes(r)
           /\ window' = [window EXCEPT ![o.key] = InWindow(r) \cup {n}]
           /\ newestCall' = [newestCall EXCEPT ![o.key] = IF n > newestCall[o.key] THEN n ELSE newestCall[o.key]]
    BY <1>1 DEF Executes, Removes
  <1>6. InWindow(r) \subseteq window[o.key]
    BY DEF InWindow
  <1> HIDE DEF n, o
  <1>7. 1..clock \subseteq 1..clock'
    BY <1>2, <1>4
  <1>8. window' \in [Keys -> SUBSET (1..clock)]
    BY <1>2, <1>3, <1>5, <1>6
  <1>9. newestCall' \in [Keys -> Nat]
    BY <1>2, <1>3, <1>5
  <1>10. /\ window' \in [Keys -> SUBSET (1..clock')] /\ granted' \in [Keys -> SUBSET (1..clock')]
         /\ unsettled' \subseteq Nat
    BY <1>1, <1>2, <1>3, <1>7, <1>8
  <1>11. ASSUME NEW k \in Keys
         PROVE  WindowIsKept(k, window'[k], granted'[k], newestCall'[k], caller', unsettled')
    <2>1. WindowIsKept(k, window[k], granted[k], newestCall[k], caller, unsettled)
      BY RateFacts
    <2>2. \A m \in OverAt(caller, k) : m \in OverAt(caller', k) \/ (m = n /\ o.at = "over")
      <3>1. \A q \in Callers \ {r} : caller'[q] = caller[q]
        BY <1>3, <1>4
      <3> QED
        BY <3>1, OverStays DEF n, o
    <2>3. \A m : m \in unsettled \cup OverAt(caller, k) => m \in unsettled' \cup OverAt(caller', k)
      BY <1>1, <2>2
    <2>4. CASE /\ newestCall'[k] = newestCall[k]
               /\ window'[k] = window[k] \/ window'[k] = window[k] \ {n}
      <3>1. window'[k] \subseteq window[k] /\ Recent(granted[k], newestCall[k]) \cap window[k] \subseteq window'[k]
        BY <1>2, <2>4 DEF Recent
      <3> QED
        BY <1>1, <2>1, <2>3, <2>4, <3>1, WindowStays
    <2>5. CASE k = o.key /\ o.at = "pipeline" /\ Executes(r)
      <3>1. OverAt(caller, k) \subseteq OverAt(caller', k)
        BY <2>2, <2>5
      <3>2. n \in unsettled' \cup OverAt(caller', k) /\ unsettled \subseteq unsettled' /\ granted'[k] = granted[k]
        BY <1>1
      <3> QED
        BY <2>5, <3>1, <3>2, ExecutedWindow DEF o, n
    <2> QED
      BY <1>2, <1>3, <1>5, <2>4, <2>5
  <1>12. \/ x.now = n /\ (x.at \in InCall => o.at \in InCall)
         \/ x.now = clock + 1 /\ clock' = clock + 1
    BY <1>4
  <1> QED
    BY <1>1, <1>4, <1>9, <1>10, <1>11, <1>12, RequestMoves DEF o, n

LEMMA TickInv ==
  ASSUME RateInv, Tick
  PROVE  RateInv'
  <1>1. /\ clock' = clock + 1 /\ UNCHANGED <<window, caller, granted, newestCall, unsettled>>
           /\ clock \in Nat
    BY RateFacts DEF Tick
  <1>2. 1..clock \subseteq 1..clock' /\ clock' \in Nat
    BY <1>1
  <1>3. RateTablesOK'
    BY <1>1, <1>2, RateFacts DEF RateTablesOK
  <1>4. ReadingsAreNew'
    BY <1>1, RateFacts DEF RateInv, ReadingsAreNew, RateCalls
  <1> QED
    BY <1>1, <1>3, <1>4, RateFacts DEF RateInv

LEMMA RateStepInv == RateInv /\ [RateNext]_rateVars => RateInv'
  <1> SUFFICES ASSUME RateInv, [RateNext]_rateVars  PROVE RateInv'
    OBVIOUS
  <1>1. CASE Tick
    BY <1>1, TickInv
  <1>2. CASE \E r \in Callers : Arrive(r) \/ Pipeline(r) \/ TakeBack(r) \/ Deny(r) \/ RedisFails(r)
    BY <1>2, ArriveInv, PipelineInv, TakeBackInv, DenyInv, RedisFailsInv
  <1>3. CASE UNCHANGED rateVars
    BY <1>3 DEF rateVars, RateInv, RateTablesOK, ReadingsAreNew
  <1> QED
    BY <1>1, <1>2, <1>3 DEF RateNext

(* However the calls of Redis overtake each other and whichever of them    *)
(* fail, no more requests than the limit are let through in a window, and  *)
(* what is in a window was let through, is about to be taken out, or is of *)
(* a call that failed (the limiter's check, check_rate_limit).             *)
THEOREM RatesStayKept == RateSpec => []RatesAreKept
  <1>1. RateInv => RatesAreKept
    <2> SUFFICES ASSUME RateInv, NEW k \in Keys
                 PROVE  /\ Cardinality({n \in granted[k] : n + Window > newestCall[k]}) <= Limit(k)
                        /\ window[k] \subseteq granted[k] \cup unsettled
                              \cup {caller[r].now : r \in {q \in Callers : caller[q].at = "over"}}
                        /\ \A n \in granted[k] : n + Window > newestCall[k] => n \in window[k]
      BY DEF RatesAreKept
    <2>1. WindowIsKept(k, window[k], granted[k], newestCall[k], caller, unsettled)
      BY RateFacts
    <2> QED
      BY <2>1 DEF WindowIsKept, Recent, OverAt
  <1> QED
    BY <1>1, RateInitInv, RateStepInv, PTL DEF RateSpec
-----------------------------------------------------------------------------
(***************************************************************************)
(* A question to the orchestration.                                        *)
(***************************************************************************)
Phases == {"new", "received", "executing", "generating", "answered", "ended", "failed"}
Decided == {"none", "ASK_CLARIFICATION", "INSUFFICIENT_EVIDENCE", "PARTIAL_ANSWER", "ANSWER_WITH_WARNING", "ANSWER"}
Statuses == {"none", "NEEDS_CLARIFICATION", "COMPLETED", "PARTIAL", "INSUFFICIENT_EVIDENCE"}
BranchStates == {"off", "working", "none", "found", "failed"}

OrchestrationTypes ==
    /\ inquiry \in [phase : Phases, metrics : BOOLEAN, paths : Nat, ambiguous : BOOLEAN]
    /\ branches \in [sql : [state : BranchStates, number : Nat], rag : [state : BranchStates, numbers : Seq(Nat)]]
    /\ Len(bundle.items) \in Nat /\ Len(bundle.items) <= MaxItems /\ bundle.high \in Nat
    /\ ledger \subseteq 0..3 /\ ledgerTx \in [rows : SUBSET (0..3), ok : BOOLEAN]
    /\ verdict.status \in Statuses

(* The rows of the execution grow with the question; what the SQL branch   *)
(* committed along stays, what it rolled back fails the next step.         *)
RowsFollow ==
    /\ \A rows \in {ledger, ledgerTx.rows} : rows # {} => Execution \in rows
    /\ inquiry.phase = "new" => ledgerTx.rows = {} /\ ledger = {}
    /\ inquiry.phase = "received" => ledgerTx.rows = {Execution} /\ ledger = {}
    /\ inquiry.phase = "executing" => ledgerTx.rows \in {{}, {Execution, 1}} /\ ledger \in {{}, {Execution, 1}}
    /\ inquiry.phase = "generating" => ledgerTx.rows = {Execution, 1, 2}
    /\ inquiry.phase = "answered" =>
          ledgerTx.rows = (IF verdict.status = "NEEDS_CLARIFICATION" THEN {Execution, 1} ELSE 0..3)

(* A verdict that the evidence and the branches back.                      *)
Backed(v) ==
    /\ v.cites \subseteq TagsOf(bundle.items)
    /\ v.decision = "ANSWER" => bundle.high = 0
    /\ v.decision \in {"ANSWER", "ANSWER_WITH_WARNING"} =>
          /\ ~SomeBranchFailed /\ bundle.items # <<>>
          /\ 20 * v.supported >= 13 * v.claims
    /\ v.decision = "INSUFFICIENT_EVIDENCE" => bundle.items = <<>> \/ v.supported < v.claims
    /\ v.status = "COMPLETED" /\ ~inquiry.ambiguous => ~SomeBranchFailed

OrchestrationInv ==
    /\ OrchestrationTypes /\ RowsFollow
    /\ inquiry.phase \in {"new", "received", "executing", "generating"} => verdict = NoVerdict
    /\ Backed(verdict)

LEMMA NoVerdictBacked ==
  /\ Backed(NoVerdict) /\ NoVerdict.status = "none" /\ NoVerdict.cites = {}
  /\ [NoVerdict EXCEPT !.decision = "ASK_CLARIFICATION", !.status = "NEEDS_CLARIFICATION"].status = "NEEDS_CLARIFICATION"
  /\ Backed([NoVerdict EXCEPT !.decision = "ASK_CLARIFICATION", !.status = "NEEDS_CLARIFICATION"])
  BY DEF Backed, NoVerdict

(* The evidence is cut to what was asked for.                              *)
LEMMA CollectedFits ==
  ASSUME OrchestrationTypes
  PROVE  Len(Collected) \in Nat /\ Len(Collected) <= MaxItems /\ DOMAIN Collected = 1..Len(Collected)
  <1> DEFINE Items == [tag : {"S", "D", "G"} \X Nat, trust : Nat]
             first == IF branches.sql.state = "found" THEN <<EvidenceItem("S", 1, 9800)>> ELSE <<>>
             documents == [i \in DOMAIN branches.rag.numbers |-> EvidenceItem("D", i, 8500)]
             paths == [i \in 1..inquiry.paths |-> EvidenceItem("G", i, 4875)]
             all == first \o documents \o paths
             n == IF Len(all) < MaxItems THEN Len(all) ELSE MaxItems
  <1>1. \A kind \in {"S", "D", "G"}, i \in Nat, trust \in Nat : EvidenceItem(kind, i, trust) \in Items
    BY DEF EvidenceItem
  <1> HIDE DEF Items
  <1>2. first \in Seq(Items)
    BY <1>1
  <1>3. documents \in Seq(Items)
    <2>1. branches.rag.numbers \in Seq(Nat)
      BY DEF OrchestrationTypes
    <2>2. DOMAIN branches.rag.numbers = 1..Len(branches.rag.numbers) /\ Len(branches.rag.numbers) \in Nat
      BY <2>1
    <2>3. \A i \in 1..Len(branches.rag.numbers) : EvidenceItem("D", i, 8500) \in Items
      BY <1>1, <2>2
    <2> QED
      BY <2>2, <2>3
  <1>4. paths \in Seq(Items)
    <2>1. inquiry.paths \in Nat
      BY DEF OrchestrationTypes
    <2>2. \A i \in 1..inquiry.paths : EvidenceItem("G", i, 4875) \in Items
      BY <1>1, <2>1
    <2> QED
      BY <2>1, <2>2
  <1> HIDE DEF first, documents, paths
  <1>5. all \in Seq(Items)
    BY <1>2, <1>3, <1>4
  <1>6. Collected = SubSeq(all, 1, n)
    BY DEF Collected, first, documents, paths
  <1> HIDE DEF all
  <1>7. Len(all) \in Nat /\ MaxItems \in Nat
    BY <1>5, OrchestrationAssumption
  <1>8. n \in Nat /\ n <= Len(all) /\ n <= MaxItems
    BY <1>7
  <1> HIDE DEF n
  <1>9. Len(SubSeq(all, 1, n)) = n /\ DOMAIN SubSeq(all, 1, n) = 1..n
    BY <1>5, <1>7, <1>8
  <1> QED
    BY <1>6, <1>8, <1>9

LEMMA OneElement == ASSUME NEW S, NEW x \in S  PROVE <<x>> \in Seq(S) /\ DOMAIN <<x>> = 1..1 /\ <<x>>[1] = x
  OBVIOUS

(* A text is numbered sentences.                                           *)
LEMMA TextsAreSequences ==
  ASSUME NEW items, Len(items) \in Nat, NEW written \in AnswerTexts(items)
  PROVE  \E n \in Nat : DOMAIN written = 1..n /\ \A i \in 1..n : \E c, long : written[i] = Sentence(c, long)
  <1>1. CASE \E c : written = <<Sentence(c, TRUE)>>
    <2>1. PICK c : written = <<Sentence(c, TRUE)>>
      BY <1>1
    <2> DEFINE sentence == Sentence(c, TRUE)
    <2>2. sentence \in {sentence} /\ \E b, long : sentence = Sentence(b, long)
      OBVIOUS
    <2> HIDE DEF sentence
    <2>3. DOMAIN written = 1..1 /\ written[1] = sentence
      BY <2>1, OneElement DEF sentence
    <2>4. \A i \in 1..1 : i = 1
      OBVIOUS
    <2>5. \A i \in 1..1 : \E b, long : written[i] = Sentence(b, long)
      BY <2>2, <2>3, <2>4, Zenon
    <2> QED
      BY <2>3, <2>5
  <1>2. CASE written \in Written
    <2> DEFINE Sentences == {Sentence(c, long) : c \in {{}} \cup {{t} : t \in Citable}, long \in BOOLEAN}
    <2>1. written \in BoundedSeq(Sentences, 2)
      BY <1>2 DEF Written
    <2>2. \A sentence \in Sentences : \E c, long : sentence = Sentence(c, long)
      OBVIOUS
    <2> HIDE DEF Sentences
    <2>3. \E n \in 0..2 : written \in [1..n -> Sentences]
      BY <2>1 DEF BoundedSeq, SeqOf
    <2> QED
      BY <2>2, <2>3
  <1>3. CASE written \in Quoted(items)
    <2> DEFINE tags == [i \in 1..(IF Len(items) < 3 THEN Len(items) ELSE 3) |-> items[i].tag]
               quotes == [i \in DOMAIN tags |-> Sentence({tags[i]}, i < Len(tags))]
               head == <<Sentence({}, TRUE)>>
    <2>1. \/ written = <<Sentence({tags[i] : i \in DOMAIN tags}, TRUE)>>
          \/ written = head \o quotes
      BY <1>3 DEF Quoted
    <2>2. PICK n \in Nat : DOMAIN quotes = 1..n /\ DOMAIN tags = 1..n
      OBVIOUS
    <2>3. \A i \in 1..n : quotes[i] = Sentence({tags[i]}, i < Len(tags))
      BY <2>2
    <2> HIDE DEF tags, quotes
    <2> DEFINE sentences == {quotes[i] : i \in 1..n} \cup {Sentence({}, TRUE)}
    <2>4. \A sentence \in sentences : \E c, long : sentence = Sentence(c, long)
      BY <2>3
    <2>5. quotes \in [1..n -> sentences] /\ Sentence({}, TRUE) \in sentences
      <3>1. quotes = [i \in 1..n |-> quotes[i]]
        BY <2>2 DEF quotes
      <3> QED
        BY <3>1
    <2> HIDE DEF sentences, head
    <2>6. quotes \in Seq(sentences)
      BY <2>2, <2>5
    <2>7. head \in Seq(sentences)
      BY <2>5, OneElement DEF head
    <2>8. head \o quotes \in Seq(sentences)
      BY <2>6, <2>7
    <2>9. CASE written = head \o quotes
      <3>1. Len(written) \in Nat /\ DOMAIN written = 1..Len(written)
            /\ \A i \in 1..Len(written) : written[i] \in sentences
        BY <2>8, <2>9
      <3> QED
        BY <2>4, <3>1
    <2>10. written = head \o quotes \/ \E c : written = <<Sentence(c, TRUE)>>
      BY <2>1
    <2> QED
      BY <1>1, <2>9, <2>10
  <1> QED
    BY <1>1, <1>2, <1>3 DEF AnswerTexts

LEMMA CountsOfText ==
  ASSUME NEW text, NEW n \in Nat, DOMAIN text = 1..n
  PROVE  /\ Cardinality(Claims(text)) \in Nat /\ Cardinality(Supported(text)) \in Nat
         /\ Cardinality(Supported(text)) <= Cardinality(Claims(text))
  <1>1. IsFiniteSet(1..n)
    BY FS_Interval
  <1>2. IsFiniteSet(Claims(text)) /\ Supported(text) \subseteq Claims(text)
    BY <1>1, FS_Subset DEF Claims, Supported
  <1> QED
    BY <1>2, FS_Subset, FS_CardinalityType

(* What a text still cites after the repair is evidence it was given.      *)
LEMMA RepairedCites ==
  ASSUME NEW items, NEW written, NEW n \in Nat, DOMAIN written = 1..n,
         \A i \in 1..n : \E c, long : written[i] = Sentence(c, long)
  PROVE  /\ DOMAIN Repaired(written, items) = 1..n
         /\ UNION {Repaired(written, items)[i].cites : i \in DOMAIN Repaired(written, items)} \subseteq TagsOf(items)
  <1>1. DOMAIN Repaired(written, items) = 1..n
    BY DEF Repaired
  <1>2. ASSUME NEW i \in 1..n  PROVE Repaired(written, items)[i].cites \subseteq TagsOf(items)
    <2>1. Repaired(written, items)[i] = [written[i] EXCEPT !.cites = @ \cap TagsOf(items)]
      BY <1>2 DEF Repaired
    <2>2. PICK c, long : written[i] = Sentence(c, long)
      BY <1>2
    <2>3. [Sentence(c, long) EXCEPT !.cites = @ \cap TagsOf(items)].cites = c \cap TagsOf(items)
      BY DEF Sentence
    <2> QED
      BY <2>1, <2>2, <2>3
  <1> QED
    BY <1>1, <1>2

(* The policy, case by case.                                               *)
LEMMA DecisionIsBacked ==
  ASSUME NEW claims \in Nat, NEW supported \in Nat, supported <= claims, NEW failed \in BOOLEAN,
         NEW d, d = DecisionOf(claims, supported, failed), inquiry.ambiguous \in BOOLEAN, bundle.high \in Nat
  PROVE  /\ d = "ANSWER" => bundle.high = 0
         /\ d \in {"ANSWER", "ANSWER_WITH_WARNING"} =>
               ~failed /\ bundle.items # <<>> /\ 20 * supported >= 13 * claims
         /\ d = "INSUFFICIENT_EVIDENCE" => bundle.items = <<>> \/ supported < claims
         /\ d = "ASK_CLARIFICATION" => inquiry.ambiguous
         /\ d \in Decided \ {"none"}
  <1>1. CASE inquiry.ambiguous
    <2>1. d = "ASK_CLARIFICATION"
      BY <1>1 DEF DecisionOf
    <2> QED
      BY <1>1, <2>1 DEF Decided
  <1>2. CASE ~inquiry.ambiguous /\ bundle.items = <<>>
    <2>1. d = "INSUFFICIENT_EVIDENCE"
      BY <1>2 DEF DecisionOf
    <2> QED
      BY <1>2, <2>1 DEF Decided
  <1>3. CASE ~inquiry.ambiguous /\ bundle.items # <<>> /\ 100 * supported < 65 * claims
    <2>1. d = IF failed \/ Len(bundle.items) < 2 THEN "INSUFFICIENT_EVIDENCE" ELSE "PARTIAL_ANSWER"
      BY <1>3 DEF DecisionOf
    <2>2. supported < claims
      BY <1>3
    <2>3. d \in {"INSUFFICIENT_EVIDENCE", "PARTIAL_ANSWER"}
      BY <2>1
    <2> QED
      BY <2>2, <2>3 DEF Decided
  <1>4. CASE ~inquiry.ambiguous /\ bundle.items # <<>> /\ ~(100 * supported < 65 * claims)
    <2> DEFINE c == Confidence(claims, supported)
    <2>1. d = (IF failed THEN "PARTIAL_ANSWER"
               ELSE IF bundle.high > 0 THEN "ANSWER_WITH_WARNING"
               ELSE IF c >= 7500 THEN "ANSWER"
               ELSE IF c >= 5000 THEN "ANSWER_WITH_WARNING" ELSE "PARTIAL_ANSWER")
      BY <1>4 DEF DecisionOf
    <2> HIDE DEF c
    <2>2. 20 * supported >= 13 * claims
      BY <1>4
    <2>3. d \in {"PARTIAL_ANSWER", "ANSWER_WITH_WARNING", "ANSWER"} /\ (d # "PARTIAL_ANSWER" => ~failed)
          /\ (d = "ANSWER" => ~(bundle.high > 0))
      BY <2>1
    <2> QED
      BY <1>4, <2>2, <2>3 DEF Decided
  <1> QED
    BY <1>1, <1>2, <1>3, <1>4
-----------------------------------------------------------------------------
LEMMA OrchestrationInitInv == OrchestrationInit => OrchestrationInv
  <1> SUFFICES ASSUME OrchestrationInit  PROVE OrchestrationInv
    OBVIOUS
  <1>1. OrchestrationTypes
    <2>1. Len(bundle.items) = 0 /\ bundle.high = 0
      BY DEF OrchestrationInit, NoBundle
    <2>2. verdict.status \in Statuses
      BY NoVerdictBacked DEF OrchestrationInit, Statuses
    <2>3. inquiry \in [phase : Phases, metrics : BOOLEAN, paths : Nat, ambiguous : BOOLEAN]
      BY DEF OrchestrationInit, Phases
    <2>4. branches \in [sql : [state : BranchStates, number : Nat], rag : [state : BranchStates, numbers : Seq(Nat)]]
      BY DEF OrchestrationInit, BranchStates
    <2> QED
      BY <2>1, <2>2, <2>3, <2>4, OrchestrationAssumption DEF OrchestrationTypes, OrchestrationInit
  <1>2. RowsFollow
    BY DEF OrchestrationInit, RowsFollow
  <1> QED
    BY <1>1, <1>2, NoVerdictBacked DEF OrchestrationInv, OrchestrationInit

(* Until there is a verdict, nothing is to be backed.                      *)
LEMMA NoVerdictKeeps ==
  ASSUME OrchestrationInv, verdict = NoVerdict, verdict' = verdict, OrchestrationTypes', RowsFollow'
  PROVE  OrchestrationInv'
  <1>1. Backed(verdict)'
    BY NoVerdictBacked DEF Backed, NoVerdict
  <1> QED
    BY <1>1 DEF OrchestrationInv

LEMMA InquiryFailsKeeps == ASSUME OrchestrationInv, InquiryFails  PROVE OrchestrationInv'
  <1>1. /\ verdict = NoVerdict /\ verdict' = verdict /\ bundle' = bundle /\ branches' = branches /\ ledger' = ledger
        /\ inquiry' = [inquiry EXCEPT !.phase = "failed"] /\ ledgerTx' = [rows |-> ledger, ok |-> TRUE]
    BY DEF InquiryFails, OrchestrationInv
  <1>2. OrchestrationTypes /\ RowsFollow
    BY DEF OrchestrationInv
  <1>3. OrchestrationTypes'
    BY <1>1, <1>2 DEF OrchestrationTypes, Phases
  <1>4. inquiry'.phase = "failed" /\ ledgerTx'.rows = ledger
    BY <1>1, <1>2 DEF OrchestrationTypes
  <1>5. RowsFollow'
    BY <1>1, <1>2, <1>4 DEF RowsFollow
  <1> QED
    BY <1>1, <1>3, <1>5, NoVerdictKeeps

LEMMA ReceiveKeeps == ASSUME OrchestrationInv, Receive  PROVE OrchestrationInv'
  <1>1. /\ verdict = NoVerdict /\ verdict' = verdict /\ bundle' = bundle /\ branches' = branches /\ ledger' = ledger
        /\ inquiry' = [inquiry EXCEPT !.phase = "received"] /\ inquiry.phase = "new"
        /\ ledgerTx' = [ledgerTx EXCEPT !.rows = @ \cup {Execution}]
    BY DEF Receive, Recorded, OrchestrationInv
  <1>2. OrchestrationTypes /\ RowsFollow
    BY DEF OrchestrationInv
  <1>3. Execution \in 0..3
    BY DEF Execution
  <1>4. ledgerTx'.rows = {Execution} /\ ledger = {} /\ ledgerTx' \in [rows : SUBSET (0..3), ok : BOOLEAN]
    BY <1>1, <1>2, <1>3 DEF OrchestrationTypes, RowsFollow
  <1>5. inquiry'.phase = "received"
        /\ inquiry' \in [phase : Phases, metrics : BOOLEAN, paths : Nat, ambiguous : BOOLEAN]
    BY <1>1, <1>2 DEF OrchestrationTypes, Phases
  <1>6. OrchestrationTypes'
    BY <1>1, <1>2, <1>4, <1>5 DEF OrchestrationTypes
  <1>7. RowsFollow'
    BY <1>1, <1>4, <1>5 DEF RowsFollow
  <1> QED
    BY <1>1, <1>6, <1>7, NoVerdictKeeps

LEMMA PlanReasoningKeeps == ASSUME OrchestrationInv, PlanReasoning  PROVE OrchestrationInv'
  <1>1. /\ verdict = NoVerdict /\ bundle' = bundle /\ ledger' = ledger /\ inquiry.phase = "received"
        /\ ledgerTx' = [ledgerTx EXCEPT !.rows = @ \cup {1}]
    BY DEF PlanReasoning, Recorded, OrchestrationInv
  <1>2. OrchestrationTypes /\ RowsFollow
    BY DEF OrchestrationInv
  <1>3. ledgerTx'.rows = {Execution, 1} /\ ledger = {} /\ ledgerTx' \in [rows : SUBSET (0..3), ok : BOOLEAN]
    BY <1>1, <1>2 DEF OrchestrationTypes, RowsFollow, Execution
  <1>4. PICK mode \in Modes, words \in BOOLEAN, documents \in BOOLEAN, enabled \in BOOLEAN, metrics \in {0, 1, 4},
             paths \in PathCounts :
          IF metrics > 3 /\ enabled
          THEN AsksBack
          ELSE Planned(Strategy(mode, words \/ metrics > 0, documents, paths), metrics, paths)
    BY DEF PlanReasoning
  <1>5. CASE AsksBack
    <2>1. /\ inquiry' = [inquiry EXCEPT !.phase = "answered", !.ambiguous = TRUE]
          /\ verdict' = [NoVerdict EXCEPT !.decision = "ASK_CLARIFICATION", !.status = "NEEDS_CLARIFICATION"]
          /\ branches' = branches
      BY <1>5 DEF AsksBack
    <2>2. verdict'.status = "NEEDS_CLARIFICATION"
      BY <2>1, NoVerdictBacked
    <2>3. inquiry'.phase = "answered"
          /\ inquiry' \in [phase : Phases, metrics : BOOLEAN, paths : Nat, ambiguous : BOOLEAN]
      BY <1>2, <2>1 DEF OrchestrationTypes, Phases
    <2>4. OrchestrationTypes'
      BY <1>1, <1>2, <1>3, <2>1, <2>2, <2>3 DEF OrchestrationTypes, Statuses
    <2>5. RowsFollow'
      BY <1>1, <1>3, <2>2, <2>3 DEF RowsFollow
    <2>6. Backed(verdict)'
      BY <2>1 DEF Backed, NoVerdict
    <2> QED
      BY <2>3, <2>4, <2>5, <2>6 DEF OrchestrationInv
  <1>6. CASE ~AsksBack
    <2>1. Planned(Strategy(mode, words \/ metrics > 0, documents, paths), metrics, paths)
      BY <1>4, <1>6
    <2> DEFINE strategy == Strategy(mode, words \/ metrics > 0, documents, paths)
               one == IF strategy \in {"SQL", "HYBRID"} THEN "working" ELSE "off"
               other == IF strategy \in {"RAG", "HYBRID"} THEN "working" ELSE "off"
    <2>2. /\ inquiry' = [phase |-> "executing", metrics |-> metrics > 0, paths |-> paths, ambiguous |-> metrics > 3]
          /\ branches' = [sql |-> [branches.sql EXCEPT !.state = one], rag |-> [branches.rag EXCEPT !.state = other]]
          /\ verdict' = verdict
      BY <2>1 DEF Planned
    <2>3. one \in BranchStates /\ other \in BranchStates
      BY DEF BranchStates
    <2> HIDE DEF one, other
    <2>4. branches' \in [sql : [state : BranchStates, number : Nat], rag : [state : BranchStates, numbers : Seq(Nat)]]
      BY <1>2, <2>2, <2>3 DEF OrchestrationTypes
    <2>5. inquiry'.phase = "executing"
          /\ inquiry' \in [phase : Phases, metrics : BOOLEAN, paths : Nat, ambiguous : BOOLEAN]
      <3>1. paths \in Nat /\ (metrics > 0) \in BOOLEAN /\ (metrics > 3) \in BOOLEAN
        BY OrchestrationAssumption
      <3> QED
        BY <2>2, <3>1 DEF Phases
    <2>6. OrchestrationTypes'
      BY <1>1, <1>2, <1>3, <2>2, <2>4, <2>5 DEF OrchestrationTypes
    <2>7. RowsFollow'
      BY <1>1, <1>3, <2>5 DEF RowsFollow
    <2> QED
      BY <1>1, <2>2, <2>6, <2>7, NoVerdictKeeps
  <1> QED
    BY <1>5, <1>6

(* A branch ends: its state, what it found, and what it did to the session *)
(* that it shares.                                                         *)
LEMMA BranchEndsKeeps ==
  ASSUME OrchestrationInv, inquiry.phase = "executing", inquiry' = inquiry, bundle' = bundle, verdict' = verdict,
         branches' \in [sql : [state : BranchStates, number : Nat], rag : [state : BranchStates, numbers : Seq(Nat)]],
         ledgerTx' \in [rows : SUBSET (0..3), ok : BOOLEAN],
         \/ ledger' = ledger /\ ledgerTx'.rows \in {ledgerTx.rows, ledger}
         \/ ledger' = ledgerTx.rows /\ ledgerTx' = ledgerTx
  PROVE  OrchestrationInv'
  <1>1. verdict = NoVerdict /\ OrchestrationTypes /\ RowsFollow
    BY DEF OrchestrationInv
  <1>2. OrchestrationTypes'
    BY <1>1 DEF OrchestrationTypes
  <1>3. RowsFollow'
    BY <1>1 DEF RowsFollow
  <1> QED
    BY <1>1, <1>2, <1>3, NoVerdictKeeps

LEMMA FailingRows ==
  ASSUME OrchestrationTypes, Failing
  PROVE  /\ ledgerTx' \in [rows : SUBSET (0..3), ok : BOOLEAN] /\ ledger' = ledger
         /\ ledgerTx'.rows \in {ledgerTx.rows, ledger}
  BY DEF OrchestrationTypes, Failing

LEMMA SqlEndsKeeps == ASSUME OrchestrationInv, SqlEnds  PROVE OrchestrationInv'
  <1>1. OrchestrationTypes
    BY DEF OrchestrationInv
  <1>2. inquiry.phase = "executing" /\ inquiry' = inquiry /\ bundle' = bundle /\ verdict' = verdict
    BY DEF SqlEnds
  <1>3. \A state \in BranchStates :
           [branches EXCEPT !.sql.state = state]
              \in [sql : [state : BranchStates, number : Nat], rag : [state : BranchStates, numbers : Seq(Nat)]]
    BY <1>1 DEF OrchestrationTypes
  <1>4. \A n \in SqlNumbers :
           [branches EXCEPT !.sql = [state |-> "found", number |-> n]]
              \in [sql : [state : BranchStates, number : Nat], rag : [state : BranchStates, numbers : Seq(Nat)]]
    BY <1>1, OrchestrationAssumption DEF OrchestrationTypes, BranchStates
  <1>5. branches' \in [sql : [state : BranchStates, number : Nat], rag : [state : BranchStates, numbers : Seq(Nat)]]
    BY <1>3, <1>4 DEF SqlEnds, BranchStates
  <1>6. \/ ledger' = ledger /\ ledgerTx' = ledgerTx
        \/ Failing
        \/ ledger' = ledgerTx.rows /\ ledgerTx' = ledgerTx
        \/ ledgerTx' = [rows |-> ledger, ok |-> TRUE] /\ ledger' = ledger
    BY DEF SqlEnds
  <1>7. ledgerTx' \in [rows : SUBSET (0..3), ok : BOOLEAN]
    <2>1. ledgerTx \in [rows : SUBSET (0..3), ok : BOOLEAN] /\ ledger \in SUBSET (0..3)
      BY <1>1 DEF OrchestrationTypes
    <2>2. [rows |-> ledger, ok |-> TRUE] \in [rows : SUBSET (0..3), ok : BOOLEAN]
      BY <2>1
    <2> QED
      BY <1>1, <1>6, <2>1, <2>2, FailingRows
  <1>8. \/ ledger' = ledger /\ ledgerTx'.rows \in {ledgerTx.rows, ledger}
        \/ ledger' = ledgerTx.rows /\ ledgerTx' = ledgerTx
    BY <1>1, <1>6, FailingRows
  <1> QED
    BY <1>2, <1>5, <1>7, <1>8, BranchEndsKeeps

LEMMA RagEndsKeeps == ASSUME OrchestrationInv, RagEnds  PROVE OrchestrationInv'
  <1>1. OrchestrationTypes
    BY DEF OrchestrationInv
  <1>2. inquiry.phase = "executing" /\ inquiry' = inquiry /\ bundle' = bundle /\ verdict' = verdict
    BY DEF RagEnds
  <1>3. \A state \in BranchStates :
           [branches EXCEPT !.rag.state = state]
              \in [sql : [state : BranchStates, number : Nat], rag : [state : BranchStates, numbers : Seq(Nat)]]
    BY <1>1 DEF OrchestrationTypes
  <1>4. \A s \in DocumentNumbers :
           [branches EXCEPT !.rag = [state |-> "found", numbers |-> s]]
              \in [sql : [state : BranchStates, number : Nat], rag : [state : BranchStates, numbers : Seq(Nat)]]
    BY <1>1, OrchestrationAssumption DEF OrchestrationTypes, BranchStates
  <1>5. branches' \in [sql : [state : BranchStates, number : Nat], rag : [state : BranchStates, numbers : Seq(Nat)]]
    BY <1>3, <1>4 DEF RagEnds, BranchStates
  <1>6. Failing \/ (ledger' = ledger /\ ledgerTx' = ledgerTx)
    BY DEF RagEnds
  <1>7. ledgerTx' \in [rows : SUBSET (0..3), ok : BOOLEAN] /\ ledger' = ledger
        /\ ledgerTx'.rows \in {ledgerTx.rows, ledger}
    BY <1>1, <1>6, FailingRows DEF OrchestrationTypes
  <1> QED
    BY <1>2, <1>5, <1>7, BranchEndsKeeps
-----------------------------------------------------------------------------
LEMMA CollectKeeps == ASSUME OrchestrationInv, Collect  PROVE OrchestrationInv'
  <1> DEFINE items == Collected
             contested == Contested(items)
             high == {i \in contested : Severe(branches.sql.number, branches.rag.numbers[i])}
             kept == [i \in DOMAIN items |->
                        IF \E d \in contested : items[i].tag = <<"D", d>> THEN [items[i] EXCEPT !.trust = 0] ELSE items[i]]
  <1>1. verdict = NoVerdict /\ OrchestrationTypes /\ RowsFollow
    BY DEF OrchestrationInv, Collect
  <1>2. /\ inquiry.phase = "executing" /\ Execution \in ledgerTx.rows
        /\ ledgerTx' = [ledgerTx EXCEPT !.rows = @ \cup {2}] /\ inquiry' = [inquiry EXCEPT !.phase = "generating"]
        /\ bundle' = [items |-> kept, high |-> Cardinality(high), medium |-> Cardinality(contested \ high)]
        /\ branches' = branches /\ ledger' = ledger /\ verdict' = verdict
    BY DEF Collect, CanRecord, Recorded, Execution
  <1>3. Len(kept) \in Nat /\ Len(kept) <= MaxItems
    <2>1. Len(items) \in Nat /\ Len(items) <= MaxItems /\ DOMAIN items = 1..Len(items)
      BY <1>1, CollectedFits
    <2> HIDE DEF items, contested
    <2>2. DOMAIN kept = 1..Len(items)
      BY <2>1
    <2> HIDE DEF kept
    <2> QED
      BY <2>1, <2>2
  <1>4. Cardinality(high) \in Nat
    <2>1. branches.rag.numbers \in Seq(Nat)
      BY <1>1 DEF OrchestrationTypes
    <2>2. IsFiniteSet(DOMAIN branches.rag.numbers)
      <3>1. DOMAIN branches.rag.numbers = 1..Len(branches.rag.numbers) /\ Len(branches.rag.numbers) \in Nat
        BY <2>1
      <3> QED
        BY <3>1, FS_Interval
    <2>3. high \subseteq DOMAIN branches.rag.numbers
      BY DEF Contested
    <2> QED
      BY <2>2, <2>3, FS_Subset, FS_CardinalityType
  <1> HIDE DEF kept, high, contested
  <1>5. bundle'.items = kept /\ bundle'.high = Cardinality(high)
    BY <1>2
  <1>6. inquiry'.phase = "generating"
        /\ inquiry' \in [phase : Phases, metrics : BOOLEAN, paths : Nat, ambiguous : BOOLEAN]
    BY <1>1, <1>2 DEF OrchestrationTypes, Phases
  <1>7. ledgerTx' \in [rows : SUBSET (0..3), ok : BOOLEAN] /\ ledgerTx'.rows = {Execution, 1, 2}
    <2>1. ledgerTx \in [rows : SUBSET (0..3), ok : BOOLEAN]
      BY <1>1 DEF OrchestrationTypes
    <2>2. ledgerTx.rows = {Execution, 1}
      BY <1>1, <1>2 DEF RowsFollow
    <2>3. ledgerTx.rows \cup {2} = {Execution, 1, 2}
      BY <2>2
    <2>4. {Execution, 1, 2} \in SUBSET (0..3)
      BY DEF Execution
    <2>5. ledgerTx' = [ledgerTx EXCEPT !.rows = {Execution, 1, 2}]
      BY <1>2, <2>3
    <2> QED
      BY <2>1, <2>4, <2>5
  <1>8. OrchestrationTypes'
    BY <1>1, <1>2, <1>3, <1>4, <1>5, <1>6, <1>7 DEF OrchestrationTypes
  <1>9. RowsFollow'
    BY <1>1, <1>2, <1>6, <1>7 DEF RowsFollow
  <1> QED
    BY <1>1, <1>2, <1>8, <1>9, NoVerdictKeeps

LEMMA AnsweringKeeps == ASSUME OrchestrationInv, Answer  PROVE OrchestrationInv'
  <1>1. OrchestrationTypes /\ RowsFollow
    BY DEF OrchestrationInv
  <1>2. /\ inquiry.phase = "generating" /\ Converses /\ inquiry' = [inquiry EXCEPT !.phase = "answered"]
        /\ branches' = branches /\ bundle' = bundle /\ ledger' = ledger
    BY DEF Answer
  <1>3. PICK written \in AnswerTexts(bundle.items) :
           verdict' = [decision |-> Decision(Cardinality(Claims(Repaired(written, bundle.items))),
                                             Cardinality(Supported(Repaired(written, bundle.items)))),
                       status |-> Status(Decision(Cardinality(Claims(Repaired(written, bundle.items))),
                                                  Cardinality(Supported(Repaired(written, bundle.items))))),
                       cites |-> UNION {Repaired(written, bundle.items)[i].cites :
                                           i \in DOMAIN Repaired(written, bundle.items)},
                       claims |-> Cardinality(Claims(Repaired(written, bundle.items))),
                       supported |-> Cardinality(Supported(Repaired(written, bundle.items)))]
    BY DEF Answer
  <1> DEFINE text == Repaired(written, bundle.items)
             claims == Cardinality(Claims(text))
             supported == Cardinality(Supported(text))
             decision == Decision(claims, supported)
             cites == UNION {text[i].cites : i \in DOMAIN text}
  <1>4. PICK n \in Nat : DOMAIN written = 1..n /\ \A i \in 1..n : \E c, long : written[i] = Sentence(c, long)
    <2>1. Len(bundle.items) \in Nat
      BY <1>1 DEF OrchestrationTypes
    <2> QED
      BY <2>1, TextsAreSequences
  <1>5. DOMAIN text = 1..n /\ cites \subseteq TagsOf(bundle.items)
    BY <1>4, RepairedCites
  <1>6. claims \in Nat /\ supported \in Nat /\ supported <= claims
    BY <1>5, CountsOfText
  <1>7. verdict' = [decision |-> decision, status |-> Status(decision), cites |-> cites, claims |-> claims,
                    supported |-> supported]
    BY <1>3
  <1> HIDE DEF text, claims, supported, cites
  <1>8. /\ decision = "ANSWER" => bundle.high = 0
        /\ decision \in {"ANSWER", "ANSWER_WITH_WARNING"} =>
              ~SomeBranchFailed /\ bundle.items # <<>> /\ 20 * supported >= 13 * claims
        /\ decision = "INSUFFICIENT_EVIDENCE" => bundle.items = <<>> \/ supported < claims
        /\ decision = "ASK_CLARIFICATION" => inquiry.ambiguous
        /\ decision \in Decided \ {"none"}
    <2>1. SomeBranchFailed \in BOOLEAN /\ inquiry.ambiguous \in BOOLEAN /\ bundle.high \in Nat
      BY <1>1 DEF OrchestrationTypes, SomeBranchFailed
    <2>2. decision = DecisionOf(claims, supported, SomeBranchFailed)
      BY DEF Decision
    <2> HIDE DEF decision
    <2> QED
      BY <1>6, <2>1, <2>2, DecisionIsBacked
  <1> HIDE DEF decision
  <1>9. /\ Status(decision) \in {"PARTIAL", "INSUFFICIENT_EVIDENCE", "COMPLETED"}
        /\ Status(decision) = "COMPLETED" =>
              decision \in {"ASK_CLARIFICATION", "ANSWER_WITH_WARNING", "ANSWER"}
    <2>1. decision \in {"ASK_CLARIFICATION", "INSUFFICIENT_EVIDENCE", "PARTIAL_ANSWER", "ANSWER_WITH_WARNING", "ANSWER"}
      BY <1>8 DEF Decided
    <2>2. CASE decision = "PARTIAL_ANSWER"
      BY <2>2 DEF Status
    <2>3. CASE decision = "INSUFFICIENT_EVIDENCE"
      BY <2>3 DEF Status
    <2>4. CASE decision \in {"ASK_CLARIFICATION", "ANSWER_WITH_WARNING", "ANSWER"}
      BY <2>4 DEF Status
    <2> QED
      BY <2>1, <2>2, <2>3, <2>4
  <1> DEFINE status == Status(decision)
  <1> HIDE DEF status
  <1>10. /\ verdict'.decision = decision /\ verdict'.status = status /\ verdict'.cites = cites
         /\ verdict'.claims = claims /\ verdict'.supported = supported
    BY <1>7 DEF status
  <1>11. inquiry'.phase = "answered" /\ inquiry'.ambiguous = inquiry.ambiguous
         /\ inquiry' \in [phase : Phases, metrics : BOOLEAN, paths : Nat, ambiguous : BOOLEAN]
    BY <1>1, <1>2 DEF OrchestrationTypes, Phases
  <1>12. ledgerTx' \in [rows : SUBSET (0..3), ok : BOOLEAN] /\ ledgerTx'.rows = 0..3
    <2>1. ledgerTx.rows \cup {3} = 0..3
      BY <1>1, <1>2 DEF RowsFollow, Execution
    <2> QED
      BY <1>2, <2>1 DEF Converses
  <1>13. OrchestrationTypes'
    BY <1>1, <1>2, <1>9, <1>10, <1>11, <1>12 DEF OrchestrationTypes, Statuses, status
  <1>14. RowsFollow'
    BY <1>1, <1>2, <1>9, <1>10, <1>11, <1>12 DEF RowsFollow, status, Execution
  <1>15. SomeBranchFailed' <=> SomeBranchFailed
    BY <1>2 DEF SomeBranchFailed
  <1>16. Backed(verdict)'
    <2>1. verdict'.cites \subseteq TagsOf(bundle.items)
      BY <1>5, <1>10
    <2>2. verdict'.decision = "ANSWER" => bundle.high = 0
      BY <1>8, <1>10
    <2>3. verdict'.decision \in {"ANSWER", "ANSWER_WITH_WARNING"} =>
             /\ ~SomeBranchFailed /\ bundle.items # <<>> /\ 20 * verdict'.supported >= 13 * verdict'.claims
      BY <1>8, <1>10
    <2>4. verdict'.decision = "INSUFFICIENT_EVIDENCE" => bundle.items = <<>> \/ verdict'.supported < verdict'.claims
      BY <1>8, <1>10
    <2>5. verdict'.status = "COMPLETED" /\ ~inquiry'.ambiguous => ~SomeBranchFailed
      BY <1>8, <1>9, <1>10, <1>11 DEF status
    <2> QED
      BY <1>2, <1>15, <2>1, <2>2, <2>3, <2>4, <2>5 DEF Backed, TagsOf
  <1> QED
    BY <1>11, <1>13, <1>14, <1>16 DEF OrchestrationInv

LEMMA InquiryEndsKeeps == ASSUME OrchestrationInv, InquiryEnds  PROVE OrchestrationInv'
  <1>1. OrchestrationTypes /\ RowsFollow /\ Backed(verdict)
    BY DEF OrchestrationInv
  <1>2. /\ inquiry' = [inquiry EXCEPT !.phase = "ended"]
        /\ branches' = branches /\ bundle' = bundle /\ verdict' = verdict
        /\ \/ ledger' = ledgerTx.rows /\ ledgerTx' = ledgerTx
           \/ ledgerTx' = [rows |-> ledger, ok |-> TRUE] /\ ledger' = ledger
    BY DEF InquiryEnds
  <1>3. inquiry'.phase = "ended" /\ inquiry'.ambiguous = inquiry.ambiguous
        /\ inquiry' \in [phase : Phases, metrics : BOOLEAN, paths : Nat, ambiguous : BOOLEAN]
    BY <1>1, <1>2 DEF OrchestrationTypes, Phases
  <1>4. ledger' \subseteq 0..3 /\ ledgerTx' \in [rows : SUBSET (0..3), ok : BOOLEAN]
        /\ \A rows \in {ledger', ledgerTx'.rows} : rows \in {ledger, ledgerTx.rows}
    <2>1. ledgerTx \in [rows : SUBSET (0..3), ok : BOOLEAN] /\ ledger \in SUBSET (0..3)
      BY <1>1 DEF OrchestrationTypes
    <2>2. [rows |-> ledger, ok |-> TRUE] \in [rows : SUBSET (0..3), ok : BOOLEAN]
      BY <2>1
    <2>3. CASE ledger' = ledgerTx.rows /\ ledgerTx' = ledgerTx
      <3>1. ledger' \subseteq 0..3 /\ ledgerTx' \in [rows : SUBSET (0..3), ok : BOOLEAN]
        BY <2>1, <2>3
      <3> QED
        BY <2>3, <3>1
    <2>4. CASE ledgerTx' = [rows |-> ledger, ok |-> TRUE] /\ ledger' = ledger
      <3>1. ledger' \subseteq 0..3 /\ ledgerTx' \in [rows : SUBSET (0..3), ok : BOOLEAN]
        BY <2>1, <2>2, <2>4
      <3>2. ledgerTx'.rows = ledger
        BY <2>4
      <3> QED
        BY <2>4, <3>1, <3>2
    <2> QED
      BY <1>2, <2>3, <2>4
  <1>5. OrchestrationTypes'
    BY <1>1, <1>2, <1>3, <1>4 DEF OrchestrationTypes
  <1>6. RowsFollow'
    BY <1>1, <1>3, <1>4 DEF RowsFollow
  <1>7. Backed(verdict)'
    BY <1>1, <1>2, <1>3 DEF Backed, SomeBranchFailed, TagsOf
  <1> QED
    BY <1>3, <1>5, <1>6, <1>7 DEF OrchestrationInv

LEMMA OrchestrationStepInv ==
  OrchestrationInv /\ [OrchestrationNext]_orchestrationVars => OrchestrationInv'
  <1> SUFFICES ASSUME OrchestrationInv, [OrchestrationNext]_orchestrationVars  PROVE OrchestrationInv'
    OBVIOUS
  <1>1. CASE UNCHANGED orchestrationVars
    BY <1>1 DEF orchestrationVars, OrchestrationInv, OrchestrationTypes, RowsFollow, Backed, SomeBranchFailed, TagsOf
  <1>2. CASE OrchestrationNext
    BY <1>2, ReceiveKeeps, PlanReasoningKeeps, SqlEndsKeeps, RagEndsKeeps, CollectKeeps, AnsweringKeeps,
       InquiryFailsKeeps, InquiryEndsKeeps DEF OrchestrationNext
  <1> QED
    BY <1>1, <1>2

LEMMA OrchestrationInvBacks == OrchestrationInv => DecisionsAreBacked /\ OrchestrationTypeOK
  <1> SUFFICES ASSUME OrchestrationInv  PROVE DecisionsAreBacked /\ OrchestrationTypeOK
    OBVIOUS
  <1>1. DecisionsAreBacked
    BY DEF OrchestrationInv, DecisionsAreBacked, Backed, RowsFollow
  <1>2. OrchestrationTypeOK
    <2>1. /\ inquiry.phase \in Phases
          /\ branches.sql.state \in BranchStates /\ branches.rag.state \in BranchStates
          /\ Len(bundle.items) <= MaxItems /\ ledger \subseteq 0..3 /\ ledgerTx.rows \subseteq 0..3
          /\ verdict.status \in Statuses
      BY DEF OrchestrationInv, OrchestrationTypes
    <2> QED
      BY <2>1 DEF OrchestrationTypeOK, Phases, BranchStates, Statuses
  <1> QED
    BY <1>1, <1>2

(* Whatever the branches find or lose, whatever text is written, and       *)
(* wherever the request fails: a decision is backed by the evidence, and   *)
(* whoever is answered has the execution and its steps in the transaction. *)
THEOREM DecisionsStayBacked == OrchestrationSpec => [](OrchestrationTypeOK /\ DecisionsAreBacked)
  BY OrchestrationInitInv, OrchestrationStepInv, OrchestrationInvBacks, PTL DEF OrchestrationSpec
=============================================================================
