---------------------------- MODULE DatasetVersions ----------------------------
(***************************************************************************)
(* Ingestions of one dataset (backend/app/ingestion/application): each     *)
(* reads the latest version number, inserts a version row as INGESTING,    *)
(* reads and writes the data, and promotes the version in one transaction, *)
(* or marks it FAILED.  Nothing keeps two ingestions of a dataset apart.   *)
(*                                                                         *)
(* Sessions are READ COMMITTED, with autoflush and expire_on_commit off    *)
(* (db/postgres.py:40): ORM changes reach the database when commit()       *)
(* flushes, a column assigned the value it was loaded with is not written, *)
(* and in one flush the unit of work emits the INSERTs of a table before   *)
(* its DELETEs.  (dataset_id, version) and (dataset_id, column name) are   *)
(* unique.  A failed flush rolls the transaction back and every further    *)
(* use of the session raises.                                              *)
(***************************************************************************)
EXTENDS Naturals, FiniteSets

CONSTANTS Ingestions,       \* calls of ingest_dataset
          Schemas,          \* sets of column names a source may have
          MaxIngestCrashes  \* bound: workers that die in an ingestion

ASSUME DatasetAssumption == IsFiniteSet(Ingestions) /\ MaxIngestCrashes \in Nat

VARIABLES versions,     \* status by version number, "none" without a row
          columnRows,   \* rows of dataset_columns: [name, by]
          dataset,      \* the datasets row: [status, current]
          ingestion,    \* where each call is, and what its session holds
          overlapped,   \* two ingestions were in progress at once (history)
          ingestCrashes

datasetVars == <<versions, columnRows, dataset, ingestion, overlapped, ingestCrashes>>

VersionNumbers == 1..Cardinality(Ingestions)
RowStatus == {"ingesting", "ready", "stale", "failed"}
DatasetStatus == {"created", "ready", "failed"}
DatasetRow == [status : DatasetStatus \cup {"deleted"}, current : VersionNumbers]

Fresh == [at |-> "new", number |-> 1, schema |-> {}, loaded |-> [status |-> "created", current |-> 1],
          staled |-> {}, old |-> {}, ready |-> FALSE]

InProgress == {i \in Ingestions : ingestion[i].at \notin {"new", "done", "error", "dead"}}
ReadyVersions == {v \in VersionNumbers : versions[v] = "ready"}
Deleted == dataset.status = "deleted"
NamesOf(rows) == {r.name : r \in rows}

DatasetTypeOK ==
    /\ versions \in [VersionNumbers -> RowStatus \cup {"none"}]
    /\ columnRows \subseteq [name : UNION Schemas, by : VersionNumbers]
    /\ \A r, s \in columnRows : r.name = s.name => r = s
    /\ dataset \in DatasetRow
    /\ \A i \in Ingestions :
          /\ ingestion[i].number \in VersionNumbers /\ ingestion[i].loaded \in DatasetRow
          /\ ingestion[i].schema \in Schemas \cup {{}}
          /\ ingestion[i].staled \subseteq VersionNumbers \ {ingestion[i].number}
    /\ overlapped \in BOOLEAN /\ ingestCrashes \in 0..MaxIngestCrashes

DatasetInit ==
    /\ versions = [v \in VersionNumbers |-> "none"]
    /\ columnRows = {}
    /\ dataset = [status |-> "created", current |-> 1]
    /\ ingestion = [i \in Ingestions |-> Fresh]
    /\ overlapped = FALSE /\ ingestCrashes = 0
-----------------------------------------------------------------------------
Moves(i, fields) == ingestion' = [ingestion EXCEPT ![i] = fields]
GoesTo(i, at) == Moves(i, [ingestion[i] EXCEPT !.at = at])

(* The dataset is loaded, and the highest version number read.             *)
Number(i) ==
    /\ ingestion[i].at = "new"
    /\ LET taken == {v \in VersionNumbers : versions[v] # "none"} IN
       IF Deleted THEN GoesTo(i, "error")
       ELSE Moves(i, [ingestion[i] EXCEPT !.at = "numbered", !.loaded = dataset,
                                          !.number = Cardinality(taken) + 1])
    /\ overlapped' = (overlapped \/ InProgress # {})
    /\ UNCHANGED <<versions, columnRows, dataset, ingestCrashes>>

(* prepare_new_version commits the row, unless the number was taken or the *)
(* dataset deleted meanwhile; the call is not inside the try yet.          *)
CreateVersion(i) ==
    /\ ingestion[i].at = "numbered"
    /\ LET n == ingestion[i].number IN
       IF versions[n] = "none" /\ ~Deleted
       THEN versions' = [versions EXCEPT ![n] = "ingesting"] /\ GoesTo(i, "reading")
       ELSE GoesTo(i, "error") /\ UNCHANGED versions
    /\ UNCHANGED <<columnRows, dataset, overlapped, ingestCrashes>>

(* Steps 4 to 12: the rows are read, normalised and written to a partition *)
(* directory named by the version; the schema comes from the source.       *)
Materialize(i) ==
    /\ ingestion[i].at = "reading"
    /\ \E s \in Schemas : Moves(i, [ingestion[i] EXCEPT !.at = "materialized", !.schema = s])
    /\ UNCHANGED <<versions, columnRows, dataset, overlapped, ingestCrashes>>

MaterializeFails(i) ==
    /\ ingestion[i].at = "reading"
    /\ GoesTo(i, "failing")
    /\ UNCHANGED <<versions, columnRows, dataset, overlapped, ingestCrashes>>

(* promote_version_success, 1: the UPDATE ... SET status = 'stale' selects *)
(* the READY rows it sees, then locks them, waiting for other transactions *)
(* that hold them, and changes those that are still READY.                 *)
SelectReady(i) ==
    /\ ingestion[i].at = "materialized"
    /\ Moves(i, [ingestion[i] EXCEPT !.at = "staling", !.staled = ReadyVersions])
    /\ UNCHANGED <<versions, columnRows, dataset, overlapped, ingestCrashes>>

(* Mutant: the staling is committed by itself, before the promotion.       *)
StaleOthersAtOnce(i) ==
    /\ ingestion[i].at = "staling"
    /\ versions' = [v \in VersionNumbers |-> IF v \in ReadyVersions THEN "stale" ELSE versions[v]]
    /\ GoesTo(i, "staled")
    /\ UNCHANGED <<columnRows, dataset, overlapped, ingestCrashes>>

StaleOthers(i) ==
    /\ ingestion[i].at = "staling"
    /\ \A k \in Ingestions : ingestion[k].at \in {"staled", "columns"} =>
          ingestion[k].staled \cap ingestion[i].staled = {}
    /\ Moves(i, [ingestion[i] EXCEPT !.at = "staled", !.staled = @ \cap ReadyVersions])
    /\ UNCHANGED <<versions, columnRows, dataset, overlapped, ingestCrashes>>

(* 3: the existing columns are loaded and marked for deletion.             *)
LoadColumns(i) ==
    /\ ingestion[i].at = "staled"
    /\ Moves(i, [ingestion[i] EXCEPT !.at = "columns", !.old = columnRows])
    /\ UNCHANGED <<versions, columnRows, dataset, overlapped, ingestCrashes>>

(* The flush succeeds: INSERTs first, then DELETEs of the loaded rows, and *)
(* those fields of the dataset that differ from their loaded values.       *)
Conflicts(i) == Deleted \/ ingestion[i].schema \cap NamesOf(columnRows) # {}

Written(i, field, new) ==
    IF ingestion[i].loaded[field] = new THEN dataset[field] ELSE new

(* Mutant: the columns of the version before are left in place.            *)
PromoteKeepingColumns(i) ==
    /\ ingestion[i].at = "columns" /\ ~Conflicts(i)
    /\ LET n == ingestion[i].number IN
       /\ versions' = [v \in VersionNumbers |->
             IF v = n THEN "ready" ELSE IF v \in ingestion[i].staled THEN "stale" ELSE versions[v]]
       /\ columnRows' = columnRows \cup [name : ingestion[i].schema, by : {n}]
       /\ dataset' = [status |-> "ready", current |-> n]
    /\ GoesTo(i, "audit")
    /\ UNCHANGED <<overlapped, ingestCrashes>>

Promote(i) ==
    /\ ingestion[i].at = "columns" /\ ~Conflicts(i)
    /\ LET n == ingestion[i].number IN
       /\ versions' = [v \in VersionNumbers |->
             IF v = n THEN "ready" ELSE IF v \in ingestion[i].staled THEN "stale" ELSE versions[v]]
       /\ columnRows' = (columnRows \ ingestion[i].old) \cup [name : ingestion[i].schema, by : {n}]
       /\ dataset' = [status |-> Written(i, "status", "ready"), current |-> Written(i, "current", n)]
    /\ GoesTo(i, "audit")
    /\ UNCHANGED <<overlapped, ingestCrashes>>

(* It fails: the transaction is rolled back, and mark_version_failure,     *)
(* called on the failed session, raises in turn.                           *)
PromoteFails(i) ==
    /\ ingestion[i].at = "columns" /\ Conflicts(i)
    /\ GoesTo(i, "error")
    /\ UNCHANGED <<versions, columnRows, dataset, overlapped, ingestCrashes>>

(* The audit entry is committed, or the database refuses it: then the call *)
(* fails, with its version READY.                                          *)
Audit(i) ==
    /\ ingestion[i].at = "audit"
    /\ \E answer \in {"done", "error"} : GoesTo(i, answer)
    /\ UNCHANGED <<versions, columnRows, dataset, overlapped, ingestCrashes>>

(* mark_version_failure looks for a READY version, then commits.           *)
LookForReady(i) ==
    /\ ingestion[i].at = "failing"
    /\ Moves(i, [ingestion[i] EXCEPT !.at = "marking", !.ready = ReadyVersions # {}])
    /\ UNCHANGED <<versions, columnRows, dataset, overlapped, ingestCrashes>>

MarkFailure(i) ==
    /\ ingestion[i].at = "marking"
    /\ GoesTo(i, "error")
    /\ versions' = IF Deleted THEN versions ELSE [versions EXCEPT ![ingestion[i].number] = "failed"]
    /\ dataset' = IF Deleted \/ ingestion[i].ready THEN dataset
                  ELSE [dataset EXCEPT !.status = Written(i, "status", "failed")]
    /\ UNCHANGED <<columnRows, overlapped, ingestCrashes>>

(* DELETE /datasets/{id}: columns and versions go with the row.  It waits  *)
(* for transactions that hold version rows.                                *)
DeleteDataset ==
    /\ ~Deleted /\ \A k \in Ingestions : ingestion[k].at \in {"staled", "columns"} => ingestion[k].staled = {}
    /\ dataset' = [dataset EXCEPT !.status = "deleted"]
    /\ versions' = [v \in VersionNumbers |-> "none"]
    /\ columnRows' = {}
    /\ UNCHANGED <<ingestion, overlapped, ingestCrashes>>

IngestionDies(i) ==
    /\ i \in InProgress /\ ingestCrashes < MaxIngestCrashes
    /\ ingestCrashes' = ingestCrashes + 1
    /\ GoesTo(i, "dead")
    /\ UNCHANGED <<versions, columnRows, dataset, overlapped>>
-----------------------------------------------------------------------------
IngestionStep(i) ==
    \/ Number(i) \/ CreateVersion(i) \/ Materialize(i) \/ MaterializeFails(i)
    \/ SelectReady(i) \/ StaleOthers(i) \/ LoadColumns(i) \/ Promote(i) \/ PromoteFails(i)
    \/ Audit(i) \/ LookForReady(i) \/ MarkFailure(i)

DatasetNext ==
    \/ \E i \in Ingestions : IngestionStep(i) \/ IngestionDies(i)
    \/ DeleteDataset

DatasetSpec == DatasetInit /\ [][DatasetNext]_datasetVars
-----------------------------------------------------------------------------
(* Zero downtime (task_27_dataset_ingestion.md:46-50): once a dataset has  *)
(* a READY version it has one at every moment until it is deleted, through *)
(* failures, crashes and overlapping promotions.                           *)
ZeroDowntime ==
    [][ReadyVersions # {} => ReadyVersions' # {} \/ dataset'.status = "deleted"]_datasetVars

(* As long as ingestions of the dataset do not overlap, the four places    *)
(* that describe it agree: at most one version is READY, the datasets row  *)
(* points at it and is READY with it, and the column rows are its own.     *)
SequentialIngestionsAgree ==
    ~overlapped =>
       \A v \in ReadyVersions :
          /\ ReadyVersions = {v}
          /\ dataset = [status |-> "ready", current |-> v]
          /\ \A r \in columnRows : r.by = v

(* "If v2 fails at any point, v2 is marked FAILED"                         *)
(* (task_27_dataset_ingestion.md:50): a call that ended with an error has  *)
(* left no version INGESTING.                                              *)
FailureIsMarked ==
    \A i \in Ingestions : ingestion[i].at = "error" /\ ~overlapped =>
       versions[ingestion[i].number] # "ingesting"
=============================================================================
