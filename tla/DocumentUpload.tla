---------------------------- MODULE DocumentUpload ----------------------------
(***************************************************************************)
(* DocumentService.upload_document and delete_document                     *)
(* (backend/app/services/document.py) for files of one content in one      *)
(* organization: a lookup by checksum, an object saved under a random key, *)
(* and a row that refers to it; the row is inserted under a partial unique *)
(* index on (organization_id, sha256) of rows that are not deleted.  The   *)
(* object store takes part in no transaction.  An upload names its object  *)
(* and its row.                                                            *)
(***************************************************************************)
EXTENDS Naturals, FiniteSets

CONSTANTS Uploads,          \* upload requests
          MaxUploadDeaths,  \* bound: requests or processes that vanish
          MaxUploadFaults   \* bound: inserts, saves and deletions that raise

ASSUME UploadAssumption == MaxUploadDeaths \in Nat /\ MaxUploadFaults \in Nat

VARIABLES upload,   \* where each request is; once "created", its row is active
          removal,  \* where the deletion of each row is
          objects,  \* objects in the store, by upload
          lostBy    \* uploads and removals that vanished or whose cleanup failed (history)

uploadVars == <<upload, removal, objects, lostBy>>

Active(u) == upload[u] = "created" /\ removal[u] # "removed"
Rows == {u \in Uploads : upload[u] = "created"}

UploadTypeOK ==
    /\ upload \in [Uploads -> {"new", "save", "insert", "undo", "created", "duplicate", "error", "dead"}]
    /\ removal \in [Uploads -> {"none", "object", "row", "removed"}]
    /\ objects \subseteq Uploads
    /\ lostBy \in [deaths : 0..MaxUploadDeaths, faults : 0..MaxUploadFaults, orphans : SUBSET Uploads]
    /\ \A u \in Uploads : removal[u] # "none" => upload[u] = "created"

UploadInit ==
    /\ upload = [u \in Uploads |-> "new"]
    /\ removal = [u \in Uploads |-> "none"]
    /\ objects = {}
    /\ lostBy = [deaths |-> 0, faults |-> 0, orphans |-> {}]
-----------------------------------------------------------------------------
UploadGoes(u, at) == upload' = [upload EXCEPT ![u] = at]

(* get_by_checksum finds an active row with the content, or none.          *)
LookUpChecksum(u) ==
    /\ upload[u] = "new"
    /\ UploadGoes(u, IF \E v \in Uploads : Active(v) THEN "duplicate" ELSE "save")
    /\ UNCHANGED <<removal, objects, lostBy>>

SaveObject(u) ==
    /\ upload[u] = "save"
    /\ UploadGoes(u, "insert")
    /\ objects' = objects \cup {u}
    /\ UNCHANGED <<removal, lostBy>>

(* The insert commits, unless the index finds the content active already.  *)
InsertRow(u) ==
    /\ upload[u] = "insert" /\ ~\E v \in Uploads : Active(v)
    /\ UploadGoes(u, "created")
    /\ UNCHANGED <<removal, objects, lostBy>>

InsertConflicts(u) ==
    /\ upload[u] = "insert" /\ \E v \in Uploads : Active(v)
    /\ UploadGoes(u, "undo")
    /\ UNCHANGED <<removal, objects, lostBy>>

Faulty == lostBy.faults < MaxUploadFaults
Fault(orphans) == lostBy' = [lostBy EXCEPT !.faults = @ + 1, !.orphans = @ \cup orphans]

(* The database refuses for another reason.                                *)
InsertRaises(u) ==
    /\ upload[u] = "insert" /\ Faulty
    /\ Fault({})
    /\ UploadGoes(u, "undo")
    /\ UNCHANGED <<removal, objects>>

(* Mutant: the error path forgets the object it has saved.                 *)
UndoNothing(u) ==
    /\ upload[u] = "undo"
    /\ UploadGoes(u, "error")
    /\ UNCHANGED <<removal, objects, lostBy>>

(* Both error paths delete the object and raise; the deletion may fail.    *)
UndoObject(u) ==
    /\ upload[u] = "undo"
    /\ UploadGoes(u, "error")
    /\ \/ objects' = objects \ {u} /\ UNCHANGED lostBy
       \/ Faulty /\ Fault({u}) /\ UNCHANGED objects
    /\ UNCHANGED removal

UploadDies(u) ==
    /\ upload[u] \in {"save", "insert", "undo"} /\ lostBy.deaths < MaxUploadDeaths
    /\ lostBy' = [lostBy EXCEPT !.deaths = @ + 1, !.orphans = @ \cup ({u} \cap objects)]
    /\ UploadGoes(u, "dead")
    /\ UNCHANGED <<removal, objects>>
-----------------------------------------------------------------------------
(* delete_document: the object goes first, then the row is soft-deleted.   *)
BeginRemoval(u) ==
    /\ Active(u) /\ removal[u] = "none"
    /\ removal' = [removal EXCEPT ![u] = "object"]
    /\ UNCHANGED <<upload, objects, lostBy>>

RemoveObject(u) ==
    /\ removal[u] = "object"
    /\ objects' = objects \ {u}
    /\ removal' = [removal EXCEPT ![u] = "row"]
    /\ UNCHANGED <<upload, lostBy>>

SoftDeleteRow(u) ==
    /\ removal[u] = "row"
    /\ removal' = [removal EXCEPT ![u] = "removed"]
    /\ UNCHANGED <<upload, objects, lostBy>>

(* The request fails or vanishes: the row stays; it can be deleted again.  *)
RemovalFails(u) ==
    /\ removal[u] \in {"object", "row"} /\ Faulty
    /\ Fault({u} \ objects)
    /\ removal' = [removal EXCEPT ![u] = "none"]
    /\ UNCHANGED <<upload, objects>>
-----------------------------------------------------------------------------
UploadNext ==
    \E u \in Uploads :
       \/ LookUpChecksum(u) \/ SaveObject(u) \/ InsertRow(u) \/ InsertConflicts(u)
       \/ InsertRaises(u) \/ UndoObject(u) \/ UploadDies(u)
       \/ BeginRemoval(u) \/ RemoveObject(u) \/ SoftDeleteRow(u) \/ RemovalFails(u)

UploadSpec == UploadInit /\ [][UploadNext]_uploadVars
-----------------------------------------------------------------------------
(* Rows and objects belong together: one active row per content, an object *)
(* behind every row nobody is deleting, and no object without a row or a   *)
(* request at work on it, but for requests that vanished or whose cleanup  *)
(* failed ("Atomic cleanup: purge orphaned file from storage").            *)
ObjectsFollowRows ==
    /\ \A u, v \in Uploads : Active(u) /\ Active(v) => u = v
    /\ \A u \in Uploads : Active(u) /\ removal[u] = "none" /\ u \notin lostBy.orphans => u \in objects
    /\ \A u \in objects \ lostBy.orphans :
          upload[u] \in {"insert", "undo"} \/ Active(u)
=============================================================================
