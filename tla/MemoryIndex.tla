------------------------------ MODULE MemoryIndex ------------------------------
(***************************************************************************)
(* Memories of an organization (backend/app/memory: service.py,            *)
(* deletion.py, retrieval.py): a row of PostgreSQL each, and a point in the*)
(* vector index, which takes part in no transaction.  An update, a deletion*)
(* and a supersession load a row, flush their change, which takes the row  *)
(* until the end of the transaction, call the index, and commit.  A search *)
(* asks the index first and checks its hits against the rows.              *)
(***************************************************************************)
EXTENDS Naturals, FiniteSets

CONSTANTS Memories,        \* memories that can be created
          MemoryRequests,  \* requests in flight at a time
          MaxIndexFaults   \* bound: calls of the index that fail, and requests that abort

ASSUME MemoryAssumption == MaxIndexFaults \in Nat

VARIABLES memory,      \* the committed status of each row
          indexed,     \* memories with a point in the index
          memoryCall,  \* each request: what it does, where it is, its rows, hits and answer
          deleted,     \* memories whose deletion has committed (history)
          excused,     \* memories whose eviction failed or was undone by a late update (history)
          indexFaults

memoryVars == <<memory, indexed, memoryCall, deleted, excused, indexFaults>>

Unasked == [op |-> "none", at |-> "idle", item |-> {}, old |-> {}, found |-> {}, gone |-> {}]
Held(r) == IF memoryCall[r].at \in {"flushed", "called"}
           THEN memoryCall[r].old \cup memoryCall[r].item ELSE {}

MemoryTypeOK ==
    /\ memory \in [Memories -> {"absent", "active", "superseded", "deleted"}]
    /\ indexed \cup deleted \cup excused \subseteq Memories
    /\ \A r \in MemoryRequests :
          /\ memoryCall[r].op \in {"none", "create", "update", "delete", "search"}
          /\ memoryCall[r].at \in {"idle", "loaded", "flushed", "called", "hits", "answered"}
          /\ \A q \in MemoryRequests \ {r} : Held(q) \cap Held(r) = {}
    /\ indexFaults \in 0..MaxIndexFaults

MemoryInit ==
    /\ memory = [m \in Memories |-> "absent"]
    /\ indexed = {} /\ deleted = {} /\ excused = {}
    /\ memoryCall = [r \in MemoryRequests |-> Unasked]
    /\ indexFaults = 0
-----------------------------------------------------------------------------
ActiveRows == {m \in Memories : memory[m] = "active"}
Loadable == {m \in Memories : memory[m] \notin {"absent", "deleted"}}
MemoryGoes(r, x) == memoryCall' = [memoryCall EXCEPT ![r] = x]
StoresKept == UNCHANGED <<memory, indexed, deleted, excused, indexFaults>>

(* create_memory names a new row, and may supersede one that get_by_id     *)
(* still finds.                                                            *)
BeginCreate(r, m) ==
    /\ memoryCall[r] = Unasked
    /\ memory[m] = "absent" /\ \A q \in MemoryRequests : m \notin memoryCall[q].item
    /\ \E old \in {{}} \cup {{o} : o \in Loadable} :
          MemoryGoes(r, [Unasked EXCEPT !.op = "create", !.at = "loaded", !.item = {m}, !.old = old])
    /\ StoresKept

(* update_memory and delete_memory load any row that is not deleted.       *)
BeginChange(r, m) ==
    /\ memoryCall[r] = Unasked /\ m \in Loadable
    /\ \E op \in {"update", "delete"} :
          MemoryGoes(r, [Unasked EXCEPT !.op = op, !.at = "loaded", !.item = {m}])
    /\ StoresKept

(* The UPDATE names its row by id and the columns that changed: it waits   *)
(* for another holder, and does not look whether the row was deleted since.*)
Flush(r) ==
    LET rows == memoryCall[r].item \cup memoryCall[r].old IN
    /\ memoryCall[r].at = "loaded"
    /\ \A q \in MemoryRequests \ {r} : Held(q) \cap rows = {}
    /\ MemoryGoes(r, [memoryCall[r] EXCEPT !.at = "flushed"])
    /\ excused' = excused \cup IF memoryCall[r].op = "update" THEN memoryCall[r].item \cap deleted ELSE {}
    /\ UNCHANGED <<memory, indexed, deleted, indexFaults>>

(* index_memory upserts the point, delete_memory_vector removes it.        *)
CallIndex(r) ==
    /\ memoryCall[r].at = "flushed"
    /\ indexed' = IF memoryCall[r].op = "delete"
                  THEN indexed \ memoryCall[r].item ELSE indexed \cup memoryCall[r].item
    /\ MemoryGoes(r, [memoryCall[r] EXCEPT !.at = "called"])
    /\ UNCHANGED <<memory, deleted, excused, indexFaults>>

(* An error of the index is logged and forgotten.                          *)
CallFails(r) ==
    /\ memoryCall[r].at = "flushed" /\ indexFaults < MaxIndexFaults
    /\ indexFaults' = indexFaults + 1
    /\ excused' = excused \cup IF memoryCall[r].op = "delete" THEN memoryCall[r].item ELSE {}
    /\ MemoryGoes(r, [memoryCall[r] EXCEPT !.at = "called"])
    /\ UNCHANGED <<memory, indexed, deleted>>

(* An update changes no status; a superseded row becomes "superseded" even *)
(* when it was deleted after it was loaded.                                *)
CommitMemory(r) ==
    LET q == memoryCall[r] IN
    /\ q.at = "called"
    /\ memory' = [m \in Memories |->
                    IF m \in q.old THEN "superseded"
                    ELSE IF m \in q.item /\ q.op = "create" THEN "active"
                    ELSE IF m \in q.item /\ q.op = "delete" THEN "deleted" ELSE memory[m]]
    /\ deleted' = deleted \cup IF q.op = "delete" THEN q.item ELSE {}
    /\ MemoryGoes(r, Unasked)
    /\ UNCHANGED <<indexed, excused, indexFaults>>

(* A request that fails or dies is rolled back; its call of the index is   *)
(* not.                                                                    *)
AbortMemory(r) ==
    /\ memoryCall[r].at \in {"loaded", "flushed", "called"}
    /\ indexFaults < MaxIndexFaults
    /\ indexFaults' = indexFaults + 1
    /\ MemoryGoes(r, Unasked)
    /\ UNCHANGED <<memory, indexed, deleted, excused>>

(* search_vectors returns the points nearest to the query, or none when it *)
(* fails.                                                                  *)
SearchVectors(r) ==
    /\ memoryCall[r] = Unasked
    /\ \E hits \in SUBSET indexed :
          MemoryGoes(r, [Unasked EXCEPT !.op = "search", !.at = "hits", !.found = hits, !.gone = deleted])
    /\ StoresKept

(* Mutant: the hits are returned as they are.                              *)
SelectHits(r) ==
    /\ memoryCall[r].at = "hits"
    /\ MemoryGoes(r, [memoryCall[r] EXCEPT !.at = "answered"])
    /\ StoresKept

(* Rows that are active are selected among the hits or, without hits, by   *)
(* their text and, where none matches, by their age.                       *)
SelectRows(r) ==
    LET hits == memoryCall[r].found IN
    /\ memoryCall[r].at = "hits"
    /\ \E rows \in SUBSET ActiveRows :
          /\ hits # {} => rows = ActiveRows \cap hits
          /\ hits = {} /\ ActiveRows # {} => rows # {}
          /\ MemoryGoes(r, [memoryCall[r] EXCEPT !.at = "answered", !.found = rows])
    /\ StoresKept

EndSearch(r) ==
    /\ memoryCall[r].at = "answered"
    /\ MemoryGoes(r, Unasked)
    /\ StoresKept

MemoryNext ==
    \E r \in MemoryRequests :
       \/ \E m \in Memories : BeginCreate(r, m) \/ BeginChange(r, m)
       \/ Flush(r) \/ CallIndex(r) \/ CallFails(r) \/ CommitMemory(r) \/ AbortMemory(r)
       \/ SearchVectors(r) \/ SelectRows(r) \/ EndSearch(r)

MemorySpec == MemoryInit /\ [][MemoryNext]_memoryVars
-----------------------------------------------------------------------------
(* Once its deletion has committed a memory is not shown by any search     *)
(* that begins, though requests that loaded it before still write to its   *)
(* row and its point; and its point is gone, unless the index failed to    *)
(* remove it or an update that was flushed later wrote it again.           *)
DeletionIsFinal ==
    /\ \A r \in MemoryRequests :
          memoryCall[r].at = "answered" => memoryCall[r].found \cap memoryCall[r].gone = {}
    /\ indexed \cap deleted \subseteq excused
================================================================================
