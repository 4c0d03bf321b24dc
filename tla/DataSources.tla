------------------------------ MODULE DataSources ------------------------------
(***************************************************************************)
(* One registered data source (backend/app/connectors/application): its    *)
(* row with the configuration, the schema the routes cache for it in Redis *)
(* and its sync runs.  Each request reads the row, talks to the source or  *)
(* to the cache and commits later: what commits between is lost on it.     *)
(***************************************************************************)
EXTENDS Naturals, FiniteSets

CONSTANTS SourceRequests,  \* requests and sync jobs in flight at a time
          Parameters,      \* the parameters of a configuration
          MaxChanges,      \* bound: updates begun
          MaxCacheFaults   \* bound: commands Redis fails

ASSUME SourceAssumption == MaxChanges \in Nat /\ MaxCacheFaults \in Nat

VARIABLES source,   \* the committed row: whether it is there, its configuration and status
          cached,   \* the configuration whose schema is cached
          runs,     \* the row of the sync run each request has last started
          call,     \* each request: where it is, and the row as it has read it
          changes,  \* updates begun, which number the values they set
          settled,  \* by parameter, the value of the last update that overlapped no other (history)
          strayed,  \* the cached schema is one that no invalidation will meet (history)
          cacheFaults

sourceVars == <<source, cached, runs, call, changes, settled, strayed, cacheFaults>>

Configurations == [Parameters -> 0..MaxChanges]
NoSchema == [p \in {} |-> 0]
Original == [p \in Parameters |-> 0]
AtRest == [at |-> "idle", config |-> NoSchema, sets |-> {}, alone |-> TRUE,
           told |-> "nothing"]

SourceTypeOK ==
    /\ source \in [here : BOOLEAN, config : Configurations,
                   status : {"registered", "active", "error", "disabled"}]
    /\ cached \in Configurations \cup {NoSchema}
    /\ runs \in [SourceRequests -> {"none", "running", "completed", "failed"}]
    /\ \A r \in SourceRequests :
          call[r].at \in {"idle", "updating", "deleting", "invalidated", "unlinked", "discovering",
                          "testing", "syncing"}
    /\ changes \in 0..MaxChanges /\ cacheFaults \in 0..MaxCacheFaults

SourceInit ==
    /\ source = [here |-> TRUE, config |-> Original, status |-> "registered"]
    /\ cached = NoSchema
    /\ runs = [r \in SourceRequests |-> "none"]
    /\ call = [r \in SourceRequests |-> AtRest]
    /\ changes = 0
    /\ settled = Original
    /\ strayed = FALSE
    /\ cacheFaults = 0
-----------------------------------------------------------------------------
CallGoes(r, x) == call' = [call EXCEPT ![r] = x]
Rest(r) == [AtRest EXCEPT !.told = call[r].told]
NotBusy(r) == call[r].at = "idle"
Writing(q) == call[q].at \in {"updating", "deleting", "invalidated", "unlinked"}

(* The cache is written, or Redis fails and the error is logged.           *)
CacheWrite(entry) ==
    \/ cached' = entry /\ UNCHANGED cacheFaults
    \/ cacheFaults < MaxCacheFaults /\ cacheFaults' = cacheFaults + 1 /\ UNCHANGED cached

(* update_data_source merges the parameters it is given into the row it    *)
(* has read, delete_data_source reads it too; a missing row is an error.   *)
BeginUpdate(r) ==
    /\ NotBusy(r) /\ source.here /\ changes < MaxChanges
    /\ changes' = changes + 1
    /\ \E p \in Parameters :
          call' = [q \in SourceRequests |->
                     IF q = r THEN [Rest(r) EXCEPT !.at = "updating", !.sets = {p},
                                                  !.config = [source.config EXCEPT ![p] = changes'],
                                                  !.alone = \A x \in SourceRequests : ~Writing(x)]
                     ELSE [call[q] EXCEPT !.alone = FALSE]]
    /\ UNCHANGED <<source, cached, runs, settled, strayed, cacheFaults>>

(* An update of the status alone leaves the cache.                         *)
Disable(r) ==
    /\ NotBusy(r) /\ source.here
    /\ source' = [source EXCEPT !.status = "disabled"]
    /\ UNCHANGED <<cached, runs, call, changes, settled, strayed, cacheFaults>>

BeginDelete(r) ==
    /\ NotBusy(r) /\ source.here
    /\ CallGoes(r, [Rest(r) EXCEPT !.at = "deleting"])
    /\ UNCHANGED <<source, cached, runs, changes, settled, strayed, cacheFaults>>

(* Mutant: only a deletion invalidates the cache.                          *)
InvalidateIfDeleting(r) ==
    /\ call[r].at \in {"updating", "deleting"}
    /\ CallGoes(r, [call[r] EXCEPT !.at = IF @ = "updating" THEN "invalidated" ELSE "unlinked"])
    /\ IF call[r].at = "deleting" THEN CacheWrite(NoSchema) ELSE UNCHANGED <<cached, cacheFaults>>
    /\ UNCHANGED <<source, runs, changes, settled, strayed>>

(* The cache is invalidated before the row is written.  A failure is       *)
(* logged, and leaves what was cached.                                     *)
Invalidate(r) ==
    /\ call[r].at \in {"updating", "deleting"}
    /\ CallGoes(r, [call[r] EXCEPT !.at = IF @ = "updating" THEN "invalidated" ELSE "unlinked"])
    /\ CacheWrite(NoSchema)
    /\ strayed' = (cached' # NoSchema)
    /\ UNCHANGED <<source, runs, changes, settled>>

(* The whole configuration is written back; without its row the flush      *)
(* fails.                                                                  *)
CommitUpdate(r) ==
    /\ call[r].at = "invalidated"
    /\ CallGoes(r, Rest(r))
    /\ IF source.here
       THEN /\ source' = [source EXCEPT !.config = call[r].config]
            /\ settled' = [p \in Parameters |->
                             IF ~call[r].alone THEN call[r].config[p]
                             ELSE IF p \in call[r].sets THEN call[r].config[p] ELSE settled[p]]
       ELSE UNCHANGED <<source, settled>>
    /\ UNCHANGED <<cached, runs, changes, strayed, cacheFaults>>

(* The runs of the source go with it.                                      *)
CommitDelete(r) ==
    /\ call[r].at = "unlinked"
    /\ CallGoes(r, Rest(r))
    /\ source' = [source EXCEPT !.here = FALSE]
    /\ runs' = [q \in SourceRequests |-> "none"]
    /\ UNCHANGED <<cached, changes, settled, strayed, cacheFaults>>
-----------------------------------------------------------------------------
(* get_schema answers from the cache unless a refresh is asked for, and    *)
(* reads the row otherwise.                                                *)
AskSchema(r) ==
    /\ NotBusy(r) /\ source.here
    /\ CallGoes(r, [Rest(r) EXCEPT !.at = "discovering", !.config = source.config])
    /\ UNCHANGED <<source, cached, runs, changes, settled, strayed, cacheFaults>>

(* The source answers, and its schema is cached, over whatever is there;   *)
(* or it fails, and nothing is.                                            *)
CacheSchema(r) ==
    /\ call[r].at = "discovering"
    /\ CallGoes(r, Rest(r))
    /\ CacheWrite(call[r].config)
    /\ strayed' = IF cached' # call[r].config THEN strayed
                  ELSE \/ ~source.here \/ call[r].config # source.config
                       \/ \E q \in SourceRequests : call[q].at \in {"invalidated", "unlinked"}
    /\ UNCHANGED <<source, runs, changes, settled>>

DiscoveryFails(r) ==
    /\ call[r].at = "discovering"
    /\ CallGoes(r, Rest(r))
    /\ UNCHANGED <<source, cached, runs, changes, settled, strayed, cacheFaults>>

(* Redis drops the entry after an hour.                                    *)
EntryExpires ==
    /\ cached # NoSchema
    /\ cached' = NoSchema /\ strayed' = FALSE
    /\ UNCHANGED <<source, runs, call, changes, settled, cacheFaults>>
-----------------------------------------------------------------------------
(* test_connection tries the source and writes the outcome over the status.*)
BeginTest(r) ==
    /\ NotBusy(r) /\ source.here
    /\ CallGoes(r, [Rest(r) EXCEPT !.at = "testing"])
    /\ UNCHANGED <<source, cached, runs, changes, settled, strayed, cacheFaults>>

EndTest(r) ==
    /\ call[r].at = "testing"
    /\ CallGoes(r, Rest(r))
    /\ \E s \in {"active", "error"} :
          source' = IF source.here THEN [source EXCEPT !.status = s] ELSE source
    /\ UNCHANGED <<cached, runs, changes, settled, strayed, cacheFaults>>

(* execute_sync commits a running run first, and its outcome at the end;   *)
(* if the row has gone the outcome is an error.  A job that is cancelled,  *)
(* or whose process dies, leaves the run as it is.                         *)
BeginSync(r) ==
    /\ NotBusy(r) /\ source.here
    /\ CallGoes(r, [AtRest EXCEPT !.at = "syncing"])
    /\ runs' = [runs EXCEPT ![r] = "running"]
    /\ UNCHANGED <<source, cached, changes, settled, strayed, cacheFaults>>

EndSync(r) ==
    /\ call[r].at = "syncing"
    /\ \E outcome \in {"completed", "failed"} :
          IF runs[r] = "running"
          THEN CallGoes(r, [AtRest EXCEPT !.told = outcome]) /\ runs' = [runs EXCEPT ![r] = outcome]
          ELSE CallGoes(r, [AtRest EXCEPT !.told = "failed"]) /\ UNCHANGED runs
    /\ UNCHANGED <<source, cached, changes, settled, strayed, cacheFaults>>

SyncCut(r) ==
    /\ call[r].at = "syncing"
    /\ CallGoes(r, [AtRest EXCEPT !.told = "cut"])
    /\ UNCHANGED <<source, cached, runs, changes, settled, strayed, cacheFaults>>

SourceNext ==
    \/ \E r \in SourceRequests :
          \/ BeginUpdate(r) \/ Invalidate(r) \/ CommitUpdate(r) \/ Disable(r)
          \/ BeginDelete(r) \/ CommitDelete(r)
          \/ AskSchema(r) \/ CacheSchema(r) \/ DiscoveryFails(r)
          \/ BeginTest(r) \/ EndTest(r)
          \/ BeginSync(r) \/ EndSync(r) \/ SyncCut(r)
    \/ EntryExpires

SourceSpec == SourceInit /\ [][SourceNext]_sourceVars
-----------------------------------------------------------------------------
(* The schema that the routes have cached is that of the source as it is   *)
(* configured, and none is cached for a source that is gone, unless it was *)
(* put there while an update or a deletion was under way, or an            *)
(* invalidation failed: an update begins with the cache, ends with the row *)
(* and discoveries run in between.  Updates that did not overlap keep what *)
(* the others have set, though each writes the whole configuration.  And a *)
(* sync run says what its caller was told, whichever of sync and deletion  *)
(* came first; it is left running only by a sync that was cut short.       *)
SourcesStayInStep ==
    /\ \/ strayed \/ cached = NoSchema
       \/ source.here /\ cached = source.config
    /\ source.here => source.config = settled
    /\ \A r \in SourceRequests :
          /\ runs[r] = "running" => call[r].at = "syncing" \/ call[r].told = "cut"
          /\ call[r].told \in {"completed", "failed"} => runs[r] \in {call[r].told, "none"}
================================================================================
