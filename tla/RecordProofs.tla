---------------------------- MODULE RecordProofs ----------------------------
(***************************************************************************)
(* Requests that read rows, work on something slow and commit later, for   *)
(* any number of them: the ingestions of a dataset, the updates,           *)
(* discoveries and syncs of a data source, the calls that keep memories    *)
(* with their vectors, the logins, rotations and revocations of refresh    *)
(* tokens, and the synchronisations of the knowledge graph. What such a    *)
(* request has read is stale by the time it writes; the invariants say     *)
(* what it may still rely on, always or while it overlaps no other.  The   *)
(* last part is about the searches of the graph that a synchronisation     *)
(* has filled: what one that ended has found, in any graph.                *)
(***************************************************************************)
EXTENDS DatasetVersions, DataSources, MemoryIndex, RefreshTokens, GraphSync, GraphSearch,
        SequenceTheorems, FiniteSetTheorems, WellFoundedInduction, TLAPS
-----------------------------------------------------------------------------
(***************************************************************************)
(* The versions of a dataset.                                              *)
(***************************************************************************)
Places == {"new", "numbered", "reading", "materialized", "staling", "staled", "columns", "audit",
           "failing", "marking", "done", "error", "dead"}
Columns == [name : UNION Schemas, by : VersionNumbers]
DatasetRows == [status : DatasetStatus \cup {"deleted"}, current : Nat]
IngestCalls == [at : Places, number : VersionNumbers, schema : Schemas \cup {{}}, loaded : DatasetRows,
                staled : SUBSET VersionNumbers, old : SUBSET Columns, ready : BOOLEAN]
VersionTables == [VersionNumbers -> RowStatus \cup {"none"}]

DatasetTablesOK ==
    /\ versions \in VersionTables /\ columnRows \subseteq Columns /\ dataset \in DatasetRows
    /\ ingestion \in [Ingestions -> IngestCalls]
    /\ overlapped \in BOOLEAN /\ ingestCrashes \in 0..MaxIngestCrashes

ReadyIn(vs) == {v \in VersionNumbers : vs[v] = "ready"}
Gone(data) == data.status = "deleted"
Busy(x) == x.at \notin {"new", "done", "error", "dead"}
Creating == {"reading", "materialized", "staling", "staled", "columns", "failing", "marking"}
Created(x) == x.at \in Creating

(* A call that has made its version finds it INGESTING still, and what it  *)
(* means to retire was READY.                                              *)
CallOwns(x, vs, data) ==
    /\ Created(x) => Gone(data) \/ vs[x.number] = "ingesting"
    /\ x.at \in {"staling", "staled", "columns"} =>
          \A v \in x.staled : Gone(data) \/ vs[v] \in {"ready", "stale"}

(* No two calls own one version, and every version was numbered by a call. *)
NumbersAreOwned ==
    /\ \A i, j \in Ingestions :
          i # j /\ Created(ingestion[i]) /\ Created(ingestion[j]) => ingestion[i].number # ingestion[j].number
    /\ \A v \in VersionNumbers :
          versions[v] # "none" => \E i \in Ingestions : ingestion[i].at # "new" /\ ingestion[i].number = v

GoneIsEmpty(vs, data) == Gone(data) => \A v \in VersionNumbers : vs[v] = "none"

(* A call that overlaps no other finds everything as it has read it.       *)
InStep(x, vs, rows, data) ==
    /\ x.at # "audit" => x.loaded = data
    /\ x.at \in {"staling", "staled", "columns"} => x.staled = ReadyIn(vs)
    /\ x.at = "columns" => x.old = rows
    /\ x.at = "marking" => (x.ready <=> ReadyIn(vs) # {})

CallsAlone ==
    ~overlapped =>
       \A i \in Ingestions : Busy(ingestion[i]) =>
          /\ \A j \in Ingestions \ {i} : ~Busy(ingestion[j])
          /\ Gone(dataset) \/ InStep(ingestion[i], versions, columnRows, dataset)

TablesAgree(vs, rows, data) ==
    \A v \in ReadyIn(vs) :
       /\ ReadyIn(vs) = {v}
       /\ data = [status |-> "ready", current |-> v]
       /\ \A c \in rows : c.by = v

DatasetInv ==
    /\ DatasetTablesOK /\ NumbersAreOwned /\ CallsAlone
    /\ \A i \in Ingestions : CallOwns(ingestion[i], versions, dataset)
    /\ GoneIsEmpty(versions, dataset)
    /\ ~overlapped => TablesAgree(versions, columnRows, dataset)
-----------------------------------------------------------------------------
LEMMA FirstNumber ==
  ASSUME NEW i \in Ingestions
  PROVE  1 \in VersionNumbers /\ Cardinality(Ingestions) \in Nat /\ Cardinality(Ingestions \ {i}) = Cardinality(Ingestions) - 1
  <1>1. Cardinality(Ingestions) \in Nat /\ Cardinality(Ingestions) # 0
    BY DatasetAssumption, FS_CardinalityType, FS_EmptySet
  <1>2. Cardinality(Ingestions \ {i}) = Cardinality(Ingestions) - 1
    BY DatasetAssumption, FS_RemoveElement
  <1> QED
    BY <1>1, <1>2 DEF VersionNumbers

LEMMA DatasetInitInv == DatasetInit => DatasetInv
  <1> SUFFICES ASSUME DatasetInit  PROVE DatasetInv
    OBVIOUS
  <1>1. ASSUME NEW i \in Ingestions  PROVE Fresh \in IngestCalls
    BY FirstNumber DEF Fresh, IngestCalls, DatasetRows, DatasetStatus, Places
  <1>2. DatasetTablesOK
    <2>1. versions \in VersionTables /\ columnRows \subseteq Columns
      BY DEF DatasetInit, VersionTables
    <2>2. dataset \in DatasetRows
      BY DEF DatasetInit, DatasetRows, DatasetStatus
    <2>3. ingestion \in [Ingestions -> IngestCalls]
      BY <1>1 DEF DatasetInit
    <2>4. overlapped \in BOOLEAN /\ ingestCrashes \in 0..MaxIngestCrashes
      <3>1. overlapped \in BOOLEAN /\ ingestCrashes = 0
        BY DEF DatasetInit
      <3> QED
        BY <3>1, DatasetAssumption
    <2> QED
      BY <2>1, <2>2, <2>3, <2>4 DEF DatasetTablesOK
  <1>3. Fresh.at = "new"
    BY DEF Fresh
  <1>4. ReadyIn(versions) = {} /\ ~Gone(dataset)
    BY DEF DatasetInit, ReadyIn, Gone
  <1>5. NumbersAreOwned /\ CallsAlone
    BY <1>3 DEF DatasetInit, NumbersAreOwned, CallsAlone, Created, Creating, Busy
  <1>6. \A i \in Ingestions : CallOwns(ingestion[i], versions, dataset)
    BY <1>3 DEF DatasetInit, CallOwns, Created, Creating
  <1> QED
    BY <1>2, <1>4, <1>5, <1>6 DEF DatasetInv, GoneIsEmpty, TablesAgree

LEMMA DatasetFacts ==
  ASSUME DatasetInv
  PROVE  /\ versions \in VersionTables /\ columnRows \subseteq Columns /\ dataset \in DatasetRows
         /\ ingestion \in [Ingestions -> IngestCalls]
         /\ overlapped \in BOOLEAN /\ ingestCrashes \in 0..MaxIngestCrashes
         /\ \A i \in Ingestions : CallOwns(ingestion[i], versions, dataset)
         /\ GoneIsEmpty(versions, dataset)
         /\ ~overlapped => TablesAgree(versions, columnRows, dataset)
         /\ ReadyVersions = ReadyIn(versions) /\ (Deleted <=> Gone(dataset))
  BY DEF DatasetInv, DatasetTablesOK, ReadyVersions, ReadyIn, Deleted, Gone

(* One call goes on: what it is then, what it has made of the tables, and  *)
(* what it leaves to the others.                                           *)
LEMMA DatasetGoesOn ==
  ASSUME DatasetInv, NEW i \in Ingestions, NEW x \in IngestCalls, Moves(i, x),
         versions' \in VersionTables, columnRows' \subseteq Columns, dataset' \in DatasetRows,
         overlapped' \in BOOLEAN, ingestCrashes' \in 0..MaxIngestCrashes,
         x.at # "new", ingestion[i].at # "new" => x.number = ingestion[i].number,
         \A v \in VersionNumbers : versions'[v] # "none" => versions[v] # "none" \/ v = x.number,
         Created(x) => \A j \in Ingestions \ {i} : Created(ingestion[j]) => ingestion[j].number # x.number,
         CallOwns(x, versions', dataset'),
         \A j \in Ingestions \ {i} : CallOwns(ingestion[j], versions', dataset'),
         GoneIsEmpty(versions', dataset'),
         ~overlapped' => \A j \in Ingestions \ {i} : ~Busy(ingestion[j]),
         ~overlapped' /\ Busy(x) => Gone(dataset') \/ InStep(x, versions', columnRows', dataset'),
         ~overlapped' => TablesAgree(versions', columnRows', dataset')
  PROVE  DatasetInv'
  <1>1. /\ ingestion' \in [Ingestions -> IngestCalls] /\ ingestion'[i] = x
        /\ \A j \in Ingestions \ {i} : ingestion'[j] = ingestion[j]
    BY DatasetFacts DEF Moves
  <1>2. DatasetTablesOK'
    BY <1>1 DEF DatasetTablesOK
  <1>3. NumbersAreOwned'
    <2>1. ASSUME NEW j \in Ingestions, NEW k \in Ingestions, j # k, Created(ingestion'[j]), Created(ingestion'[k])
          PROVE  ingestion'[j].number # ingestion'[k].number
      BY <1>1, <2>1 DEF DatasetInv, NumbersAreOwned
    <2>2. ASSUME NEW v \in VersionNumbers, versions'[v] # "none"
          PROVE  \E j \in Ingestions : ingestion'[j].at # "new" /\ ingestion'[j].number = v
      BY <1>1, <2>2 DEF DatasetInv, NumbersAreOwned
    <2> QED
      BY <2>1, <2>2 DEF NumbersAreOwned, Created
  <1>4. CallsAlone'
    BY <1>1 DEF CallsAlone, Busy
  <1>5. \A j \in Ingestions : CallOwns(ingestion'[j], versions', dataset')
    BY <1>1
  <1> QED
    BY <1>2, <1>3, <1>4, <1>5 DEF DatasetInv

(* ... while the tables stay.                                              *)
LEMMA IngestionGoesOn ==
  ASSUME DatasetInv, NEW i \in Ingestions, NEW x \in IngestCalls, Moves(i, x),
         UNCHANGED <<versions, columnRows, dataset, overlapped>>, ingestCrashes' \in 0..MaxIngestCrashes,
         Busy(ingestion[i]), x.at # "new", x.number = ingestion[i].number,
         Created(x) => Created(ingestion[i]),
         CallOwns(x, versions, dataset),
         ~overlapped /\ Busy(x) => Gone(dataset) \/ InStep(x, versions, columnRows, dataset)
  PROVE  DatasetInv'
  <1>1. /\ versions' = versions /\ columnRows' = columnRows /\ dataset' = dataset /\ overlapped' = overlapped
    OBVIOUS
  <1>2. ~overlapped => \A j \in Ingestions \ {i} : ~Busy(ingestion[j])
    BY DEF DatasetInv, CallsAlone
  <1>3. Created(x) => \A j \in Ingestions \ {i} : Created(ingestion[j]) => ingestion[j].number # x.number
    BY DEF DatasetInv, NumbersAreOwned
  <1> QED
    BY <1>1, <1>2, <1>3, DatasetFacts, DatasetGoesOn

(* What the call knows when it overlaps no other.                          *)
LEMMA CallKnows ==
  ASSUME DatasetInv, NEW i \in Ingestions, Busy(ingestion[i]), ~overlapped
  PROVE  Gone(dataset) \/ InStep(ingestion[i], versions, columnRows, dataset)
  BY DEF DatasetInv, CallsAlone

(* The steps that change no more than the place of a call.                 *)
LEMMA PlacesKeep ==
  ASSUME DatasetInv, NEW i \in Ingestions, NEW at \in Places, GoesTo(i, at),
         UNCHANGED <<versions, columnRows, dataset, overlapped>>, ingestCrashes' \in 0..MaxIngestCrashes,
         Busy(ingestion[i]), at \in {"done", "error", "dead"} \/ (at = "failing" /\ ingestion[i].at = "reading")
  PROVE  DatasetInv'
  <1> DEFINE x == [ingestion[i] EXCEPT !.at = at]
  <1>1. /\ x \in IngestCalls /\ x.at = at /\ x.number = ingestion[i].number /\ x.loaded = ingestion[i].loaded
    BY DatasetFacts DEF IngestCalls
  <1>2. Moves(i, x)
    BY DEF GoesTo
  <1> HIDE DEF x
  <1>3. x.at # "new" /\ (Created(x) => Created(ingestion[i]))
    BY <1>1 DEF Created, Creating
  <1>4. CallOwns(x, versions, dataset)
    BY <1>1, <1>3, DatasetFacts DEF CallOwns
  <1>5. ~overlapped /\ Busy(x) => Gone(dataset) \/ InStep(x, versions, columnRows, dataset)
    BY <1>1, CallKnows DEF Busy, InStep
  <1> QED
    BY <1>1, <1>2, <1>3, <1>4, <1>5, IngestionGoesOn

LEMMA EndsKeep ==
  ASSUME DatasetInv, NEW i \in Ingestions,
         MaterializeFails(i) \/ PromoteFails(i) \/ Audit(i) \/ IngestionDies(i)
  PROVE  DatasetInv'
  <1>1. Busy(ingestion[i]) /\ UNCHANGED <<versions, columnRows, dataset, overlapped>>
    BY DEF MaterializeFails, PromoteFails, Audit, IngestionDies, InProgress, Busy
  <1>2. ingestCrashes' \in 0..MaxIngestCrashes
    BY DatasetFacts, DatasetAssumption DEF MaterializeFails, PromoteFails, Audit, IngestionDies
  <1>3. CASE MaterializeFails(i)
    BY <1>1, <1>2, <1>3, PlacesKeep DEF MaterializeFails, Places
  <1>4. CASE PromoteFails(i)
    BY <1>1, <1>2, <1>4, PlacesKeep DEF PromoteFails, Places
  <1>5. CASE Audit(i)
    BY <1>1, <1>2, <1>5, PlacesKeep DEF Audit, Places
  <1>6. CASE IngestionDies(i)
    BY <1>1, <1>2, <1>6, PlacesKeep DEF IngestionDies, Places
  <1> QED
    BY <1>3, <1>4, <1>5, <1>6

LEMMA MaterializeKeeps ==
  ASSUME DatasetInv, NEW i \in Ingestions, Materialize(i)
  PROVE  DatasetInv'
  <1>1. PICK s \in Schemas : Moves(i, [ingestion[i] EXCEPT !.at = "materialized", !.schema = s])
    BY DEF Materialize
  <1> DEFINE c == ingestion[i]
             x == [c EXCEPT !.at = "materialized", !.schema = s]
  <1>2. c.at = "reading" /\ UNCHANGED <<versions, columnRows, dataset, overlapped, ingestCrashes>>
    BY DEF Materialize
  <1>3. x \in IngestCalls /\ x.at = "materialized" /\ x.number = c.number /\ x.loaded = c.loaded
    BY DatasetFacts DEF IngestCalls, Places
  <1>4. Moves(i, x)
    BY <1>1
  <1> HIDE DEF x
  <1>5. Busy(c) /\ Created(x) /\ Created(c)
    BY <1>2, <1>3 DEF Busy, Created, Creating
  <1>6. CallOwns(x, versions, dataset)
    BY <1>3, <1>5, DatasetFacts DEF CallOwns
  <1>7. ~overlapped => Gone(dataset) \/ InStep(x, versions, columnRows, dataset)
    BY <1>2, <1>3, <1>5, CallKnows DEF InStep
  <1> QED
    BY <1>2, <1>3, <1>4, <1>5, <1>6, <1>7, DatasetFacts, IngestionGoesOn

LEMMA SelectReadyKeeps ==
  ASSUME DatasetInv, NEW i \in Ingestions, SelectReady(i)
  PROVE  DatasetInv'
  <1> DEFINE c == ingestion[i]
             x == [c EXCEPT !.at = "staling", !.staled = ReadyVersions]
  <1>1. c.at = "materialized" /\ Moves(i, x) /\ UNCHANGED <<versions, columnRows, dataset, overlapped, ingestCrashes>>
    BY DEF SelectReady
  <1>2. ReadyVersions \in SUBSET VersionNumbers
    BY DEF ReadyVersions
  <1>3. /\ x \in IngestCalls /\ x.at = "staling" /\ x.number = c.number /\ x.loaded = c.loaded
        /\ x.staled = ReadyIn(versions)
    BY <1>2, DatasetFacts DEF IngestCalls, Places
  <1> HIDE DEF x
  <1>4. Busy(c) /\ Created(x) /\ Created(c)
    BY <1>1, <1>3 DEF Busy, Created, Creating
  <1>5. CallOwns(x, versions, dataset)
    BY <1>3, <1>4, DatasetFacts DEF CallOwns, ReadyIn
  <1>6. ~overlapped => Gone(dataset) \/ InStep(x, versions, columnRows, dataset)
    BY <1>1, <1>3, <1>4, CallKnows DEF InStep
  <1> QED
    BY <1>1, <1>3, <1>4, <1>5, <1>6, DatasetFacts, IngestionGoesOn

LEMMA StaleOthersKeeps ==
  ASSUME DatasetInv, NEW i \in Ingestions, StaleOthers(i)
  PROVE  DatasetInv'
  <1> DEFINE c == ingestion[i]
             x == [c EXCEPT !.at = "staled", !.staled = c.staled \cap ReadyVersions]
  <1>1. c.at = "staling" /\ Moves(i, x) /\ UNCHANGED <<versions, columnRows, dataset, overlapped, ingestCrashes>>
    BY DEF StaleOthers
  <1>2. c \in IngestCalls /\ c.staled \in SUBSET VersionNumbers
    BY DatasetFacts DEF IngestCalls
  <1>3. /\ x \in IngestCalls /\ x.at = "staled" /\ x.number = c.number /\ x.loaded = c.loaded
        /\ x.staled = c.staled \cap ReadyIn(versions)
    BY <1>2, DatasetFacts DEF IngestCalls, Places
  <1> HIDE DEF x
  <1>4. Busy(c) /\ Created(x) /\ Created(c)
    BY <1>1, <1>3 DEF Busy, Created, Creating
  <1>5. CallOwns(x, versions, dataset)
    BY <1>3, <1>4, DatasetFacts DEF CallOwns, ReadyIn
  <1>6. ~overlapped => Gone(dataset) \/ InStep(x, versions, columnRows, dataset)
    BY <1>1, <1>3, <1>4, CallKnows DEF InStep
  <1> QED
    BY <1>1, <1>3, <1>4, <1>5, <1>6, DatasetFacts, IngestionGoesOn

LEMMA LoadColumnsKeeps ==
  ASSUME DatasetInv, NEW i \in Ingestions, LoadColumns(i)
  PROVE  DatasetInv'
  <1> DEFINE c == ingestion[i]
             x == [c EXCEPT !.at = "columns", !.old = columnRows]
  <1>1. c.at = "staled" /\ Moves(i, x) /\ UNCHANGED <<versions, columnRows, dataset, overlapped, ingestCrashes>>
    BY DEF LoadColumns
  <1>2. /\ x \in IngestCalls /\ x.at = "columns" /\ x.number = c.number /\ x.loaded = c.loaded
        /\ x.staled = c.staled /\ x.old = columnRows
    BY DatasetFacts DEF IngestCalls, Places
  <1> HIDE DEF x
  <1>3. Busy(c) /\ Created(x) /\ Created(c)
    BY <1>1, <1>2 DEF Busy, Created, Creating
  <1>4. CallOwns(x, versions, dataset)
    BY <1>1, <1>2, <1>3, DatasetFacts DEF CallOwns
  <1>5. ~overlapped => Gone(dataset) \/ InStep(x, versions, columnRows, dataset)
    BY <1>1, <1>2, <1>3, CallKnows DEF InStep
  <1> QED
    BY <1>1, <1>2, <1>3, <1>4, <1>5, DatasetFacts, IngestionGoesOn

LEMMA LookForReadyKeeps ==
  ASSUME DatasetInv, NEW i \in Ingestions, LookForReady(i)
  PROVE  DatasetInv'
  <1> DEFINE c == ingestion[i]
             any == ReadyVersions # {}
             x == [c EXCEPT !.at = "marking", !.ready = any]
  <1>1. any \in BOOLEAN /\ (any <=> ReadyIn(versions) # {})
    BY DEF ReadyVersions, ReadyIn
  <1>2. c.at = "failing" /\ Moves(i, x) /\ UNCHANGED <<versions, columnRows, dataset, overlapped, ingestCrashes>>
    BY DEF LookForReady
  <1> HIDE DEF any
  <1>3. /\ x \in IngestCalls /\ x.at = "marking" /\ x.number = c.number /\ x.loaded = c.loaded
        /\ x.ready = any
    BY <1>1, DatasetFacts DEF IngestCalls, Places
  <1> HIDE DEF x
  <1>4. Busy(c) /\ Created(x) /\ Created(c)
    BY <1>2, <1>3 DEF Busy, Created, Creating
  <1>5. CallOwns(x, versions, dataset)
    BY <1>1, <1>2, <1>3, <1>4, DatasetFacts DEF CallOwns
  <1>6. ~overlapped => Gone(dataset) \/ InStep(x, versions, columnRows, dataset)
    BY <1>1, <1>2, <1>3, <1>4, CallKnows DEF InStep
  <1> QED
    BY <1>2, <1>3, <1>4, <1>5, <1>6, DatasetFacts, IngestionGoesOn
-----------------------------------------------------------------------------
(* The number a call reads is one of those there can be: the calls that    *)
(* have not begun leave room for it.                                       *)
LEMMA NextNumber ==
  ASSUME DatasetInv, NEW i \in Ingestions, ingestion[i].at = "new",
         NEW taken, taken = {v \in VersionNumbers : versions[v] # "none"}
  PROVE  Cardinality(taken) + 1 \in VersionNumbers
  <1>1. /\ IsFiniteSet(VersionNumbers) /\ Cardinality(Ingestions) \in Nat
        /\ Cardinality(Ingestions \ {i}) = Cardinality(Ingestions) - 1
    BY FirstNumber, FS_Interval DEF VersionNumbers
  <1>2. IsFiniteSet(taken) /\ Cardinality(taken) \in Nat
    BY <1>1, FS_Subset, FS_CardinalityType
  <1>3. IsFiniteSet(Ingestions \ {i})
    BY DatasetAssumption, FS_RemoveElement
  <1>4. \A v \in taken : \E j \in Ingestions \ {i} : ingestion[j].number = v
    BY DEF DatasetInv, NumbersAreOwned
  <1> DEFINE f == [v \in taken |-> CHOOSE j \in Ingestions \ {i} : ingestion[j].number = v]
  <1>5. f \in [taken -> Ingestions \ {i}] /\ \A v \in taken : ingestion[f[v]].number = v
    BY <1>4
  <1> HIDE DEF f
  <1>6. ~(Cardinality(Ingestions \ {i}) < Cardinality(taken))
    <2> SUFFICES ASSUME Cardinality(Ingestions \ {i}) < Cardinality(taken)  PROVE FALSE
      OBVIOUS
    <2>1. \E v, w \in taken : v # w /\ f[v] = f[w]
      BY <1>2, <1>3, <1>5, FS_PigeonHole
    <2> QED
      BY <1>5, <2>1
  <1> QED
    BY <1>1, <1>2, <1>6 DEF VersionNumbers

LEMMA NumberKeeps ==
  ASSUME DatasetInv, NEW i \in Ingestions, Number(i)
  PROVE  DatasetInv'
  <1> DEFINE taken == {v \in VersionNumbers : versions[v] # "none"}
             x == IF Deleted THEN [ingestion[i] EXCEPT !.at = "error"]
                  ELSE [ingestion[i] EXCEPT !.at = "numbered", !.loaded = dataset,
                                            !.number = Cardinality(taken) + 1]
  <1>1. /\ ingestion[i].at = "new" /\ Moves(i, x) /\ UNCHANGED <<versions, columnRows, dataset, ingestCrashes>>
        /\ overlapped' = (overlapped \/ InProgress # {})
    BY DEF Number, GoesTo
  <1>2. Cardinality(taken) + 1 \in VersionNumbers
    BY <1>1, NextNumber
  <1> HIDE DEF taken
  <1>3. /\ x \in IngestCalls /\ x.at \in {"error", "numbered"}
        /\ x.at = "numbered" => x.loaded = dataset
    BY <1>2, DatasetFacts DEF IngestCalls, Places
  <1> HIDE DEF x
  <1>4. Busy(x) => InStep(x, versions, columnRows, dataset)
    BY <1>3 DEF InStep, Busy
  <1>5. ~Created(x) /\ CallOwns(x, versions, dataset)
    BY <1>3 DEF Created, Creating, CallOwns
  <1>6. ~overlapped' => ~overlapped /\ \A j \in Ingestions \ {i} : ~Busy(ingestion[j])
    BY <1>1 DEF InProgress, Busy
  <1>7. overlapped' \in BOOLEAN
    BY <1>1, DatasetFacts
  <1> QED
    BY <1>1, <1>3, <1>4, <1>5, <1>6, <1>7, DatasetFacts, DatasetGoesOn

LEMMA CreateVersionKeeps ==
  ASSUME DatasetInv, NEW i \in Ingestions, CreateVersion(i)
  PROVE  DatasetInv'
  <1> DEFINE c == ingestion[i]
             n == c.number
             x == [c EXCEPT !.at = "reading"]
  <1>1. c.at = "numbered" /\ UNCHANGED <<columnRows, dataset, overlapped, ingestCrashes>> /\ Busy(c)
    BY DEF CreateVersion, Busy
  <1>2. CASE ~(versions[n] = "none" /\ ~Deleted)
    <2>1. GoesTo(i, "error") /\ versions' = versions
      BY <1>2 DEF CreateVersion
    <2> QED
      BY <1>1, <2>1, DatasetFacts, PlacesKeep DEF Places
  <1>3. CASE versions[n] = "none" /\ ~Deleted
    <2>1. versions' = [versions EXCEPT ![n] = "ingesting"] /\ Moves(i, x)
      BY <1>3 DEF CreateVersion, GoesTo
    <2>2. n \in VersionNumbers /\ x \in IngestCalls /\ x.at = "reading" /\ x.number = n /\ x.loaded = c.loaded
      BY DatasetFacts DEF IngestCalls, Places
    <2> HIDE DEF x
    <2>3. /\ versions' \in VersionTables /\ versions'[n] = "ingesting"
          /\ \A v \in VersionNumbers \ {n} : versions'[v] = versions[v]
      BY <2>1, <2>2, DatasetFacts DEF VersionTables, RowStatus
    <2>4. ReadyIn(versions') = ReadyIn(versions)
      BY <1>3, <2>2, <2>3 DEF ReadyIn
    <2>5. ASSUME NEW j \in Ingestions \ {i}
          PROVE  /\ CallOwns(ingestion[j], versions', dataset')
                 /\ Created(ingestion[j]) => ingestion[j].number # n
      <3>1. CallOwns(ingestion[j], versions, dataset) /\ ingestion[j] \in IngestCalls
        BY DatasetFacts
      <3>2. ingestion[j].number \in VersionNumbers /\ ingestion[j].staled \subseteq VersionNumbers
        BY <3>1 DEF IngestCalls
      <3>3. Created(ingestion[j]) => ingestion[j].number # n
        BY <1>3, <3>1, DatasetFacts DEF CallOwns
      <3>4. CallOwns(ingestion[j], versions', dataset')
        BY <1>1, <1>3, <2>2, <2>3, <3>1, <3>2, <3>3 DEF CallOwns
      <3> QED
        BY <3>3, <3>4
    <2>6. CallOwns(x, versions', dataset') /\ GoneIsEmpty(versions', dataset')
      BY <1>1, <1>3, <2>2, <2>3, DatasetFacts DEF CallOwns, GoneIsEmpty
    <2>7. ~overlapped => Gone(dataset) \/ InStep(x, versions', columnRows', dataset')
      BY <1>1, <2>2, CallKnows DEF InStep
    <2>8. ~overlapped => TablesAgree(versions', columnRows', dataset')
      BY <1>1, <2>4, DatasetFacts DEF TablesAgree
    <2>9. ~overlapped => \A j \in Ingestions \ {i} : ~Busy(ingestion[j])
      BY <1>1 DEF DatasetInv, CallsAlone
    <2>10. /\ x.at # "new" /\ x.number = ingestion[i].number /\ x.number = n
           /\ \A v \in VersionNumbers : versions'[v] # "none" => versions[v] # "none" \/ v = x.number
           /\ columnRows' \subseteq Columns /\ dataset' \in DatasetRows
           /\ overlapped' \in BOOLEAN /\ ingestCrashes' \in 0..MaxIngestCrashes /\ overlapped' = overlapped
      BY <1>1, <2>2, <2>3, DatasetFacts
    <2>11. \A j \in Ingestions \ {i} : CallOwns(ingestion[j], versions', dataset')
      BY <2>5
    <2>12. Created(x) => \A j \in Ingestions \ {i} : Created(ingestion[j]) => ingestion[j].number # x.number
      BY <2>5, <2>10
    <2>13. Moves(i, x) /\ versions' \in VersionTables /\ x \in IngestCalls
      BY <2>1, <2>2, <2>3
    <2>14. /\ ~overlapped' => \A j \in Ingestions \ {i} : ~Busy(ingestion[j])
           /\ ~overlapped' /\ Busy(x) => Gone(dataset') \/ InStep(x, versions', columnRows', dataset')
           /\ ~overlapped' => TablesAgree(versions', columnRows', dataset')
      BY <1>1, <2>7, <2>8, <2>9
    <2> HIDE DEF c, n
    <2> QED
      BY <2>6, <2>10, <2>11, <2>12, <2>13, <2>14, DatasetGoesOn
  <1> QED
    BY <1>2, <1>3

(* The promoted version is READY, and all that was READY before is stale.  *)
LEMMA PromoteKeeps ==
  ASSUME DatasetInv, NEW i \in Ingestions, Promote(i)
  PROVE  DatasetInv' /\ ingestion[i].number \in ReadyIn(versions')
  <1> DEFINE c == ingestion[i]
             n == c.number
             x == [c EXCEPT !.at = "audit"]
             rows == [name : c.schema, by : {n}]
             new == [status |-> Written(i, "status", "ready"), current |-> Written(i, "current", n)]
  <1>1. /\ c.at = "columns" /\ ~Deleted /\ Moves(i, x) /\ UNCHANGED <<overlapped, ingestCrashes>>
        /\ versions' = [v \in VersionNumbers |->
              IF v = n THEN "ready" ELSE IF v \in c.staled THEN "stale" ELSE versions[v]]
        /\ columnRows' = (columnRows \ c.old) \cup rows /\ dataset' = new
    BY DEF Promote, Conflicts, GoesTo
  <1>2. /\ c \in IngestCalls /\ n \in VersionNumbers /\ c.schema \in Schemas \cup {{}}
        /\ c.loaded \in DatasetRows /\ c.staled \subseteq VersionNumbers
    BY DatasetFacts DEF IngestCalls
  <1>3. x \in IngestCalls /\ x.at = "audit" /\ x.number = n
    BY <1>2 DEF IngestCalls, Places
  <1>4. Busy(c) /\ Created(c) /\ ~Created(x)
    BY <1>1, <1>3 DEF Busy, Created, Creating
  <1>5. versions[n] = "ingesting" /\ \A v \in c.staled : versions[v] \in {"ready", "stale"}
    BY <1>1, <1>4, DatasetFacts DEF CallOwns
  <1>6. rows \subseteq Columns /\ \A r \in rows : r.by = n
    BY <1>2 DEF Columns
  <1>7. Written(i, "status", "ready") \in DatasetStatus \cup {"deleted"} /\ Written(i, "current", n) \in Nat
    BY <1>2, DatasetFacts DEF Written, DatasetRows, DatasetStatus, VersionNumbers
  <1>8. new \in DatasetRows
    BY <1>7 DEF DatasetRows
  <1> HIDE DEF x, rows
  <1>9. /\ versions' \in VersionTables /\ versions'[n] = "ready"
        /\ \A v \in VersionNumbers : versions[v] \in {"none", "ingesting"} /\ v # n => versions'[v] = versions[v]
        /\ \A v \in VersionNumbers : versions[v] \in {"ready", "stale"} => versions'[v] \in {"ready", "stale"}
        /\ \A v \in VersionNumbers : v # n /\ versions[v] = "none" => versions'[v] = "none"
    BY <1>1, <1>2, <1>5, DatasetFacts DEF VersionTables, RowStatus
  <1>10. Gone(dataset') => Gone(dataset)
    BY <1>1 DEF Gone, Written, Deleted
  <1>11. ~Gone(dataset')
    BY <1>1, <1>10, DatasetFacts
  <1>12. ASSUME NEW j \in Ingestions \ {i}  PROVE CallOwns(ingestion[j], versions', dataset')
    <2>1. CallOwns(ingestion[j], versions, dataset) /\ ingestion[j] \in IngestCalls /\ ~Gone(dataset)
      BY <1>1, DatasetFacts
    <2>2. ingestion[j].number \in VersionNumbers /\ ingestion[j].staled \subseteq VersionNumbers
      BY <2>1 DEF IngestCalls
    <2>3. Created(ingestion[j]) => ingestion[j].number # n
      BY <1>4 DEF DatasetInv, NumbersAreOwned
    <2> QED
      BY <1>9, <2>1, <2>2, <2>3 DEF CallOwns
  <1>13. CallOwns(x, versions', dataset') /\ InStep(x, versions', columnRows', dataset')
    BY <1>3, <1>4 DEF CallOwns, InStep
  <1>14. ~overlapped => \A j \in Ingestions \ {i} : ~Busy(ingestion[j])
    BY <1>4 DEF DatasetInv, CallsAlone
  <1>15. ASSUME ~overlapped  PROVE TablesAgree(versions', columnRows', dataset')
    <2>1. c.loaded = dataset /\ c.staled = ReadyIn(versions) /\ c.old = columnRows
      BY <1>1, <1>4, <1>15, CallKnows, DatasetFacts DEF InStep
    <2>2. ReadyIn(versions') = {n}
      BY <1>1, <1>2, <2>1 DEF ReadyIn
    <2>3. columnRows' = rows
      BY <1>1, <2>1
    <2>4. dataset' = [status |-> "ready", current |-> n]
      BY <1>1, <2>1 DEF Written
    <2> QED
      BY <1>6, <2>2, <2>3, <2>4 DEF TablesAgree
  <1>16. DatasetInv'
    <2>1. columnRows' \subseteq Columns /\ dataset' \in DatasetRows /\ GoneIsEmpty(versions', dataset')
      BY <1>1, <1>6, <1>8, <1>11, DatasetFacts DEF GoneIsEmpty
    <2>2. \A v \in VersionNumbers : versions'[v] # "none" => versions[v] # "none" \/ v = x.number
      BY <1>3, <1>9
    <2>3. overlapped' = overlapped /\ ingestCrashes' = ingestCrashes /\ Moves(i, x)
      BY <1>1
    <2> QED
      BY <1>3, <1>4, <1>9, <1>12, <1>13, <1>14, <1>15, <2>1, <2>2, <2>3, DatasetFacts, DatasetGoesOn
  <1> QED
    BY <1>2, <1>9, <1>16 DEF ReadyIn

(* Only a version that is INGESTING is marked.                             *)
LEMMA MarkFailureKeeps ==
  ASSUME DatasetInv, NEW i \in Ingestions, MarkFailure(i)
  PROVE  DatasetInv' /\ ReadyIn(versions') = ReadyIn(versions)
  <1> DEFINE c == ingestion[i]
             n == c.number
             x == [c EXCEPT !.at = "error"]
  <1>1. /\ c.at = "marking" /\ Moves(i, x) /\ UNCHANGED <<columnRows, overlapped, ingestCrashes>>
        /\ versions' = IF Deleted THEN versions ELSE [versions EXCEPT ![n] = "failed"]
        /\ dataset' = IF Deleted \/ c.ready THEN dataset ELSE [dataset EXCEPT !.status = Written(i, "status", "failed")]
    BY DEF MarkFailure, GoesTo
  <1>2. c \in IngestCalls /\ n \in VersionNumbers /\ c.loaded \in DatasetRows /\ c.ready \in BOOLEAN
    BY DatasetFacts DEF IngestCalls
  <1>3. x \in IngestCalls /\ x.at = "error" /\ x.number = n
    BY <1>2 DEF IngestCalls, Places
  <1>4. Busy(c) /\ Created(c) /\ ~Created(x) /\ ~Busy(x) /\ CallOwns(x, versions', dataset')
    BY <1>1, <1>3 DEF Busy, Created, Creating, CallOwns
  <1> HIDE DEF x
  <1>5. ~overlapped => \A j \in Ingestions \ {i} : ~Busy(ingestion[j])
    BY <1>4 DEF DatasetInv, CallsAlone
  <1>6. CASE Deleted
    <2>1. /\ versions' = versions /\ dataset' = dataset /\ columnRows' = columnRows
          /\ overlapped' = overlapped /\ ingestCrashes' = ingestCrashes /\ Moves(i, x)
      BY <1>1, <1>6
    <2> QED
      BY <1>3, <1>4, <1>5, <2>1, DatasetFacts, DatasetGoesOn
  <1>7. CASE ~Deleted
    <2>1. versions[n] = "ingesting"
      BY <1>4, <1>7, DatasetFacts DEF CallOwns
    <2>2. /\ versions' \in VersionTables /\ versions'[n] = "failed"
          /\ \A v \in VersionNumbers \ {n} : versions'[v] = versions[v]
      BY <1>1, <1>2, <1>7, DatasetFacts DEF VersionTables, RowStatus
    <2>3. ReadyIn(versions') = ReadyIn(versions)
      BY <1>2, <2>1, <2>2 DEF ReadyIn
    <2>4. Written(i, "status", "failed") \in DatasetStatus
      BY <1>2, <1>7, DatasetFacts DEF Written, DatasetRows, DatasetStatus, Deleted
    <2>5. dataset' \in DatasetRows /\ ~Gone(dataset')
      <3>1. [dataset EXCEPT !.status = Written(i, "status", "failed")] \in DatasetRows
        BY <2>4, DatasetFacts DEF DatasetRows
      <3>2. [dataset EXCEPT !.status = Written(i, "status", "failed")].status \in DatasetStatus
        BY <2>4, DatasetFacts DEF DatasetRows
      <3> QED
        BY <1>1, <1>7, <3>1, <3>2, DatasetFacts DEF Gone, DatasetStatus
    <2>6. ASSUME NEW j \in Ingestions \ {i}  PROVE CallOwns(ingestion[j], versions', dataset')
      <3>1. CallOwns(ingestion[j], versions, dataset) /\ ingestion[j] \in IngestCalls /\ ~Gone(dataset)
        BY <1>7, DatasetFacts
      <3>2. ingestion[j].number \in VersionNumbers /\ ingestion[j].staled \subseteq VersionNumbers
        BY <3>1 DEF IngestCalls
      <3>3. Created(ingestion[j]) => ingestion[j].number # n
        BY <1>4 DEF DatasetInv, NumbersAreOwned
      <3> QED
        BY <2>1, <2>2, <3>1, <3>2, <3>3 DEF CallOwns
    <2>7. ~overlapped => TablesAgree(versions', columnRows', dataset')
      <3>1. ~overlapped /\ ReadyIn(versions) # {} => c.ready
        BY <1>1, <1>4, <1>7, CallKnows, DatasetFacts DEF InStep
      <3>2. ~overlapped /\ ReadyIn(versions) # {} => dataset' = dataset
        BY <1>1, <3>1
      <3>3. columnRows' = columnRows
        BY <1>1
      <3> QED
        BY <2>3, <3>2, <3>3, DatasetFacts DEF TablesAgree
    <2>8. GoneIsEmpty(versions', dataset')
      BY <2>5 DEF GoneIsEmpty
    <2>9. \A v \in VersionNumbers : versions'[v] # "none" => versions[v] # "none" \/ v = x.number
      BY <1>3, <2>2
    <2>10. columnRows' = columnRows /\ overlapped' = overlapped /\ ingestCrashes' = ingestCrashes /\ Moves(i, x)
      BY <1>1
    <2>11. DatasetInv'
      BY <1>3, <1>4, <1>5, <2>2, <2>5, <2>6, <2>7, <2>8, <2>9, <2>10, DatasetFacts, DatasetGoesOn
    <2> QED
      BY <2>3, <2>11
  <1> QED
    BY <1>6, <1>7

LEMMA DeleteDatasetKeeps ==
  ASSUME DatasetInv, DeleteDataset
  PROVE  DatasetInv' /\ dataset'.status = "deleted"
  <1>1. /\ dataset' = [dataset EXCEPT !.status = "deleted"] /\ versions' = [v \in VersionNumbers |-> "none"]
        /\ columnRows' = {} /\ UNCHANGED <<ingestion, overlapped, ingestCrashes>>
    BY DEF DeleteDataset
  <1>2. dataset' \in DatasetRows /\ dataset'.status = "deleted"
    BY <1>1, DatasetFacts DEF DatasetRows
  <1>3. versions' \in VersionTables /\ ReadyIn(versions') = {}
    BY <1>1 DEF VersionTables, ReadyIn
  <1>4. DatasetTablesOK'
    BY <1>1, <1>2, <1>3, DatasetFacts DEF DatasetTablesOK
  <1>5. NumbersAreOwned'
    BY <1>1 DEF DatasetInv, NumbersAreOwned
  <1>6. CallsAlone'
    BY <1>1, <1>2 DEF DatasetInv, CallsAlone, Gone
  <1>7. \A i \in Ingestions : CallOwns(ingestion'[i], versions', dataset')
    BY <1>2 DEF CallOwns, Gone
  <1>8. GoneIsEmpty(versions', dataset')
    BY <1>1 DEF GoneIsEmpty
  <1>9. TablesAgree(versions', columnRows', dataset')
    BY <1>3 DEF TablesAgree
  <1> QED
    BY <1>2, <1>4, <1>5, <1>6, <1>7, <1>8, <1>9 DEF DatasetInv

(* The steps that leave the version rows, or add one that is INGESTING.    *)
LEMMA OtherStepsKeep ==
  ASSUME DatasetInv, NEW i \in Ingestions,
         \/ Number(i) \/ CreateVersion(i) \/ Materialize(i) \/ MaterializeFails(i)
         \/ SelectReady(i) \/ StaleOthers(i) \/ LoadColumns(i) \/ PromoteFails(i)
         \/ Audit(i) \/ LookForReady(i) \/ IngestionDies(i)
  PROVE  DatasetInv' /\ ReadyIn(versions) \subseteq ReadyIn(versions')
  <1>1. DatasetInv'
    BY NumberKeeps, CreateVersionKeeps, MaterializeKeeps, SelectReadyKeeps, StaleOthersKeeps, LoadColumnsKeeps,
       LookForReadyKeeps, EndsKeep
  <1>2. CASE CreateVersion(i)
    <2>1. \/ versions' = versions
          \/ versions[ingestion[i].number] = "none" /\ versions' = [versions EXCEPT ![ingestion[i].number] = "ingesting"]
      BY <1>2 DEF CreateVersion
    <2> QED
      BY <1>1, <2>1, DatasetFacts DEF ReadyIn, VersionTables
  <1>3. CASE ~CreateVersion(i)
    <2>1. versions' = versions
      BY <1>3 DEF Number, Materialize, MaterializeFails, SelectReady, StaleOthers, LoadColumns, PromoteFails, Audit,
                  LookForReady, IngestionDies
    <2> QED
      BY <1>1, <2>1
  <1> QED
    BY <1>2, <1>3

LEMMA DatasetStep ==
  ASSUME DatasetInv, [DatasetNext]_datasetVars
  PROVE  DatasetInv' /\ (ReadyIn(versions) # {} => ReadyIn(versions') # {} \/ dataset'.status = "deleted")
  <1>1. ASSUME NEW i \in Ingestions, Promote(i) \/ MarkFailure(i)
        PROVE  DatasetInv' /\ (ReadyIn(versions) # {} => ReadyIn(versions') # {})
    BY <1>1, PromoteKeeps, MarkFailureKeeps
  <1>2. ASSUME NEW i \in Ingestions,
               \/ Number(i) \/ CreateVersion(i) \/ Materialize(i) \/ MaterializeFails(i)
               \/ SelectReady(i) \/ StaleOthers(i) \/ LoadColumns(i) \/ PromoteFails(i)
               \/ Audit(i) \/ LookForReady(i) \/ IngestionDies(i)
        PROVE  DatasetInv' /\ ReadyIn(versions) \subseteq ReadyIn(versions')
    BY <1>2, OtherStepsKeep
  <1>3. CASE DeleteDataset
    BY <1>3, DeleteDatasetKeeps
  <1>4. CASE UNCHANGED datasetVars
    BY <1>4 DEF datasetVars, DatasetInv, DatasetTablesOK, NumbersAreOwned, CallsAlone
  <1>5. CASE \E i \in Ingestions : IngestionStep(i) \/ IngestionDies(i)
    BY <1>1, <1>2, <1>5 DEF IngestionStep
  <1> QED
    BY <1>3, <1>4, <1>5 DEF DatasetNext

LEMMA DatasetInvariant == DatasetSpec => []DatasetInv
  BY DatasetInitInv, DatasetStep, PTL DEF DatasetSpec

(* A dataset that has a READY version always has one until it is deleted   *)
(* (ingest_dataset, promote_version_success, mark_version_failure), for    *)
(* any number of overlapping ingestions, failures and crashes.             *)
THEOREM DatasetsStayReadable == DatasetSpec => ZeroDowntime
  <1>1. DatasetInv /\ [DatasetNext]_datasetVars
           => [ReadyVersions # {} => ReadyVersions' # {} \/ dataset'.status = "deleted"]_datasetVars
    BY DatasetStep DEF ReadyVersions, ReadyIn
  <1> QED
    BY <1>1, DatasetInvariant, PTL DEF DatasetSpec, ZeroDowntime

(* While ingestions do not overlap, one version is READY, and the datasets *)
(* row and the column rows are of it.                                      *)
THEOREM OneIngestionAtATimeAgrees == DatasetSpec => []SequentialIngestionsAgree
  <1>1. DatasetInv => SequentialIngestionsAgree
    BY DatasetFacts DEF TablesAgree, SequentialIngestionsAgree
  <1> QED
    BY <1>1, DatasetInvariant, PTL
-----------------------------------------------------------------------------
(***************************************************************************)
(* A data source, its cached schema and its runs.                          *)
(***************************************************************************)
Statuses == {"registered", "active", "error", "disabled"}
RunStatuses == {"none", "running", "completed", "failed"}
SourceRows == [here : BOOLEAN, config : Configurations, status : Statuses]
SourceCalls == [at : {"idle", "updating", "deleting", "invalidated", "unlinked", "discovering",
                      "testing", "syncing"},
                config : Configurations \cup {NoSchema}, sets : SUBSET Parameters, alone : BOOLEAN,
                told : {"nothing", "completed", "failed", "cut"}]

SourceTablesOK ==
    /\ source \in SourceRows /\ cached \in Configurations \cup {NoSchema}
    /\ runs \in [SourceRequests -> RunStatuses] /\ call \in [SourceRequests -> SourceCalls]
    /\ changes \in 0..MaxChanges /\ cacheFaults \in 0..MaxCacheFaults
    /\ settled \in Configurations /\ strayed \in BOOLEAN

Updating(x) == x.at \in {"updating", "invalidated"}

(* What a request was told of its run, and a run under way.                *)
CallTells(x, run) ==
    /\ run = "running" => x.at = "syncing" \/ x.told = "cut"
    /\ x.told \in {"completed", "failed"} => run \in {x.told, "none"}
    /\ x.at = "syncing" => run \in {"running", "none"}

(* An update that overlaps no other holds what is committed, but for what  *)
(* it sets itself.                                                         *)
CallReads(x, row) ==
    /\ x.at \in {"updating", "invalidated", "discovering"} => x.config \in Configurations
    /\ Updating(x) /\ x.alone /\ row.here => \A p \in Parameters \ x.sets : x.config[p] = row.config[p]

LoneUpdates ==
    \A r, q \in SourceRequests : r # q /\ Updating(call[r]) /\ call[r].alone => ~Updating(call[q])

(* Between the invalidation and the commit of a change nothing is cached   *)
(* that would outlive it unseen.                                           *)
Committing(x) == x.at \in {"invalidated", "unlinked"}
CacheIsCleared ==
    (\E q \in SourceRequests : Committing(call[q])) => cached = NoSchema \/ strayed

StoresInStep(row, entry, stray, values) ==
    /\ stray \/ entry = NoSchema \/ (row.here /\ entry = row.config)
    /\ row.here => row.config = values

SourceInv ==
    /\ SourceTablesOK
    /\ \A r \in SourceRequests : CallTells(call[r], runs[r]) /\ CallReads(call[r], source)
    /\ LoneUpdates /\ CacheIsCleared
    /\ StoresInStep(source, cached, strayed, settled)
-----------------------------------------------------------------------------
LEMMA OriginalIsConfiguration == Original \in Configurations
  BY SourceAssumption DEF Original, Configurations

LEMMA SourceInitInv == SourceInit => SourceInv
  <1> SUFFICES ASSUME SourceInit  PROVE SourceInv
    OBVIOUS
  <1>1. AtRest \in SourceCalls
    BY DEF AtRest, SourceCalls
  <1>2. [here |-> TRUE, config |-> Original, status |-> "registered"] \in SourceRows
    BY OriginalIsConfiguration DEF SourceRows, Statuses
  <1>3. SourceTablesOK
    <2>1. source \in SourceRows /\ cached \in {NoSchema} /\ settled \in Configurations /\ strayed \in BOOLEAN
      BY <1>2, OriginalIsConfiguration DEF SourceInit
    <2>2. runs \in [SourceRequests -> RunStatuses] /\ call \in [SourceRequests -> SourceCalls]
      BY <1>1 DEF SourceInit, RunStatuses
    <2>3. changes \in 0..MaxChanges /\ cacheFaults \in 0..MaxCacheFaults
      BY SourceAssumption DEF SourceInit
    <2> QED
      BY <2>1, <2>2, <2>3 DEF SourceTablesOK
  <1>4. /\ AtRest.at = "idle" /\ AtRest.told = "nothing"
    BY DEF AtRest
  <1> QED
    BY <1>3, <1>4 DEF SourceInit, SourceInv, CallTells, CallReads, LoneUpdates, CacheIsCleared,
                      StoresInStep, Updating, Committing

(* A request takes a step: what it is then, and what it leaves to the      *)
(* others.                                                                 *)
LEMMA SourceGoesOn ==
  ASSUME SourceInv, NEW r \in SourceRequests, NEW x \in SourceCalls, CallGoes(r, x),
         Updating(x) => Updating(call[r]) /\ x.alone = call[r].alone,
         source' \in SourceRows, cached' \in Configurations \cup {NoSchema},
         runs' \in [SourceRequests -> RunStatuses], settled' \in Configurations, strayed' \in BOOLEAN,
         changes' \in 0..MaxChanges, cacheFaults' \in 0..MaxCacheFaults,
         CallTells(x, runs'[r]), CallReads(x, source'),
         \A q \in SourceRequests \ {r} : CallTells(call[q], runs'[q]) /\ CallReads(call[q], source'),
         Committing(x) \/ (\E q \in SourceRequests \ {r} : Committing(call[q])) => cached' = NoSchema \/ strayed',
         StoresInStep(source', cached', strayed', settled')
  PROVE  SourceInv'
  <1>1. /\ call' \in [SourceRequests -> SourceCalls] /\ call'[r] = x
        /\ \A q \in SourceRequests \ {r} : call'[q] = call[q]
    BY DEF SourceInv, SourceTablesOK, CallGoes
  <1>2. SourceTablesOK'
    BY <1>1 DEF SourceTablesOK
  <1>3. LoneUpdates'
    BY <1>1 DEF SourceInv, LoneUpdates, Updating
  <1>4. CacheIsCleared'
    BY <1>1 DEF CacheIsCleared
  <1>5. \A q \in SourceRequests : CallTells(call'[q], runs'[q]) /\ CallReads(call'[q], source')
    BY <1>1
  <1> QED
    BY <1>2, <1>3, <1>4, <1>5 DEF SourceInv

LEMMA SourceFacts ==
  ASSUME SourceInv
  PROVE  /\ source \in SourceRows /\ cached \in Configurations \cup {NoSchema}
         /\ runs \in [SourceRequests -> RunStatuses] /\ call \in [SourceRequests -> SourceCalls]
         /\ changes \in 0..MaxChanges /\ cacheFaults \in 0..MaxCacheFaults
         /\ settled \in Configurations /\ strayed \in BOOLEAN
         /\ \A r \in SourceRequests : CallTells(call[r], runs[r]) /\ CallReads(call[r], source)
         /\ (\E q \in SourceRequests : Committing(call[q])) => cached = NoSchema \/ strayed
         /\ StoresInStep(source, cached, strayed, settled)
  BY DEF SourceInv, SourceTablesOK, CacheIsCleared

LEMMA RestIs ==
  ASSUME SourceInv, NEW r \in SourceRequests
  PROVE  Rest(r) \in SourceCalls /\ Rest(r).at = "idle" /\ Rest(r).told = call[r].told
  BY SourceFacts DEF Rest, AtRest, SourceCalls

(* The steps that only move a request, and neither update nor commit.      *)
LEMMA OnlyMoves ==
  ASSUME SourceInv, NEW r \in SourceRequests, NEW x \in SourceCalls, CallGoes(r, x),
         UNCHANGED <<source, cached, runs, changes, settled, strayed, cacheFaults>>,
         ~Updating(x), ~Committing(x), CallTells(x, runs[r]),
         x.at = "discovering" => x.config \in Configurations
  PROVE  SourceInv'
  <1>1. CallReads(x, source)
    BY DEF CallReads, Updating
  <1> QED
    BY <1>1, SourceFacts, SourceGoesOn

LEMMA MovesKeep ==
  ASSUME SourceInv, NEW r \in SourceRequests,
         \/ BeginDelete(r) \/ AskSchema(r) \/ DiscoveryFails(r) \/ BeginTest(r) \/ SyncCut(r)
  PROVE  SourceInv'
  <1>1. CASE BeginDelete(r)
    <2> DEFINE x == [Rest(r) EXCEPT !.at = "deleting"]
    <2>1. x \in SourceCalls /\ x.at = "deleting" /\ x.told = call[r].told
      BY RestIs DEF SourceCalls
    <2>2. CallTells(x, runs[r])
      BY <1>1, <2>1, SourceFacts DEF BeginDelete, NotBusy, CallTells
    <2>3. CallGoes(r, x) /\ UNCHANGED <<source, cached, runs, changes, settled, strayed, cacheFaults>>
      BY <1>1 DEF BeginDelete
    <2> HIDE DEF x
    <2> QED
      BY <2>1, <2>2, <2>3, OnlyMoves DEF Updating, Committing
  <1>2. CASE AskSchema(r)
    <2> DEFINE x == [Rest(r) EXCEPT !.at = "discovering", !.config = source.config]
    <2>1. x \in SourceCalls /\ x.at = "discovering" /\ x.told = call[r].told /\ x.config \in Configurations
      BY RestIs, SourceFacts DEF SourceCalls, SourceRows
    <2>2. CallTells(x, runs[r])
      BY <1>2, <2>1, SourceFacts DEF AskSchema, NotBusy, CallTells
    <2>3. CallGoes(r, x) /\ UNCHANGED <<source, cached, runs, changes, settled, strayed, cacheFaults>>
      BY <1>2 DEF AskSchema
    <2> HIDE DEF x
    <2> QED
      BY <2>1, <2>2, <2>3, OnlyMoves DEF Updating, Committing
  <1>3. CASE DiscoveryFails(r)
    <2>1. CallTells(Rest(r), runs[r])
      BY <1>3, RestIs, SourceFacts DEF DiscoveryFails, CallTells
    <2> QED
      BY <1>3, <2>1, RestIs, OnlyMoves DEF DiscoveryFails, Updating, Committing
  <1>4. CASE BeginTest(r)
    <2> DEFINE x == [Rest(r) EXCEPT !.at = "testing"]
    <2>1. x \in SourceCalls /\ x.at = "testing" /\ x.told = call[r].told
      BY RestIs DEF SourceCalls
    <2>2. CallTells(x, runs[r])
      BY <1>4, <2>1, SourceFacts DEF BeginTest, NotBusy, CallTells
    <2>3. CallGoes(r, x) /\ UNCHANGED <<source, cached, runs, changes, settled, strayed, cacheFaults>>
      BY <1>4 DEF BeginTest
    <2> HIDE DEF x
    <2> QED
      BY <2>1, <2>2, <2>3, OnlyMoves DEF Updating, Committing
  <1>5. CASE SyncCut(r)
    <2> DEFINE x == [AtRest EXCEPT !.told = "cut"]
    <2>1. x \in SourceCalls /\ x.at = "idle" /\ x.told = "cut"
      BY DEF SourceCalls, AtRest
    <2>2. CallTells(x, runs[r])
      BY <2>1 DEF CallTells
    <2>3. CallGoes(r, x) /\ UNCHANGED <<source, cached, runs, changes, settled, strayed, cacheFaults>>
      BY <1>5 DEF SyncCut
    <2> HIDE DEF x
    <2> QED
      BY <2>1, <2>2, <2>3, OnlyMoves DEF Updating, Committing
  <1> QED
    BY <1>1, <1>2, <1>3, <1>4, <1>5

LEMMA BeginUpdateKeeps ==
  ASSUME SourceInv, NEW r \in SourceRequests, BeginUpdate(r)
  PROVE  SourceInv'
  <1>1. /\ call[r].at = "idle" /\ changes' = changes + 1 /\ changes < MaxChanges
        /\ UNCHANGED <<source, cached, runs, settled, strayed, cacheFaults>>
    BY DEF BeginUpdate, NotBusy
  <1>2. PICK p \in Parameters :
          call' = [q \in SourceRequests |->
                     IF q = r THEN [Rest(r) EXCEPT !.at = "updating", !.sets = {p},
                                                  !.config = [source.config EXCEPT ![p] = changes'],
                                                  !.alone = \A y \in SourceRequests : ~Writing(y)]
                     ELSE [call[q] EXCEPT !.alone = FALSE]]
    BY DEF BeginUpdate
  <1> DEFINE values == [source.config EXCEPT ![p] = changes']
             alone == \A y \in SourceRequests : ~Writing(y)
             x == [Rest(r) EXCEPT !.at = "updating", !.sets = {p}, !.config = values, !.alone = alone]
  <1>3. changes' \in 0..MaxChanges
    BY <1>1, SourceFacts, SourceAssumption
  <1>4. values \in Configurations /\ \A o \in Parameters \ {p} : values[o] = source.config[o]
    BY <1>3, SourceFacts DEF SourceRows, Configurations
  <1> HIDE DEF values
  <1>5. /\ x \in SourceCalls /\ x.at = "updating" /\ x.sets = {p} /\ x.config = values
        /\ x.alone = alone /\ x.told = call[r].told
    BY <1>4, RestIs DEF SourceCalls
  <1>6. ASSUME NEW q \in SourceRequests
        PROVE  LET y == [call[q] EXCEPT !.alone = FALSE] IN
               /\ y \in SourceCalls /\ y.at = call[q].at /\ y.config = call[q].config
               /\ y.told = call[q].told /\ ~y.alone
    BY SourceFacts DEF SourceCalls
  <1>7. /\ call'[r] = x
        /\ \A q \in SourceRequests \ {r} :
              /\ call'[q] \in SourceCalls /\ call'[q].at = call[q].at /\ call'[q].config = call[q].config
              /\ call'[q].told = call[q].told /\ ~call'[q].alone
        /\ call' \in [SourceRequests -> SourceCalls]
    BY <1>2, <1>5, <1>6 DEF values
  <1> HIDE DEF x
  <1>8. SourceTablesOK'
    BY <1>1, <1>3, <1>7, SourceFacts DEF SourceTablesOK
  <1>9. ASSUME NEW q \in SourceRequests
        PROVE  CallTells(call'[q], runs'[q]) /\ CallReads(call'[q], source')
    <2>1. CASE q = r
      BY <2>1, <1>1, <1>4, <1>5, <1>7, SourceFacts DEF CallTells, CallReads
    <2>2. CASE q # r
      BY <2>2, <1>1, <1>7, SourceFacts DEF CallTells, CallReads
    <2> QED
      BY <2>1, <2>2
  <1>10. LoneUpdates'
    <2>1. \A q \in SourceRequests \ {r} : ~call'[q].alone /\ (x.alone => ~Updating(call'[q]))
      BY <1>5, <1>7 DEF Updating, Writing
    <2> QED
      BY <1>7, <2>1 DEF LoneUpdates
  <1>11. CacheIsCleared'
    BY <1>1, <1>5, <1>7, SourceFacts DEF CacheIsCleared, Committing
  <1> QED
    BY <1>1, <1>8, <1>9, <1>10, <1>11, SourceFacts DEF SourceInv

LEMMA CacheWriteKeeps ==
  ASSUME SourceInv, NEW entry \in Configurations \cup {NoSchema}, CacheWrite(entry)
  PROVE  /\ cacheFaults' \in 0..MaxCacheFaults /\ cached' \in {entry, cached}
         /\ cached' \in Configurations \cup {NoSchema}
  BY SourceFacts, SourceAssumption DEF CacheWrite

LEMMA InvalidateKeeps ==
  ASSUME SourceInv, NEW r \in SourceRequests, Invalidate(r)
  PROVE  SourceInv'
  <1> DEFINE x == [call[r] EXCEPT !.at = IF @ = "updating" THEN "invalidated" ELSE "unlinked"]
  <1>1. /\ call[r].at \in {"updating", "deleting"} /\ CallGoes(r, x) /\ CacheWrite(NoSchema)
        /\ strayed' = (cached' # NoSchema) /\ UNCHANGED <<source, runs, changes, settled>>
    BY DEF Invalidate
  <1>2. /\ x \in SourceCalls /\ x.config = call[r].config /\ x.alone = call[r].alone
        /\ x.sets = call[r].sets /\ x.told = call[r].told
        /\ x.at = IF call[r].at = "updating" THEN "invalidated" ELSE "unlinked"
    BY SourceFacts DEF SourceCalls
  <1> HIDE DEF x
  <1>3. CallTells(x, runs'[r]) /\ CallReads(x, source') /\ (Updating(x) => Updating(call[r]))
    BY <1>1, <1>2, SourceFacts DEF CallTells, CallReads, Updating
  <1>4. StoresInStep(source', cached', strayed', settled')
    BY <1>1, SourceFacts DEF StoresInStep
  <1> QED
    BY <1>1, <1>2, <1>3, <1>4, CacheWriteKeeps, SourceFacts, SourceGoesOn

LEMMA CommitUpdateKeeps ==
  ASSUME SourceInv, NEW r \in SourceRequests, CommitUpdate(r)
  PROVE  SourceInv'
  <1> DEFINE c == call[r]
             values == [p \in Parameters |-> IF ~c.alone THEN c.config[p]
                                             ELSE IF p \in c.sets THEN c.config[p] ELSE settled[p]]
  <1>1. /\ c.at = "invalidated" /\ CallGoes(r, Rest(r)) /\ UNCHANGED <<cached, runs, changes, strayed, cacheFaults>>
        /\ IF source.here
           THEN source' = [source EXCEPT !.config = c.config] /\ settled' = values
           ELSE source' = source /\ settled' = settled
    BY DEF CommitUpdate
  <1>2. CallTells(Rest(r), runs'[r])
    BY <1>1, RestIs, SourceFacts DEF CallTells
  <1>3. CallReads(Rest(r), source') /\ ~Updating(Rest(r)) /\ ~Committing(Rest(r))
    BY RestIs DEF CallReads, Updating, Committing
  <1>4. cached = NoSchema \/ strayed
    BY <1>1, SourceFacts DEF Committing
  <1>5. CASE source.here
    <2>1. c.config \in Configurations /\ settled = source.config /\ settled \in Configurations
      BY <1>1, <1>5, SourceFacts DEF CallReads, StoresInStep
    <2>2. values = c.config
      <3>1. \A p \in Parameters : values[p] = c.config[p]
        BY <1>1, <1>5, <2>1, SourceFacts DEF CallReads, Updating
      <3> QED
        BY <2>1, <3>1 DEF Configurations
    <2>3. source' \in SourceRows /\ source'.here /\ source'.config = c.config
      BY <1>1, <1>5, <2>1, SourceFacts DEF SourceRows
    <2>4. ASSUME NEW q \in SourceRequests \ {r}
          PROVE  CallReads(call[q], source')
      <3>1. Updating(call[q]) => ~call[q].alone
        BY <1>1 DEF SourceInv, LoneUpdates, Updating
      <3> QED
        BY <3>1, SourceFacts DEF CallReads
    <2>5. StoresInStep(source', cached', strayed', settled')
      BY <1>1, <1>4, <1>5, <2>2, <2>3 DEF StoresInStep
    <2> HIDE DEF values
    <2> QED
      BY <1>1, <1>2, <1>3, <1>4, <1>5, <2>1, <2>2, <2>3, <2>4, <2>5, RestIs, SourceFacts, SourceGoesOn
  <1>6. CASE ~source.here
    BY <1>1, <1>2, <1>3, <1>4, <1>6, RestIs, SourceFacts, SourceGoesOn
  <1> QED
    BY <1>5, <1>6

LEMMA DisableKeeps ==
  ASSUME SourceInv, NEW r \in SourceRequests, Disable(r) \/ EndTest(r)
  PROVE  SourceInv'
  <1>1. /\ UNCHANGED <<cached, runs, changes, settled, strayed, cacheFaults>>
        /\ \/ call' = call /\ NotBusy(r)
           \/ CallGoes(r, Rest(r)) /\ call[r].at = "testing"
        /\ \/ source' = source
           \/ \E s \in Statuses : source' = [source EXCEPT !.status = s]
    BY DEF Disable, EndTest, Statuses
  <1>2. source' \in SourceRows /\ source'.here = source.here /\ source'.config = source.config
    BY <1>1, SourceFacts DEF SourceRows
  <1>3. PICK x \in SourceCalls : /\ CallGoes(r, x) /\ x.told = call[r].told
                                 /\ x.at = "idle" /\ call[r].at \in {"idle", "testing"}
    <2>1. CASE call' = call /\ NotBusy(r)
      <3>1. CallGoes(r, call[r]) /\ call[r] \in SourceCalls
        BY <2>1, SourceFacts DEF CallGoes
      <3> QED
        BY <2>1, <3>1 DEF NotBusy
    <2>2. CASE CallGoes(r, Rest(r)) /\ call[r].at = "testing"
      BY <2>2, RestIs
    <2> QED
      BY <1>1, <2>1, <2>2
  <1>4. CallTells(x, runs'[r]) /\ CallReads(x, source') /\ ~Updating(x) /\ ~Committing(x)
    BY <1>1, <1>3, SourceFacts DEF CallTells, CallReads, Updating, Committing
  <1>5. \A q \in SourceRequests \ {r} : CallReads(call[q], source')
    BY <1>2, SourceFacts DEF CallReads
  <1>6. StoresInStep(source', cached', strayed', settled')
    BY <1>1, <1>2, SourceFacts DEF StoresInStep
  <1> QED
    BY <1>1, <1>2, <1>3, <1>4, <1>5, <1>6, SourceFacts, SourceGoesOn

LEMMA CommitDeleteKeeps ==
  ASSUME SourceInv, NEW r \in SourceRequests, CommitDelete(r)
  PROVE  SourceInv'
  <1>1. /\ call[r].at = "unlinked" /\ CallGoes(r, Rest(r)) /\ source' = [source EXCEPT !.here = FALSE]
        /\ runs' = [q \in SourceRequests |-> "none"]
        /\ UNCHANGED <<cached, changes, settled, strayed, cacheFaults>>
    BY DEF CommitDelete
  <1>2. source' \in SourceRows /\ ~source'.here /\ runs' \in [SourceRequests -> RunStatuses]
    BY <1>1, SourceFacts DEF SourceRows, RunStatuses
  <1>3. cached = NoSchema \/ strayed
    BY <1>1, SourceFacts DEF Committing
  <1>4. CallTells(Rest(r), runs'[r]) /\ CallReads(Rest(r), source') /\ ~Updating(Rest(r)) /\ ~Committing(Rest(r))
    BY <1>1, RestIs DEF CallTells, CallReads, Updating, Committing
  <1>5. \A q \in SourceRequests \ {r} : CallTells(call[q], runs'[q]) /\ CallReads(call[q], source')
    BY <1>1, <1>2, SourceFacts DEF CallTells, CallReads
  <1>6. StoresInStep(source', cached', strayed', settled')
    BY <1>1, <1>2, <1>3 DEF StoresInStep
  <1> QED
    BY <1>1, <1>2, <1>3, <1>4, <1>5, <1>6, RestIs, SourceFacts, SourceGoesOn

(* A schema that is cached while a change is being committed, or after the *)
(* change it does not show, is known to have strayed.                      *)
LEMMA CacheSchemaKeeps ==
  ASSUME SourceInv, NEW r \in SourceRequests, CacheSchema(r)
  PROVE  SourceInv'
  <1> DEFINE c == call[r]
  <1>1. /\ c.at = "discovering" /\ CallGoes(r, Rest(r)) /\ CacheWrite(c.config)
        /\ strayed' = IF cached' # c.config THEN strayed
                      ELSE \/ ~source.here \/ c.config # source.config
                           \/ \E q \in SourceRequests : call[q].at \in {"invalidated", "unlinked"}
        /\ UNCHANGED <<source, runs, changes, settled>>
    BY DEF CacheSchema
  <1>2. c.config \in Configurations \cup {NoSchema}
    BY <1>1, SourceFacts DEF CallReads
  <1>3. CallTells(Rest(r), runs'[r]) /\ CallReads(Rest(r), source') /\ ~Updating(Rest(r)) /\ ~Committing(Rest(r))
    BY <1>1, RestIs, SourceFacts DEF CallTells, CallReads, Updating, Committing
  <1>4. cached' = c.config \/ (cached' = cached /\ strayed' = strayed)
    BY <1>1, <1>2, CacheWriteKeeps
  <1>5. StoresInStep(source', cached', strayed', settled')
    BY <1>1, <1>4, SourceFacts DEF StoresInStep
  <1>6. (\E q \in SourceRequests \ {r} : Committing(call[q])) => cached' = NoSchema \/ strayed'
    BY <1>1, <1>4, SourceFacts DEF Committing
  <1>7. strayed' \in BOOLEAN
    BY <1>1, SourceFacts
  <1> HIDE DEF c
  <1> QED
    BY <1>1, <1>2, <1>3, <1>5, <1>6, <1>7, CacheWriteKeeps, RestIs, SourceFacts, SourceGoesOn

LEMMA SyncKeeps ==
  ASSUME SourceInv, NEW r \in SourceRequests, BeginSync(r) \/ EndSync(r)
  PROVE  SourceInv'
  <1>1. PICK x \in SourceCalls, run \in RunStatuses :
          /\ CallGoes(r, x) /\ runs' = [runs EXCEPT ![r] = run]
          /\ CallTells(x, run) /\ x.at \in {"idle", "syncing"}
    <2>1. CASE BeginSync(r)
      <3>1. /\ [AtRest EXCEPT !.at = "syncing"] \in SourceCalls
            /\ [AtRest EXCEPT !.at = "syncing"].at = "syncing"
            /\ [AtRest EXCEPT !.at = "syncing"].told = "nothing"
        BY DEF AtRest, SourceCalls
      <3> QED
        BY <2>1, <3>1 DEF BeginSync, CallTells, RunStatuses
    <2>2. CASE EndSync(r)
      <3>1. PICK outcome \in {"completed", "failed"} :
              IF runs[r] = "running"
              THEN CallGoes(r, [AtRest EXCEPT !.told = outcome]) /\ runs' = [runs EXCEPT ![r] = outcome]
              ELSE CallGoes(r, [AtRest EXCEPT !.told = "failed"]) /\ runs' = runs
        BY <2>2 DEF EndSync
      <3>2. \A t \in {"completed", "failed"} :
              /\ [AtRest EXCEPT !.told = t] \in SourceCalls
              /\ [AtRest EXCEPT !.told = t].at = "idle" /\ [AtRest EXCEPT !.told = t].told = t
        BY DEF AtRest, SourceCalls
      <3>3. runs[r] \in {"running", "none"} /\ runs = [runs EXCEPT ![r] = runs[r]]
        BY <2>2, SourceFacts DEF EndSync, CallTells
      <3>4. CASE runs[r] = "running"
        BY <3>1, <3>2, <3>4 DEF CallTells, RunStatuses
      <3>5. CASE runs[r] # "running"
        <4>1. CallTells([AtRest EXCEPT !.told = "failed"], "none")
          BY <3>2 DEF CallTells
        <4> QED
          BY <3>1, <3>2, <3>3, <3>5, <4>1 DEF RunStatuses
      <3> QED
        BY <3>4, <3>5
    <2> QED
      BY <2>1, <2>2
  <1>2. UNCHANGED <<source, cached, changes, settled, strayed, cacheFaults>>
    BY DEF BeginSync, EndSync
  <1>3. /\ runs' \in [SourceRequests -> RunStatuses] /\ runs'[r] = run
        /\ \A q \in SourceRequests \ {r} : runs'[q] = runs[q]
    BY <1>1, SourceFacts
  <1>4. CallReads(x, source') /\ ~Updating(x) /\ ~Committing(x)
    BY <1>1 DEF CallReads, Updating, Committing
  <1> QED
    BY <1>1, <1>2, <1>3, <1>4, SourceFacts, SourceGoesOn

LEMMA EntryExpiresKeeps ==
  ASSUME SourceInv, EntryExpires
  PROVE  SourceInv'
  <1>1. cached' = NoSchema /\ ~strayed' /\ UNCHANGED <<source, runs, call, changes, settled, cacheFaults>>
    BY DEF EntryExpires
  <1>2. SourceTablesOK' /\ LoneUpdates' /\ CacheIsCleared'
    BY <1>1, SourceFacts DEF EntryExpires, SourceInv, SourceTablesOK, LoneUpdates, CacheIsCleared
  <1>3. StoresInStep(source', cached', strayed', settled')
    BY <1>1, SourceFacts DEF StoresInStep
  <1> QED
    BY <1>1, <1>2, <1>3, SourceFacts DEF SourceInv

LEMMA SourceStep == SourceInv /\ [SourceNext]_sourceVars => SourceInv'
  <1> SUFFICES ASSUME SourceInv, [SourceNext]_sourceVars  PROVE SourceInv'
    OBVIOUS
  <1>1. ASSUME NEW r \in SourceRequests,
               \/ BeginDelete(r) \/ AskSchema(r) \/ DiscoveryFails(r) \/ BeginTest(r) \/ SyncCut(r)
        PROVE  SourceInv'
    BY <1>1, MovesKeep
  <1>2. ASSUME NEW r \in SourceRequests,
               \/ BeginUpdate(r) \/ Invalidate(r) \/ CommitUpdate(r) \/ CommitDelete(r) \/ CacheSchema(r)
        PROVE  SourceInv'
    BY <1>2, BeginUpdateKeeps, InvalidateKeeps, CommitUpdateKeeps, CommitDeleteKeeps, CacheSchemaKeeps
  <1>3. ASSUME NEW r \in SourceRequests, Disable(r) \/ EndTest(r) \/ BeginSync(r) \/ EndSync(r)
        PROVE  SourceInv'
    BY <1>3, DisableKeeps, SyncKeeps
  <1>4. CASE EntryExpires
    BY <1>4, EntryExpiresKeeps
  <1>5. CASE UNCHANGED sourceVars
    BY <1>5 DEF sourceVars, SourceInv, SourceTablesOK, LoneUpdates, CacheIsCleared
  <1> QED
    BY <1>1, <1>2, <1>3, <1>4, <1>5 DEF SourceNext

(* The cached schema is that of the source unless it is known to have      *)
(* strayed, updates that do not overlap lose nothing of one another, and a *)
(* run says what its caller was told (update_data_source,                  *)
(* delete_data_source, get_schema, execute_sync), for any number of        *)
(* requests and parameters.                                                *)
THEOREM SourcesAgree == SourceSpec => []SourcesStayInStep
  <1>1. SourceInv => SourcesStayInStep
    BY DEF SourceInv, CallTells, StoresInStep, SourcesStayInStep
  <1> QED
    BY <1>1, SourceInitInv, SourceStep, PTL DEF SourceSpec
-----------------------------------------------------------------------------
(***************************************************************************)
(* Memories and their vectors.                                             *)
(***************************************************************************)
MemoryCalls == [op : {"none", "create", "update", "delete", "search"},
                at : {"idle", "loaded", "flushed", "called", "hits", "answered"},
                item : SUBSET Memories, old : SUBSET Memories,
                found : SUBSET Memories, gone : SUBSET Memories]

MemoryTablesOK ==
    /\ memory \in [Memories -> {"absent", "active", "superseded", "deleted"}]
    /\ indexed \subseteq Memories /\ deleted \subseteq Memories /\ excused \subseteq Memories
    /\ memoryCall \in [MemoryRequests -> MemoryCalls]
    /\ indexFaults \in 0..MaxIndexFaults

Holding(x) == IF x.at \in {"flushed", "called"} THEN x.old \cup x.item ELSE {}
RowsAreHeldOnce ==
    \A r, q \in MemoryRequests : r # q =>
       /\ Holding(memoryCall[r]) \cap Holding(memoryCall[q]) = {}
       /\ memoryCall[r].op = "create" => memoryCall[r].item \cap memoryCall[q].item = {}

(* What one request may assume of the stores: a row it creates is not there*)
(* yet and one it changes is; a deletion that has called the index has     *)
(* removed the point or is excused, and so is an update that was flushed   *)
(* over a deletion; an answer shows nothing that was gone when it began.   *)
CallIsSound(x, rows, points, gone, pardoned) ==
    /\ x.at \in {"loaded", "flushed", "called"} => x.op \in {"create", "update", "delete"}
    /\ \A m \in x.item : x.op = "create" <=> rows[m] = "absent"
    /\ \A m \in x.old : rows[m] # "absent"
    /\ x.op = "delete" /\ x.at = "called" => x.item \cap points \subseteq pardoned
    /\ x.op = "update" /\ x.at \in {"flushed", "called"} => x.item \cap gone \subseteq pardoned
    /\ x.gone \subseteq gone
    /\ x.at = "answered" => x.found \cap x.gone = {}

DeletedStayOut(rows, points, gone, pardoned) ==
    /\ \A m \in gone : rows[m] \notin {"absent", "active"}
    /\ points \cap gone \subseteq pardoned

MemoryInv ==
    /\ MemoryTablesOK /\ RowsAreHeldOnce
    /\ \A r \in MemoryRequests : CallIsSound(memoryCall[r], memory, indexed, deleted, excused)
    /\ DeletedStayOut(memory, indexed, deleted, excused)
-----------------------------------------------------------------------------
LEMMA MemoryInitInv == MemoryInit => MemoryInv
  <1> SUFFICES ASSUME MemoryInit  PROVE MemoryInv
    OBVIOUS
  <1>1. Unasked \in MemoryCalls
    BY DEF Unasked, MemoryCalls
  <1>2. MemoryTablesOK
    BY <1>1, MemoryAssumption DEF MemoryInit, MemoryTablesOK
  <1> QED
    BY <1>2 DEF MemoryInit, MemoryInv, RowsAreHeldOnce, CallIsSound, DeletedStayOut, Holding, Unasked

LEMMA MemoryGoesOn ==
  ASSUME MemoryInv, NEW r \in MemoryRequests, NEW x \in MemoryCalls, MemoryGoes(r, x),
         memory' \in [Memories -> {"absent", "active", "superseded", "deleted"}],
         indexed' \subseteq Memories, deleted' \subseteq Memories, excused' \subseteq Memories,
         indexFaults' \in 0..MaxIndexFaults,
         CallIsSound(x, memory', indexed', deleted', excused'),
         \A q \in MemoryRequests \ {r} :
            /\ CallIsSound(memoryCall[q], memory', indexed', deleted', excused')
            /\ Holding(x) \cap Holding(memoryCall[q]) = {}
            /\ x.op = "create" \/ memoryCall[q].op = "create" => x.item \cap memoryCall[q].item = {},
         DeletedStayOut(memory', indexed', deleted', excused')
  PROVE  MemoryInv'
  <1>1. /\ memoryCall' \in [MemoryRequests -> MemoryCalls] /\ memoryCall'[r] = x
        /\ \A q \in MemoryRequests \ {r} : memoryCall'[q] = memoryCall[q]
    BY DEF MemoryInv, MemoryTablesOK, MemoryGoes
  <1>2. MemoryTablesOK'
    BY <1>1 DEF MemoryTablesOK
  <1>3. RowsAreHeldOnce'
    BY <1>1 DEF MemoryInv, RowsAreHeldOnce
  <1> QED
    BY <1>1, <1>2, <1>3 DEF MemoryInv

(* The steps that leave the stores as they are.                            *)
LEMMA CallGoesOn ==
  ASSUME MemoryInv, NEW r \in MemoryRequests, NEW x \in MemoryCalls, MemoryGoes(r, x),
         UNCHANGED <<memory, indexed, deleted, excused>>, indexFaults' \in 0..MaxIndexFaults,
         CallIsSound(x, memory, indexed, deleted, excused),
         \A q \in MemoryRequests \ {r} :
            /\ Holding(x) \cap Holding(memoryCall[q]) = {}
            /\ x.op = "create" \/ memoryCall[q].op = "create" => x.item \cap memoryCall[q].item = {}
  PROVE  MemoryInv'
  <1>1. /\ memory' = memory /\ indexed' = indexed /\ deleted' = deleted /\ excused' = excused
        /\ memory \in [Memories -> {"absent", "active", "superseded", "deleted"}]
        /\ indexed \subseteq Memories /\ deleted \subseteq Memories /\ excused \subseteq Memories
        /\ \A q \in MemoryRequests : CallIsSound(memoryCall[q], memory, indexed, deleted, excused)
        /\ DeletedStayOut(memory, indexed, deleted, excused)
    BY DEF MemoryInv, MemoryTablesOK
  <1> QED
    BY <1>1, MemoryGoesOn

LEMMA UnaskedIsSound ==
  ASSUME MemoryInv
  PROVE  /\ Unasked \in MemoryCalls /\ Holding(Unasked) = {} /\ Unasked.item = {} /\ Unasked.op = "none"
         /\ CallIsSound(Unasked, memory, indexed, deleted, excused)
         /\ indexFaults \in 0..MaxIndexFaults
  <1>1. Unasked \in MemoryCalls
    BY DEF Unasked, MemoryCalls
  <1> QED
    BY <1>1 DEF Unasked, Holding, CallIsSound, MemoryInv, MemoryTablesOK

LEMMA BeginCreateKeeps ==
  ASSUME MemoryInv, NEW r \in MemoryRequests, NEW m \in Memories, BeginCreate(r, m)
  PROVE  MemoryInv'
  <1>1. PICK old \in {{}} \cup {{o} : o \in Loadable} :
          MemoryGoes(r, [Unasked EXCEPT !.op = "create", !.at = "loaded", !.item = {m}, !.old = old])
    BY DEF BeginCreate
  <1> DEFINE x == [Unasked EXCEPT !.op = "create", !.at = "loaded", !.item = {m}, !.old = old]
  <1>2. old \in SUBSET Memories /\ \A o \in old : memory[o] # "absent"
    BY DEF Loadable
  <1>3. /\ x \in MemoryCalls /\ x.op = "create" /\ x.at = "loaded" /\ x.item = {m} /\ x.old = old
        /\ x.gone = {} /\ x.found = {}
    BY <1>2 DEF Unasked, MemoryCalls
  <1>4. memory[m] = "absent" /\ \A q \in MemoryRequests : m \notin memoryCall[q].item
    BY DEF BeginCreate
  <1>5. CallIsSound(x, memory, indexed, deleted, excused) /\ Holding(x) = {}
    BY <1>2, <1>3, <1>4 DEF CallIsSound, Holding
  <1>6. UNCHANGED <<memory, indexed, deleted, excused>> /\ indexFaults' \in 0..MaxIndexFaults
    BY DEF BeginCreate, StoresKept, MemoryInv, MemoryTablesOK
  <1>7. MemoryGoes(r, x)
    BY <1>1
  <1> HIDE DEF x
  <1> QED
    BY <1>3, <1>4, <1>5, <1>6, <1>7, CallGoesOn

LEMMA BeginChangeKeeps ==
  ASSUME MemoryInv, NEW r \in MemoryRequests, NEW m \in Memories, BeginChange(r, m)
  PROVE  MemoryInv'
  <1>1. PICK op \in {"update", "delete"} : MemoryGoes(r, [Unasked EXCEPT !.op = op, !.at = "loaded", !.item = {m}])
    BY DEF BeginChange
  <1> DEFINE x == [Unasked EXCEPT !.op = op, !.at = "loaded", !.item = {m}]
  <1>2. /\ x \in MemoryCalls /\ x.op = op /\ x.at = "loaded" /\ x.item = {m} /\ x.old = {}
        /\ x.gone = {} /\ x.found = {}
    BY DEF Unasked, MemoryCalls
  <1>3. memory[m] # "absent"
    BY DEF BeginChange, Loadable
  <1>4. CallIsSound(x, memory, indexed, deleted, excused) /\ Holding(x) = {}
    BY <1>2, <1>3 DEF CallIsSound, Holding
  <1>5. \A q \in MemoryRequests : memoryCall[q].op = "create" => x.item \cap memoryCall[q].item = {}
    BY <1>2, <1>3 DEF MemoryInv, CallIsSound
  <1>6. UNCHANGED <<memory, indexed, deleted, excused>> /\ indexFaults' \in 0..MaxIndexFaults
    BY DEF BeginChange, StoresKept, MemoryInv, MemoryTablesOK
  <1>7. MemoryGoes(r, x)
    BY <1>1
  <1> HIDE DEF x
  <1> QED
    BY <1>2, <1>4, <1>5, <1>6, <1>7, CallGoesOn

(* What a request has taken and asked for stays with it.                   *)
LEMMA CallOf ==
  ASSUME MemoryInv, NEW r \in MemoryRequests
  PROVE  /\ memoryCall[r] \in MemoryCalls
         /\ CallIsSound(memoryCall[r], memory, indexed, deleted, excused)
         /\ \A q \in MemoryRequests \ {r} :
               /\ CallIsSound(memoryCall[q], memory, indexed, deleted, excused)
               /\ Holding(memoryCall[r]) \cap Holding(memoryCall[q]) = {}
               /\ memoryCall[r].op = "create" \/ memoryCall[q].op = "create" =>
                     memoryCall[r].item \cap memoryCall[q].item = {}
         /\ DeletedStayOut(memory, indexed, deleted, excused)
         /\ memory \in [Memories -> {"absent", "active", "superseded", "deleted"}]
         /\ indexed \subseteq Memories /\ deleted \subseteq Memories /\ excused \subseteq Memories
         /\ indexFaults \in 0..MaxIndexFaults
  BY DEF MemoryInv, MemoryTablesOK, RowsAreHeldOnce

LEMMA FlushKeeps ==
  ASSUME MemoryInv, NEW r \in MemoryRequests, Flush(r)
  PROVE  MemoryInv'
  <1> DEFINE c == memoryCall[r]
             x == [c EXCEPT !.at = "flushed"]
             pardoned == excused \cup IF c.op = "update" THEN c.item \cap deleted ELSE {}
  <1>1. c.at = "loaded" /\ MemoryGoes(r, x) /\ excused' = pardoned
        /\ UNCHANGED <<memory, indexed, deleted, indexFaults>>
        /\ \A q \in MemoryRequests \ {r} : Holding(memoryCall[q]) \cap (c.item \cup c.old) = {}
    BY DEF Flush, Held, Holding
  <1>2. /\ x \in MemoryCalls /\ x.at = "flushed" /\ x.op = c.op /\ x.item = c.item /\ x.old = c.old
        /\ x.found = c.found /\ x.gone = c.gone /\ c.item \subseteq Memories
    BY CallOf DEF MemoryCalls
  <1>3. excused \subseteq excused' /\ excused' \subseteq Memories
    BY <1>1, <1>2, CallOf
  <1>4. CallIsSound(x, memory', indexed', deleted', excused')
    BY <1>1, <1>2, CallOf DEF CallIsSound
  <1>5. \A q \in MemoryRequests \ {r} : CallIsSound(memoryCall[q], memory', indexed', deleted', excused')
    BY <1>1, <1>3, CallOf DEF CallIsSound
  <1>6. DeletedStayOut(memory', indexed', deleted', excused')
    BY <1>1, <1>3, CallOf DEF DeletedStayOut
  <1>7. \A q \in MemoryRequests \ {r} :
            /\ Holding(x) \cap Holding(memoryCall[q]) = {}
            /\ x.op = "create" \/ memoryCall[q].op = "create" => x.item \cap memoryCall[q].item = {}
    BY <1>1, <1>2, CallOf DEF Holding
  <1> HIDE DEF x, pardoned
  <1> QED
    BY <1>1, <1>2, <1>3, <1>4, <1>5, <1>6, <1>7, CallOf, MemoryGoesOn

LEMMA CallIndexKeeps ==
  ASSUME MemoryInv, NEW r \in MemoryRequests, CallIndex(r)
  PROVE  MemoryInv'
  <1> DEFINE c == memoryCall[r]
             x == [c EXCEPT !.at = "called"]
  <1>1. /\ c.at = "flushed" /\ MemoryGoes(r, x) /\ UNCHANGED <<memory, deleted, excused, indexFaults>>
        /\ indexed' = IF c.op = "delete" THEN indexed \ c.item ELSE indexed \cup c.item
    BY DEF CallIndex
  <1>2. /\ x \in MemoryCalls /\ x.at = "called" /\ x.op = c.op /\ x.item = c.item /\ x.old = c.old
        /\ x.found = c.found /\ x.gone = c.gone /\ c.item \subseteq Memories
    BY CallOf DEF MemoryCalls
  <1>3. CallIsSound(x, memory', indexed', deleted', excused')
    BY <1>1, <1>2, CallOf DEF CallIsSound
  <1>4. ASSUME NEW q \in MemoryRequests \ {r}
        PROVE  CallIsSound(memoryCall[q], memory', indexed', deleted', excused')
    <2>1. memoryCall[q].at = "called" => memoryCall[q].item \cap c.item = {}
      BY <1>1, CallOf DEF Holding
    <2> QED
      BY <1>1, <2>1, CallOf DEF CallIsSound
  <1>5. DeletedStayOut(memory', indexed', deleted', excused')
    <2>1. c.op # "delete" => c.item \cap deleted \subseteq excused
      BY <1>1, CallOf DEF CallIsSound, DeletedStayOut
    <2> QED
      BY <1>1, <2>1, CallOf DEF DeletedStayOut
  <1>6. \A q \in MemoryRequests \ {r} :
            /\ Holding(x) \cap Holding(memoryCall[q]) = {}
            /\ x.op = "create" \/ memoryCall[q].op = "create" => x.item \cap memoryCall[q].item = {}
    BY <1>1, <1>2, CallOf DEF Holding
  <1>7. indexed' \subseteq Memories
    BY <1>1, <1>2, CallOf
  <1> HIDE DEF x
  <1> QED
    BY <1>1, <1>2, <1>3, <1>4, <1>5, <1>6, <1>7, CallOf, MemoryGoesOn

LEMMA CallFailsKeeps ==
  ASSUME MemoryInv, NEW r \in MemoryRequests, CallFails(r)
  PROVE  MemoryInv'
  <1> DEFINE c == memoryCall[r]
             x == [c EXCEPT !.at = "called"]
  <1>1. /\ c.at = "flushed" /\ MemoryGoes(r, x) /\ UNCHANGED <<memory, indexed, deleted>>
        /\ excused' = excused \cup IF c.op = "delete" THEN c.item ELSE {}
        /\ indexFaults' = indexFaults + 1 /\ indexFaults < MaxIndexFaults
    BY DEF CallFails
  <1>2. /\ x \in MemoryCalls /\ x.at = "called" /\ x.op = c.op /\ x.item = c.item /\ x.old = c.old
        /\ x.found = c.found /\ x.gone = c.gone /\ c.item \subseteq Memories
    BY CallOf DEF MemoryCalls
  <1>3. excused \subseteq excused' /\ excused' \subseteq Memories /\ indexFaults' \in 0..MaxIndexFaults
    BY <1>1, <1>2, CallOf, MemoryAssumption
  <1>4. CallIsSound(x, memory', indexed', deleted', excused')
    BY <1>1, <1>2, CallOf DEF CallIsSound
  <1>5. \A q \in MemoryRequests \ {r} : CallIsSound(memoryCall[q], memory', indexed', deleted', excused')
    BY <1>1, <1>3, CallOf DEF CallIsSound
  <1>6. DeletedStayOut(memory', indexed', deleted', excused')
    BY <1>1, <1>3, CallOf DEF DeletedStayOut
  <1>7. \A q \in MemoryRequests \ {r} :
            /\ Holding(x) \cap Holding(memoryCall[q]) = {}
            /\ x.op = "create" \/ memoryCall[q].op = "create" => x.item \cap memoryCall[q].item = {}
    BY <1>1, <1>2, CallOf DEF Holding
  <1> HIDE DEF x
  <1> QED
    BY <1>1, <1>2, <1>3, <1>4, <1>5, <1>6, <1>7, CallOf, MemoryGoesOn

LEMMA CommitMemoryKeeps ==
  ASSUME MemoryInv, NEW r \in MemoryRequests, CommitMemory(r)
  PROVE  MemoryInv'
  <1> DEFINE c == memoryCall[r]
  <1>1. /\ c.at = "called" /\ MemoryGoes(r, Unasked) /\ UNCHANGED <<indexed, excused, indexFaults>>
        /\ memory' = [m \in Memories |-> IF m \in c.old THEN "superseded"
                                         ELSE IF m \in c.item /\ c.op = "create" THEN "active"
                                         ELSE IF m \in c.item /\ c.op = "delete" THEN "deleted" ELSE memory[m]]
        /\ deleted' = deleted \cup IF c.op = "delete" THEN c.item ELSE {}
    BY DEF CommitMemory
  <1>2. c \in MemoryCalls /\ c.item \subseteq Memories /\ c.old \subseteq Memories
    BY CallOf DEF MemoryCalls
  <1> HIDE DEF c
  <1>3. /\ memory' \in [Memories -> {"absent", "active", "superseded", "deleted"}]
        /\ deleted' \subseteq Memories /\ deleted \subseteq deleted'
    BY <1>1, <1>2, CallOf
  <1>4. CallIsSound(c, memory, indexed, deleted, excused)
    BY CallOf DEF c
  <1>5. \A m \in Memories : memory'[m] = "absent" <=> memory[m] = "absent" /\ ~(m \in c.item /\ c.op = "create")
    BY <1>1, <1>4 DEF CallIsSound
  <1>6. CallIsSound(Unasked, memory', indexed', deleted', excused')
    BY UnaskedIsSound DEF CallIsSound, Unasked
  <1>7. ASSUME NEW q \in MemoryRequests \ {r}
        PROVE  CallIsSound(memoryCall[q], memory', indexed', deleted', excused')
    <2> DEFINE d == memoryCall[q]
    <2>1. /\ d \in MemoryCalls /\ CallIsSound(d, memory, indexed, deleted, excused)
          /\ c.op = "create" => c.item \cap d.item = {}
          /\ d.at \in {"flushed", "called"} => c.item \cap d.item = {}
      BY <1>1, CallOf DEF c, Holding
    <2>2. d.item \subseteq Memories /\ d.old \subseteq Memories
      BY <2>1 DEF MemoryCalls
    <2> HIDE DEF d
    <2>3. \A m \in d.item : memory'[m] = "absent" <=> memory[m] = "absent"
      BY <1>5, <2>1, <2>2
    <2>4. \A m \in d.old : memory'[m] # "absent"
      BY <1>5, <2>1, <2>2 DEF CallIsSound
    <2>5. d.op = "update" /\ d.at \in {"flushed", "called"} => d.item \cap deleted' \subseteq excused
      BY <1>1, <2>1 DEF CallIsSound
    <2>6. CallIsSound(d, memory', indexed', deleted', excused')
      BY <1>1, <1>3, <2>1, <2>3, <2>4, <2>5 DEF CallIsSound
    <2> QED
      BY <2>6 DEF d
  <1>8. DeletedStayOut(memory', indexed', deleted', excused')
    <2>1. \A m \in deleted' : memory'[m] \notin {"absent", "active"}
      BY <1>1, <1>2, <1>4, CallOf DEF CallIsSound, DeletedStayOut
    <2>2. indexed' \cap deleted' \subseteq excused'
      BY <1>1, <1>4, CallOf DEF CallIsSound, DeletedStayOut
    <2> QED
      BY <2>1, <2>2 DEF DeletedStayOut
  <1> QED
    BY <1>1, <1>3, <1>6, <1>7, <1>8, CallOf, UnaskedIsSound, MemoryGoesOn

(* Whatever it was doing, a request may end; the stores stay.              *)
LEMMA EndingKeeps ==
  ASSUME MemoryInv, NEW r \in MemoryRequests, AbortMemory(r) \/ EndSearch(r)
  PROVE  MemoryInv'
  <1>1. /\ MemoryGoes(r, Unasked) /\ UNCHANGED <<memory, indexed, deleted, excused>>
        /\ indexFaults' = indexFaults \/ (indexFaults' = indexFaults + 1 /\ indexFaults < MaxIndexFaults)
    BY DEF AbortMemory, EndSearch, StoresKept
  <1>2. indexFaults' \in 0..MaxIndexFaults
    BY <1>1, CallOf, MemoryAssumption
  <1> QED
    BY <1>1, <1>2, UnaskedIsSound, CallGoesOn

LEMMA SearchVectorsKeeps ==
  ASSUME MemoryInv, NEW r \in MemoryRequests, SearchVectors(r)
  PROVE  MemoryInv'
  <1>1. PICK hits \in SUBSET indexed :
          MemoryGoes(r, [Unasked EXCEPT !.op = "search", !.at = "hits", !.found = hits, !.gone = deleted])
    BY DEF SearchVectors
  <1> DEFINE x == [Unasked EXCEPT !.op = "search", !.at = "hits", !.found = hits, !.gone = deleted]
  <1>2. UNCHANGED <<memory, indexed, deleted, excused, indexFaults>>
    BY DEF SearchVectors, StoresKept
  <1>3. hits \in SUBSET Memories /\ deleted \in SUBSET Memories
    BY CallOf
  <1>4. /\ x \in MemoryCalls /\ x.op = "search" /\ x.at = "hits" /\ x.item = {} /\ x.old = {} /\ x.gone = deleted
    BY <1>3 DEF Unasked, MemoryCalls
  <1>5. CallIsSound(x, memory, indexed, deleted, excused) /\ Holding(x) = {}
    BY <1>4 DEF CallIsSound, Holding
  <1>6. MemoryGoes(r, x)
    BY <1>1
  <1> HIDE DEF x
  <1> QED
    BY <1>2, <1>4, <1>5, <1>6, CallOf, CallGoesOn

LEMMA SelectRowsKeeps ==
  ASSUME MemoryInv, NEW r \in MemoryRequests, SelectRows(r)
  PROVE  MemoryInv'
  <1>1. PICK rows \in SUBSET ActiveRows : MemoryGoes(r, [memoryCall[r] EXCEPT !.at = "answered", !.found = rows])
    BY DEF SelectRows
  <1> DEFINE c == memoryCall[r]
             x == [c EXCEPT !.at = "answered", !.found = rows]
  <1>2. UNCHANGED <<memory, indexed, deleted, excused, indexFaults>> /\ c.at = "hits"
    BY DEF SelectRows, StoresKept
  <1>3. rows \in SUBSET Memories /\ rows \cap deleted = {}
    BY CallOf DEF ActiveRows, DeletedStayOut
  <1>4. /\ x \in MemoryCalls /\ x.op = c.op /\ x.at = "answered" /\ x.item = c.item /\ x.old = c.old
        /\ x.gone = c.gone /\ x.found = rows
    BY <1>3, CallOf DEF MemoryCalls
  <1>5. CallIsSound(x, memory, indexed, deleted, excused) /\ Holding(x) = {}
    BY <1>3, <1>4, CallOf DEF CallIsSound, Holding
  <1>6. MemoryGoes(r, x)
    BY <1>1
  <1> HIDE DEF x
  <1> QED
    BY <1>2, <1>4, <1>5, <1>6, CallOf, CallGoesOn

LEMMA MemoryStep == MemoryInv /\ [MemoryNext]_memoryVars => MemoryInv'
  <1> SUFFICES ASSUME MemoryInv, [MemoryNext]_memoryVars  PROVE MemoryInv'
    OBVIOUS
  <1>1. ASSUME NEW r \in MemoryRequests, NEW m \in Memories, BeginCreate(r, m) \/ BeginChange(r, m)
        PROVE  MemoryInv'
    BY <1>1, BeginCreateKeeps, BeginChangeKeeps
  <1>2. ASSUME NEW r \in MemoryRequests, Flush(r) \/ CallIndex(r) \/ CallFails(r) \/ CommitMemory(r)
        PROVE  MemoryInv'
    BY <1>2, FlushKeeps, CallIndexKeeps, CallFailsKeeps, CommitMemoryKeeps
  <1>3. ASSUME NEW r \in MemoryRequests, AbortMemory(r) \/ SearchVectors(r) \/ SelectRows(r) \/ EndSearch(r)
        PROVE  MemoryInv'
    BY <1>3, EndingKeeps, SearchVectorsKeeps, SelectRowsKeeps
  <1>4. CASE UNCHANGED memoryVars
    BY <1>4 DEF memoryVars, MemoryInv, MemoryTablesOK, RowsAreHeldOnce
  <1> QED
    BY <1>1, <1>2, <1>3, <1>4 DEF MemoryNext

(* A memory whose deletion has committed is shown by no search that begins *)
(* afterwards, and has no point unless the index failed or an update was   *)
(* flushed over the deletion (delete_memory, update_memory, search), for   *)
(* any number of memories, requests and failures.                          *)
THEOREM DeletedMemoriesStayGone == MemorySpec => []DeletionIsFinal
  <1>1. MemoryInv => DeletionIsFinal
    BY DEF MemoryInv, CallIsSound, DeletedStayOut, DeletionIsFinal
  <1> QED
    BY <1>1, MemoryInitInv, MemoryStep, PTL DEF MemorySpec
-----------------------------------------------------------------------------
(***************************************************************************)
(* Refresh tokens form chains, and a revocation is complete, for any       *)
(* number of requests, tokens and logins.  The argument has two halves:    *)
(* the row lock makes a token be rotated while it is live and by one       *)
(* request; and a sweep that has picked its rows misses only those that a  *)
(* rotation inserts behind its back, which `raced' remembers.              *)
(***************************************************************************)
Rows == [family : 0..MaxFamilies, from : 0..MaxTokens, revoked : BOOLEAN]
Works == [at : {"idle", "present", "rotate", "leave", "sweep"}, token : 0..MaxTokens,
          targets : SUBSET Tokens, locked : SUBSET Tokens, reuse : BOOLEAN]

TablesOK ==
    /\ tokens \in [Tokens -> Rows]
    /\ auth \in [AuthRequests -> Works]
    /\ raced \subseteq Families

LocksAreExclusive ==
    \A r, q \in AuthRequests : q # r => auth[q].locked \cap auth[r].locked = {}

(* What a request holds exists; a token about to be rotated is live and    *)
(* locked.                                                                 *)
Sound(x) ==
    /\ x.at \in {"present", "rotate", "leave"} \/ x.reuse => x.token \in Issued
    /\ x.targets \cup x.locked \subseteq Issued
    /\ x.at = "rotate" => ~tokens[x.token].revoked /\ x.token \in x.locked
WorkIsSound == \A r \in AuthRequests : Sound(auth[r])

(* A token that was rotated is revoked.                                    *)
Lineage ==
    \A u \in Issued : tokens[u].from # NoToken =>
       tokens[u].from \in Issued /\ tokens[tokens[u].from].revoked

(* Families are numbered from 1, so that their count is the last.          *)
UsedFamilies == {tokens[u].family : u \in Issued}
Numbered == \E k \in Nat : UsedFamilies = 1..k

(* A sweep under way has picked every live token of the families it is     *)
(* after, but for those of raced families.                                 *)
Condemned(x) == x.targets \cup IF x.reuse THEN {x.token} ELSE {}
Complete(x) ==
    x.at = "sweep" =>
       \A t \in Condemned(x), u \in Live :
          tokens[u].family = tokens[t].family /\ tokens[t].family \notin raced => u \in x.targets
SweepsAreComplete == \A r \in AuthRequests : Complete(auth[r])

AuthInv ==
    /\ TablesOK /\ LocksAreExclusive /\ WorkIsSound /\ Lineage /\ Numbered
    /\ SweepsAreComplete /\ FamiliesAreChains
-----------------------------------------------------------------------------
LEMMA AuthInitInv == AuthInit => AuthInv
  <1> SUFFICES ASSUME AuthInit  PROVE AuthInv
    OBVIOUS
  <1>1. Issued = {} /\ Live = {} /\ UsedFamilies = {}
    BY DEF AuthInit, Issued, Live, UsedFamilies, Unissued
  <1>2. TablesOK
    <2>1. 0 \in 0..MaxFamilies /\ 0 \in 0..MaxTokens
      BY AuthAssumption
    <2>2. Unissued \in Rows /\ Quiet \in Works
      BY <2>1 DEF Unissued, Rows, Quiet, Works, NoToken
    <2> QED
      BY <2>2 DEF AuthInit, TablesOK
  <1>3. LocksAreExclusive /\ WorkIsSound /\ SweepsAreComplete
    BY <1>1 DEF AuthInit, LocksAreExclusive, WorkIsSound, SweepsAreComplete, Sound, Complete, Quiet
  <1>4. Lineage /\ FamiliesAreChains
    BY <1>1 DEF Lineage, FamiliesAreChains
  <1>5. Numbered
    <2>1. 1..0 = {}
      OBVIOUS
    <2> QED
      BY <1>1, <2>1 DEF Numbered
  <1> QED
    BY <1>2, <1>3, <1>4, <1>5 DEF AuthInv

(* The family a login takes is new, and follows the last.                  *)
LEMMA NewFamily ==
  ASSUME TablesOK, Numbered
  PROVE  /\ Cardinality(UsedFamilies) + 1 \notin UsedFamilies
         /\ \E k \in Nat : UsedFamilies \cup {Cardinality(UsedFamilies) + 1} = 1..k
  <1>1. PICK k \in Nat : UsedFamilies = 1..k
    BY DEF Numbered
  <1>2. Cardinality(1..k) = k
    BY <1>1, FS_Interval
  <1>3. (1..k) \cup {k + 1} = 1..(k + 1) /\ k + 1 \notin 1..k
    BY <1>1
  <1> QED
    BY <1>1, <1>2, <1>3

(* What the steps do to the rows.                                          *)
Inserts(new, f, t) ==
    /\ new \in Tokens \ Issued
    /\ tokens'[new].family = f /\ tokens'[new].from = t /\ ~tokens'[new].revoked
KeepsRow(u) ==
    /\ tokens'[u].family = tokens[u].family /\ tokens'[u].from = tokens[u].from
    /\ tokens[u].revoked => tokens'[u].revoked

LEMMA LoginRows ==
  ASSUME AuthInv, NEW t \in Tokens, Login(t)
  PROVE  /\ Inserts(t, Cardinality(UsedFamilies) + 1, NoToken)
         /\ Cardinality(UsedFamilies) + 1 \in Families
         /\ \A u \in Tokens : u # t => tokens'[u] = tokens[u]
         /\ tokens' \in [Tokens -> Rows]
         /\ auth' = auth /\ raced' = raced
  <1>1. PICK f \in Families :
          /\ f = Cardinality(UsedFamilies) + 1
          /\ tokens' = [tokens EXCEPT ![t] = [Unissued EXCEPT !.family = f]]
    BY DEF Login, UsedFamilies
  <1>2. t \in Tokens \ Issued /\ auth' = auth /\ raced' = raced
    BY DEF Login
  <1>3. f \in 0..MaxFamilies /\ NoToken \in 0..MaxTokens
    BY AuthAssumption DEF Families, NoToken
  <1>4. /\ [Unissued EXCEPT !.family = f] \in Rows
        /\ [Unissued EXCEPT !.family = f].family = f
        /\ [Unissued EXCEPT !.family = f].from = NoToken
        /\ ~[Unissued EXCEPT !.family = f].revoked
    BY <1>3 DEF Unissued, Rows
  <1>5. tokens \in [Tokens -> Rows]
    BY DEF AuthInv, TablesOK
  <1>6. tokens' \in [Tokens -> Rows]
    BY <1>1, <1>4, <1>5
  <1> QED
    BY <1>1, <1>2, <1>4, <1>5, <1>6 DEF Inserts

LEMMA RotateRows ==
  ASSUME AuthInv, NEW r \in AuthRequests, NEW new \in Tokens, Rotate(r, new),
         NEW t, t = auth[r].token
  PROVE  /\ t \in Live /\ t \in auth[r].locked
         /\ Inserts(new, tokens[t].family, t)
         /\ \A u \in Tokens : u # new => KeepsRow(u)
         /\ \A u \in Tokens : u \notin {t, new} => tokens'[u] = tokens[u]
         /\ tokens'[t].revoked
         /\ tokens' \in [Tokens -> Rows]
  <1>1. t \in Live /\ t \in auth[r].locked /\ t \in Tokens /\ new \notin Issued /\ t # new
    BY DEF Rotate, AuthInv, WorkIsSound, Sound, Live, Issued
  <1>2. tokens \in [Tokens -> Rows]
    BY DEF AuthInv, TablesOK
  <1>3. tokens' = [Revokes({t}) EXCEPT ![new] = [family |-> tokens[t].family, from |-> t, revoked |-> FALSE]]
    BY DEF Rotate
  <1>4. Revokes({t}) \in [Tokens -> Rows]
        /\ \A u \in Tokens : /\ Revokes({t})[u].family = tokens[u].family
                             /\ Revokes({t})[u].from = tokens[u].from
                             /\ Revokes({t})[u].revoked = (tokens[u].revoked \/ u = t)
                             /\ u # t => Revokes({t})[u] = tokens[u]
    BY <1>2 DEF Revokes, Rows
  <1>5. [family |-> tokens[t].family, from |-> t, revoked |-> FALSE] \in Rows
    BY <1>1, <1>2 DEF Rows, Tokens
  <1>6. tokens' \in [Tokens -> Rows]
    BY <1>1, <1>3, <1>4, <1>5
  <1> QED
    BY <1>1, <1>3, <1>4, <1>6 DEF Inserts, KeepsRow

LEMMA RevokeRows ==
  ASSUME AuthInv, NEW rows \in SUBSET Tokens, tokens' = Revokes(rows)
  PROVE  /\ \A u \in Tokens : KeepsRow(u) /\ (tokens'[u].revoked <=> tokens[u].revoked \/ u \in rows)
         /\ tokens' \in [Tokens -> Rows]
  <1>1. tokens \in [Tokens -> Rows]
    BY DEF AuthInv, TablesOK
  <1>2. \A u \in Tokens : /\ tokens'[u] \in Rows
                          /\ tokens'[u].family = tokens[u].family
                          /\ tokens'[u].from = tokens[u].from
                          /\ tokens'[u].revoked = (tokens[u].revoked \/ u \in rows)
    BY <1>1 DEF Revokes, Rows
  <1> QED
    BY <1>2 DEF KeepsRow, Revokes
-----------------------------------------------------------------------------
(* A request that changes only what it holds itself.                       *)
LEMMA TokenMoves ==
  ASSUME AuthInv, NEW r \in AuthRequests, NEW x \in Works, AuthGoes(r, x),
         UNCHANGED <<tokens, raced>>, Unlocked(r, x.locked), Sound(x), Complete(x)
  PROVE  AuthInv'
  <1>1. /\ auth' \in [AuthRequests -> Works] /\ auth'[r] = x
        /\ \A q \in AuthRequests \ {r} : auth'[q] = auth[q]
    BY DEF AuthInv, TablesOK, AuthGoes
  <1>2. Issued' = Issued /\ Live' = Live
    BY DEF Issued, Live
  <1>3. TablesOK'
    BY <1>1 DEF AuthInv, TablesOK
  <1>4. LocksAreExclusive'
    BY <1>1 DEF AuthInv, LocksAreExclusive, Unlocked
  <1>5. WorkIsSound'
    <2> SUFFICES ASSUME NEW q \in AuthRequests  PROVE Sound(auth[q])'
      BY DEF WorkIsSound
    <2>1. CASE q = r
      BY <2>1, <1>1, <1>2 DEF Sound
    <2>2. CASE q # r
      BY <2>2, <1>1, <1>2 DEF Sound, AuthInv, WorkIsSound
    <2> QED
      BY <2>1, <2>2
  <1>6. SweepsAreComplete'
    <2> SUFFICES ASSUME NEW q \in AuthRequests  PROVE Complete(auth[q])'
      BY DEF SweepsAreComplete
    <2>1. CASE q = r
      BY <2>1, <1>1, <1>2 DEF Complete, Condemned
    <2>2. CASE q # r
      BY <2>2, <1>1, <1>2 DEF Complete, Condemned, AuthInv, SweepsAreComplete
    <2> QED
      BY <2>1, <2>2
  <1>7. Lineage' /\ FamiliesAreChains'
    BY <1>2 DEF AuthInv, Lineage, FamiliesAreChains
  <1>8. Numbered'
    BY <1>2 DEF AuthInv, Numbered, UsedFamilies
  <1> QED
    BY <1>3, <1>4, <1>5, <1>6, <1>7, <1>8 DEF AuthInv

LEMMA QuietIsSound ==
  /\ Quiet \in Works /\ Quiet.locked = {} /\ Sound(Quiet) /\ Complete(Quiet)
  <1>1. Quiet \in Works
    BY AuthAssumption DEF Quiet, Works, NoToken
  <1> QED
    BY <1>1 DEF Quiet, Sound, Complete

LEMMA PresentKeeps ==
  ASSUME AuthInv, NEW r \in AuthRequests, NEW t \in Tokens, Present(r, t)
  PROVE  AuthInv'
  <1>1. PICK at \in {"present", "leave"} : AuthGoes(r, [Quiet EXCEPT !.at = at, !.token = t])
    BY DEF Present
  <1> DEFINE x == [Quiet EXCEPT !.at = at, !.token = t]
  <1>2. t \in Issued /\ UNCHANGED <<tokens, raced>> /\ t \in 0..MaxTokens
    BY AuthAssumption DEF Present, Tokens
  <1>3. x \in Works /\ x.at = at /\ x.token = t /\ x.targets = {} /\ x.locked = {} /\ ~x.reuse
    BY <1>2, QuietIsSound DEF Works, Quiet
  <1>4. Sound(x) /\ Complete(x) /\ Unlocked(r, x.locked)
    BY <1>2, <1>3 DEF Sound, Complete, Unlocked
  <1> HIDE DEF x
  <1> QED
    BY <1>1, <1>2, <1>3, <1>4, TokenMoves DEF x

LEMMA LockTokenKeeps ==
  ASSUME AuthInv, NEW r \in AuthRequests, LockToken(r)
  PROVE  AuthInv'
  <1> DEFINE t == auth[r].token
             family == FamilyOf(tokens[t].family) \cap Live
             x == [auth[r] EXCEPT !.at = "sweep", !.locked = {t}, !.reuse = TRUE, !.targets = family]
             y == [auth[r] EXCEPT !.at = "rotate", !.locked = {t}]
  <1>1. /\ auth[r].at = "present" /\ Unlocked(r, {t}) /\ UNCHANGED <<tokens, raced>>
        /\ \/ tokens[t].revoked /\ AuthGoes(r, x)
           \/ ~tokens[t].revoked /\ AuthGoes(r, y)
           \/ AuthGoes(r, Quiet)
    BY DEF LockToken
  <1>2. auth[r] \in Works /\ t \in Issued /\ t \in Tokens /\ Sound(auth[r])
    BY <1>1 DEF AuthInv, TablesOK, WorkIsSound, Sound, Issued
  <1>3. family \subseteq Live /\ family \subseteq Issued /\ family \in SUBSET Tokens
    BY DEF Live, Issued
  <1>4. CASE tokens[t].revoked /\ AuthGoes(r, x)
    <2>1. x \in Works /\ x.at = "sweep" /\ x.locked = {t} /\ x.reuse /\ x.targets = family /\ x.token = t
      BY <1>2, <1>3 DEF Works
    <2>2. Sound(x)
      BY <1>2, <1>3, <2>1 DEF Sound
    <2>3. Complete(x)
      <3> SUFFICES ASSUME NEW c \in Condemned(x), NEW u \in Live, tokens[u].family = tokens[c].family
                   PROVE  u \in family
        BY <2>1 DEF Complete
      <3>1. tokens[c].family = tokens[t].family
        BY <2>1 DEF Condemned, FamilyOf
      <3> QED
        BY <3>1 DEF FamilyOf, Live
    <2> HIDE DEF x
    <2> QED
      BY <1>1, <1>4, <2>1, <2>2, <2>3, TokenMoves
  <1>5. CASE ~tokens[t].revoked /\ AuthGoes(r, y)
    <2>1. y \in Works /\ y.at = "rotate" /\ y.locked = {t} /\ y.token = t /\ y.targets = auth[r].targets
      BY <1>2 DEF Works
    <2>2. Sound(y) /\ Complete(y)
      BY <1>2, <1>5, <2>1 DEF Sound, Complete
    <2> HIDE DEF y
    <2> QED
      BY <1>1, <1>5, <2>1, <2>2, TokenMoves
  <1>6. CASE AuthGoes(r, Quiet)
    <2>1. Unlocked(r, Quiet.locked)
      BY QuietIsSound DEF Unlocked
    <2> QED
      BY <1>1, <1>6, <2>1, QuietIsSound, TokenMoves
  <1> QED
    BY <1>1, <1>4, <1>5, <1>6

LEMMA SweepUserKeeps ==
  ASSUME AuthInv, NEW r \in AuthRequests, SweepUser(r)
  PROVE  AuthInv'
  <1> DEFINE x == [Quiet EXCEPT !.at = "sweep", !.targets = Live]
  <1>1. AuthGoes(r, x) /\ UNCHANGED <<tokens, raced>>
    BY DEF SweepUser
  <1>2. Live \subseteq Issued /\ Live \in SUBSET Tokens
    BY DEF Live, Issued
  <1>3. x \in Works /\ x.at = "sweep" /\ x.targets = Live /\ x.locked = {} /\ ~x.reuse
    BY <1>2, QuietIsSound DEF Works, Quiet
  <1>4. Sound(x) /\ Complete(x) /\ Unlocked(r, x.locked)
    BY <1>2, <1>3 DEF Sound, Complete, Unlocked
  <1> HIDE DEF x
  <1> QED
    BY <1>1, <1>3, <1>4, TokenMoves

LEMMA SweepRowKeeps ==
  ASSUME AuthInv, NEW r \in AuthRequests, NEW t \in Tokens, SweepRow(r, t)
  PROVE  AuthInv'
  <1> DEFINE x == [auth[r] EXCEPT !.locked = @ \cup {t}]
  <1>1. /\ AuthGoes(r, x) /\ UNCHANGED <<tokens, raced>>
        /\ auth[r].at = "sweep" /\ t \in auth[r].targets /\ Unlocked(r, {t})
    BY DEF SweepRow
  <1>2. auth[r] \in Works /\ Sound(auth[r]) /\ Complete(auth[r]) /\ Unlocked(r, auth[r].locked)
    BY DEF AuthInv, TablesOK, WorkIsSound, SweepsAreComplete, LocksAreExclusive, Unlocked
  <1>3. /\ x \in Works /\ x.at = auth[r].at /\ x.targets = auth[r].targets
        /\ x.locked = auth[r].locked \cup {t} /\ x.reuse = auth[r].reuse /\ x.token = auth[r].token
    BY <1>2 DEF Works
  <1>4. Sound(x) /\ Complete(x) /\ Unlocked(r, x.locked)
    BY <1>1, <1>2, <1>3 DEF Sound, Complete, Condemned, Unlocked
  <1> HIDE DEF x
  <1> QED
    BY <1>1, <1>3, <1>4, TokenMoves

LEMMA AbortAuthKeeps ==
  ASSUME AuthInv, NEW r \in AuthRequests, AbortAuth(r)
  PROVE  AuthInv'
  <1>1. AuthGoes(r, Quiet) /\ UNCHANGED <<tokens, raced>> /\ Unlocked(r, Quiet.locked)
    BY QuietIsSound DEF AbortAuth, Unlocked
  <1> QED
    BY <1>1, QuietIsSound, TokenMoves
-----------------------------------------------------------------------------
(* Revoking rows that no other request holds.                              *)
LEMMA Revoking ==
  ASSUME AuthInv, NEW r \in AuthRequests, NEW rows \in SUBSET Tokens, tokens' = Revokes(rows),
         AuthGoes(r, Quiet), UNCHANGED raced, Unlocked(r, rows)
  PROVE  AuthInv'
  <1>1. /\ \A u \in Tokens : KeepsRow(u) /\ (tokens'[u].revoked <=> tokens[u].revoked \/ u \in rows)
        /\ tokens' \in [Tokens -> Rows]
    BY RevokeRows
  <1>2. /\ auth' \in [AuthRequests -> Works] /\ auth'[r] = Quiet
        /\ \A q \in AuthRequests \ {r} : auth'[q] = auth[q]
    BY QuietIsSound DEF AuthInv, TablesOK, AuthGoes
  <1>3. Issued' = Issued /\ Live' = Live \ rows
    BY <1>1 DEF Issued, Live, KeepsRow
  <1>4. \A u \in Issued : u \in Tokens /\ tokens'[u].family = tokens[u].family
                                      /\ tokens'[u].from = tokens[u].from
    BY <1>1 DEF Issued, KeepsRow
  <1>5. TablesOK'
    BY <1>1, <1>2 DEF AuthInv, TablesOK
  <1>6. LocksAreExclusive'
    BY <1>2, QuietIsSound DEF AuthInv, LocksAreExclusive
  <1>7. WorkIsSound'
    <2> SUFFICES ASSUME NEW q \in AuthRequests  PROVE Sound(auth[q])'
      BY DEF WorkIsSound
    <2>1. CASE q = r
      BY <2>1, <1>2 DEF Sound, Quiet
    <2>2. CASE q # r
      <3>1. Sound(auth[q]) /\ auth'[q] = auth[q] /\ auth[q].locked \cap rows = {}
        BY <2>2, <1>2 DEF AuthInv, WorkIsSound, Unlocked
      <3>2. \A t \in Issued \cap auth[q].locked : ~tokens[t].revoked => ~tokens'[t].revoked
        BY <1>1, <1>4, <3>1
      <3> QED
        BY <1>3, <3>1, <3>2 DEF Sound
    <2> QED
      BY <2>1, <2>2
  <1>8. Lineage'
    BY <1>1, <1>3, <1>4 DEF AuthInv, Lineage
  <1>9. Numbered'
    <2>1. UsedFamilies' = UsedFamilies
      BY <1>3, <1>4 DEF UsedFamilies
    <2> QED
      BY <2>1 DEF AuthInv, Numbered
  <1>10. FamiliesAreChains'
    <2>1. Live' \subseteq Live /\ Live \subseteq Issued
      BY <1>3 DEF Live
    <2> QED
      BY <1>3, <1>4, <2>1 DEF AuthInv, FamiliesAreChains
  <1>11. SweepsAreComplete'
    <2> SUFFICES ASSUME NEW q \in AuthRequests  PROVE Complete(auth[q])'
      BY DEF SweepsAreComplete
    <2>1. CASE q = r
      BY <2>1, <1>2 DEF Complete, Quiet
    <2>2. CASE q # r
      <3>1. Complete(auth[q]) /\ Sound(auth[q]) /\ auth'[q] = auth[q]
        BY <2>2, <1>2 DEF AuthInv, WorkIsSound, SweepsAreComplete
      <3>2. Condemned(auth[q]) \subseteq Issued /\ Live' \subseteq Live /\ Live \subseteq Issued
        BY <1>3, <3>1 DEF Condemned, Sound, Live
      <3> QED
        BY <1>4, <3>1, <3>2 DEF Complete, Condemned
    <2> QED
      BY <2>1, <2>2
  <1> QED
    BY <1>5, <1>6, <1>7, <1>8, <1>9, <1>10, <1>11 DEF AuthInv

LEMMA LeaveKeeps ==
  ASSUME AuthInv, NEW r \in AuthRequests, Leave(r)
  PROVE  AuthInv'
  <1>1. auth[r].token \in Tokens
    BY DEF Leave, AuthInv, WorkIsSound, Sound, Issued
  <1> QED
    BY <1>1, Revoking DEF Leave

LEMMA SweepCommitsKeeps ==
  ASSUME AuthInv, NEW r \in AuthRequests, SweepCommits(r)
  PROVE  AuthInv'
  <1>1. auth[r].targets \in SUBSET Tokens
    BY DEF AuthInv, WorkIsSound, Sound, Issued
  <1>2. Unlocked(r, auth[r].targets)
    BY DEF SweepCommits, AuthInv, LocksAreExclusive, Unlocked
  <1> QED
    BY <1>1, <1>2, Revoking DEF SweepCommits

LEMMA LoginKeeps ==
  ASSUME AuthInv, NEW t \in Tokens, Login(t)
  PROVE  AuthInv'
  <1> DEFINE f == Cardinality(UsedFamilies) + 1
  <1>1. /\ Inserts(t, f, NoToken) /\ f \in Families
        /\ \A u \in Tokens : u # t => tokens'[u] = tokens[u]
        /\ tokens' \in [Tokens -> Rows]
        /\ auth' = auth /\ raced' = raced
    BY LoginRows
  <1>2. f \notin UsedFamilies /\ \E k \in Nat : UsedFamilies \cup {f} = 1..k
    BY NewFamily DEF AuthInv
  <1> HIDE DEF f
  <1>3. t \notin Issued /\ Issued' = Issued \cup {t} /\ Live' = Live \cup {t} /\ Live \subseteq Issued
    BY <1>1 DEF Inserts, Issued, Live, Families
  <1>4. \A u \in Issued : tokens'[u] = tokens[u] /\ tokens[u].family # f
    BY <1>1, <1>2, <1>3 DEF Issued, UsedFamilies
  <1>5. tokens'[t].family = f /\ tokens'[t].from = NoToken
    BY <1>1 DEF Inserts
  <1>6. TablesOK' /\ LocksAreExclusive'
    BY <1>1 DEF AuthInv, TablesOK, LocksAreExclusive
  <1>7. WorkIsSound'
    <2> SUFFICES ASSUME NEW q \in AuthRequests  PROVE Sound(auth[q])'
      BY DEF WorkIsSound
    <2> QED
      BY <1>1, <1>3, <1>4 DEF AuthInv, WorkIsSound, Sound
  <1>8. Lineage'
    BY <1>3, <1>4, <1>5 DEF AuthInv, Lineage
  <1>9. Numbered'
    <2>1. UsedFamilies' = UsedFamilies \cup {f}
      BY <1>3, <1>4, <1>5 DEF UsedFamilies
    <2> QED
      BY <1>2, <2>1 DEF Numbered
  <1>10. FamiliesAreChains'
    BY <1>3, <1>4, <1>5 DEF AuthInv, FamiliesAreChains
  <1>11. SweepsAreComplete'
    <2> SUFFICES ASSUME NEW q \in AuthRequests  PROVE Complete(auth[q])'
      BY DEF SweepsAreComplete
    <2>1. Complete(auth[q]) /\ Sound(auth[q]) /\ auth' = auth /\ raced' = raced
      BY <1>1 DEF AuthInv, WorkIsSound, SweepsAreComplete
    <2>2. Condemned(auth[q]) \subseteq Issued
      BY <2>1 DEF Condemned, Sound
    <2> QED
      BY <1>3, <1>4, <1>5, <2>1, <2>2 DEF Complete, Condemned
  <1> QED
    BY <1>6, <1>7, <1>8, <1>9, <1>10, <1>11 DEF AuthInv

LEMMA RotateKeeps ==
  ASSUME AuthInv, NEW r \in AuthRequests, NEW new \in Tokens, Rotate(r, new)
  PROVE  AuthInv'
  <1> DEFINE t == auth[r].token
             f == tokens[t].family
  <1>1. /\ t \in Live /\ t \in auth[r].locked
        /\ Inserts(new, f, t)
        /\ \A u \in Tokens : u # new => KeepsRow(u)
        /\ \A u \in Tokens : u \notin {t, new} => tokens'[u] = tokens[u]
        /\ tokens'[t].revoked
        /\ tokens' \in [Tokens -> Rows]
    BY RotateRows
  <1>2. /\ auth' \in [AuthRequests -> Works] /\ auth'[r] = Quiet
        /\ \A q \in AuthRequests \ {r} : auth'[q] = auth[q]
    BY QuietIsSound DEF AuthInv, TablesOK, AuthGoes, Rotate
  <1>3. raced' = raced \cup {g \in {f} : \E q \in AuthRequests : auth[q].at = "sweep" /\ t \in auth[q].targets}
    BY DEF Rotate
  <1>4. t \in Issued /\ t \in Tokens /\ f \in Families /\ t # NoToken
    BY <1>1 DEF Live, Issued, AuthInv, TablesOK, Rows, Families, Tokens, NoToken
  <1> HIDE DEF t, f
  <1>5. /\ new \notin Issued /\ Issued' = Issued \cup {new} /\ Live \subseteq Issued
        /\ Live' = (Live \ {t}) \cup {new}
    BY <1>1, <1>4 DEF Inserts, KeepsRow, Issued, Live, Families
  <1>6. \A u \in Issued : KeepsRow(u) /\ u \in Tokens /\ u # new
    BY <1>1, <1>5 DEF Issued
  <1>7. tokens'[new].family = f /\ tokens'[new].from = t
    BY <1>1 DEF Inserts
  <1>8. TablesOK'
    BY <1>1, <1>2, <1>3, <1>4 DEF AuthInv, TablesOK
  <1>9. LocksAreExclusive'
    BY <1>2, QuietIsSound DEF AuthInv, LocksAreExclusive
  <1>10. WorkIsSound'
    <2> SUFFICES ASSUME NEW q \in AuthRequests  PROVE Sound(auth[q])'
      BY DEF WorkIsSound
    <2>1. CASE q = r
      BY <2>1, <1>2 DEF Sound, Quiet
    <2>2. CASE q # r
      <3>1. Sound(auth[q]) /\ auth'[q] = auth[q] /\ t \notin auth[q].locked
        BY <2>2, <1>1, <1>2 DEF AuthInv, WorkIsSound, LocksAreExclusive
      <3>2. \A u \in Issued \cap auth[q].locked : tokens'[u] = tokens[u]
        BY <1>1, <1>6, <3>1
      <3> QED
        BY <1>5, <3>1, <3>2 DEF Sound
    <2> QED
      BY <2>1, <2>2
  <1>11. Lineage'
    BY <1>1, <1>4, <1>5, <1>6, <1>7 DEF AuthInv, Lineage, KeepsRow
  <1>12. Numbered'
    <2>1. f \in UsedFamilies
      BY <1>4 DEF UsedFamilies, f
    <2>2. UsedFamilies' = UsedFamilies
      BY <1>5, <1>6, <1>7, <2>1 DEF UsedFamilies, KeepsRow
    <2> QED
      BY <2>2 DEF AuthInv, Numbered
  <1>13. FamiliesAreChains'
    <2>1. \A u \in Issued : tokens[u].from # t
      BY <1>1, <1>4 DEF AuthInv, Lineage, Live
    <2>2. \A u \in Live : tokens[u].family = f => u = t
      BY <1>1 DEF AuthInv, FamiliesAreChains, f
    <2>3. ASSUME NEW u \in Issued', NEW w \in Issued',
                 tokens'[u].from = tokens'[w].from, tokens'[u].from # NoToken
          PROVE  u = w
      BY <1>5, <1>6, <1>7, <2>1, <2>3 DEF AuthInv, FamiliesAreChains, KeepsRow
    <2>4. ASSUME NEW u \in Live', NEW w \in Live', tokens'[u].family = tokens'[w].family
          PROVE  u = w
      BY <1>5, <1>6, <1>7, <2>2, <2>4 DEF AuthInv, FamiliesAreChains, KeepsRow
    <2> QED
      BY <2>3, <2>4 DEF FamiliesAreChains
  <1>14. SweepsAreComplete'
    <2> SUFFICES ASSUME NEW q \in AuthRequests  PROVE Complete(auth[q])'
      BY DEF SweepsAreComplete
    <2>1. CASE q = r
      BY <2>1, <1>2 DEF Complete, Quiet
    <2>2. CASE q # r
      <3>1. Complete(auth[q]) /\ Sound(auth[q]) /\ auth'[q] = auth[q]
        BY <2>2, <1>2 DEF AuthInv, WorkIsSound, SweepsAreComplete
      <3> SUFFICES ASSUME auth[q].at = "sweep", NEW c \in Condemned(auth[q]), NEW u \in Live',
                          tokens'[u].family = tokens'[c].family, tokens'[c].family \notin raced'
                   PROVE  u \in auth[q].targets
        BY <3>1 DEF Complete, Condemned
      <3>2. c \in Issued /\ tokens'[c].family = tokens[c].family
        BY <3>1, <1>6 DEF Condemned, Sound, KeepsRow
      <3>3. CASE u = new
        <4>1. tokens[t].family = tokens[c].family
          BY <1>7, <3>2, <3>3 DEF f
        <4>2. t \in auth[q].targets
          BY <1>1, <1>3, <3>1, <3>2, <4>1 DEF Complete
        <4>3. f \in raced'
          BY <1>3, <4>2
        <4> QED
          BY <4>1, <4>3, <3>2 DEF f
      <3>4. CASE u # new
        BY <1>3, <1>5, <1>6, <3>1, <3>2, <3>4 DEF Complete, KeepsRow
      <3> QED
        BY <3>3, <3>4
    <2> QED
      BY <2>1, <2>2
  <1> QED
    BY <1>8, <1>9, <1>10, <1>11, <1>12, <1>13, <1>14 DEF AuthInv

LEMMA AuthStep == AuthInv /\ [AuthNext]_authVars => AuthInv'
  <1> SUFFICES ASSUME AuthInv, [AuthNext]_authVars  PROVE AuthInv'
    OBVIOUS
  <1>1. CASE \E t \in Tokens : Login(t)
    BY <1>1, LoginKeeps
  <1>2. ASSUME NEW r \in AuthRequests, LockToken(r) \/ Leave(r) \/ SweepUser(r) \/ SweepCommits(r) \/ AbortAuth(r)
        PROVE  AuthInv'
    BY <1>2, LockTokenKeeps, LeaveKeeps, SweepUserKeeps, SweepCommitsKeeps, AbortAuthKeeps
  <1>3. ASSUME NEW r \in AuthRequests, NEW t \in Tokens, Present(r, t) \/ Rotate(r, t) \/ SweepRow(r, t)
        PROVE  AuthInv'
    BY <1>3, PresentKeeps, RotateKeeps, SweepRowKeeps
  <1>4. CASE UNCHANGED authVars
    <2>1. Issued' = Issued /\ Live' = Live /\ UsedFamilies' = UsedFamilies
      BY <1>4 DEF authVars, Issued, Live, UsedFamilies
    <2>2. TablesOK' /\ LocksAreExclusive' /\ Numbered'
      BY <1>4, <2>1 DEF authVars, AuthInv, TablesOK, LocksAreExclusive, Numbered
    <2>3. WorkIsSound' /\ Lineage' /\ SweepsAreComplete' /\ FamiliesAreChains'
      BY <1>4, <2>1 DEF authVars, AuthInv, WorkIsSound, Sound, Lineage, SweepsAreComplete, Complete,
                        Condemned, FamiliesAreChains
    <2> QED
      BY <2>2, <2>3 DEF AuthInv
  <1> QED
    BY <1>1, <1>2, <1>3, <1>4 DEF AuthNext

LEMMA AuthInvariant == AuthSpec => []AuthInv
  BY AuthInitInv, AuthStep, PTL DEF AuthSpec
-----------------------------------------------------------------------------
(* A token of a condemned family is either a target of the sweep, which    *)
(* revokes it, or of a family that was rotated meanwhile.                  *)
LEMMA SweepLeavesNothing ==
  AuthInv /\ [AuthNext]_authVars => RevocationIsComplete
  <1> SUFFICES ASSUME AuthInv, NEW r \in AuthRequests, SweepCommits(r),
                      NEW t \in Condemned(auth[r]), tokens[t].family \notin raced,
                      NEW u \in Live', tokens'[u].family = tokens[t].family
               PROVE  FALSE
    BY DEF RevocationIsComplete, Condemned
  <1>1. auth[r].at = "sweep" /\ tokens' = Revokes(auth[r].targets)
    BY DEF SweepCommits
  <1>2. auth[r].targets \in SUBSET Tokens
    BY DEF AuthInv, WorkIsSound, Sound, Issued
  <1>3. \A w \in Tokens : KeepsRow(w) /\ (tokens'[w].revoked <=> tokens[w].revoked \/ w \in auth[r].targets)
    BY <1>1, <1>2, RevokeRows
  <1>4. u \in Live /\ u \notin auth[r].targets /\ tokens[u].family = tokens[t].family
    BY <1>3 DEF Live, Issued, KeepsRow
  <1> QED
    BY <1>1, <1>4 DEF AuthInv, SweepsAreComplete, Complete

(* Every family is a chain with at most one live end, however many         *)
(* requests present its tokens at once, and a family that was given up has *)
(* no live token when the revocation commits, but for rotations under way  *)
(* (AuthService.refresh, logout_all, revoke_token_family).                 *)
THEOREM FamiliesStayInHand == AuthSpec => FamiliesHold
  <1>1. AuthInv /\ [AuthNext]_authVars => [FamiliesAreChains' /\ RevocationIsComplete]_authVars
    BY AuthStep, SweepLeavesNothing DEF AuthInv
  <1> QED
    BY <1>1, AuthInvariant, PTL DEF AuthSpec, FamiliesHold

(* The rows and the requests keep their types, a request holds and means   *)
(* to revoke only tokens that exist, and no row is held by two.            *)
THEOREM AuthTypes == AuthSpec => []AuthTypeOK
  <1>1. AuthInv => AuthTypeOK
    <2> SUFFICES ASSUME AuthInv  PROVE AuthTypeOK
      OBVIOUS
    <2>1. tokens \in [Tokens -> Rows] /\ raced \subseteq Families
      BY DEF AuthInv, TablesOK
    <2>2. ASSUME NEW r \in AuthRequests
          PROVE  /\ auth[r] \in Works /\ auth[r].locked \cup auth[r].targets \subseteq Issued
                 /\ \A q \in AuthRequests \ {r} : auth[q].locked \cap auth[r].locked = {}
      BY DEF AuthInv, TablesOK, WorkIsSound, Sound, LocksAreExclusive
    <2> QED
      BY <2>1, <2>2 DEF AuthTypeOK, Rows, Works
  <1> QED
    BY <1>1, AuthInvariant, PTL
-----------------------------------------------------------------------------
(***************************************************************************)
(* The walk of the catalog.                                                *)
(***************************************************************************)
SyncPlaces == {"new", "walking", "bumping", "writing", "aliasing", "done", "failed"}
Edge == Node \X Node \X Syncs
Walks ==
    [at : SyncPlaces, task : 1..(Len(Walk) + 1), chosen : [Objects -> Node \cup {NoObject}],
     nodes : SUBSET Node, edges : SUBSET Edge, aliases : SUBSET Node, seen : Nat, version : Nat]
Graphs == [nodes : SUBSET Node, edges : SUBSET Edge, aliases : SUBSET Node, version : Nat]

GraphTypes ==
    /\ graphRows \in Graphs /\ sync \in [Syncs -> Walks] /\ syncOverlap \in BOOLEAN
    /\ IsFiniteSet(graphRows.nodes) /\ IsFiniteSet(graphRows.edges)
    /\ \A s \in Syncs : IsFiniteSet(sync[s].nodes) /\ IsFiniteSet(sync[s].edges)

(* What a request sees: the graph g and the rows of its own walk x.        *)
NodesSeen(g, x) == g.nodes \cup x.nodes
Edges(g, x) == g.edges \cup x.edges
Aliases(g, x) == g.aliases \cup x.aliases
OnWay(x) == x.at \in {"walking", "bumping", "writing", "aliasing"}
Inserting(x) == x.at \in {"bumping", "writing"}

(* Rows hang together.                                                     *)
Joined(arcs, nodes) == \A e \in arcs : e[1] \in nodes /\ e[2] \in nodes

(* What a visit leaves behind.                                             *)
Left(i, nodes, arcs, aliases) ==
    /\ \E n \in nodes : n[1] = Walk[i].object
    /\ Walk[i].other # NoObject => \E e \in arcs : {e[1][1], e[2][1]} = {Walk[i].object, Walk[i].other}
    /\ Walk[i].kind = "alias" => \E n \in aliases : n[1] = Walk[i].object

(* A node has come with its edge, and only from a visit to its object.     *)
Hung(nodes, arcs) ==
    \A n \in nodes, i \in DOMAIN Walk :
       Walk[i].kind = "node" /\ Walk[i].object = n[1] /\ Walk[i].other # NoObject =>
          \E e \in arcs : e[2] = n /\ e[1][1] = Walk[i].other
Visited(nodes, k) == \A n \in nodes : \E j \in 1..(k - 1) : Walk[j].kind = "node" /\ Walk[j].object = n[1]

(* A request that has written a row, but not the version: it is the only   *)
(* row it has written.                                                     *)
FirstRow(s, x) ==
    /\ x.version = 0 /\ x.task \in DOMAIN Walk
    /\ \/ /\ Walk[x.task].kind = "node" /\ x.edges = {}
          /\ x.nodes = {<<Walk[x.task].object, s>>} /\ x.chosen[Walk[x.task].object] = <<Walk[x.task].object, s>>
       \/ /\ Walk[x.task].kind = "link" /\ x.nodes = {}
          /\ \E e \in Edge : x.edges = {e} /\ e[1][1] = Walk[x.task].object /\ e[2][1] = Walk[x.task].other

(* What a request knows of the visits it has made.                         *)
Made(x, nodes, arcs, aliases) ==
    \A i \in 1..(x.task - 1) :
       /\ Left(i, nodes, arcs, aliases)
       /\ Walk[i].kind = "node" => x.chosen[Walk[i].object] \in nodes /\ x.chosen[Walk[i].object][1] = Walk[i].object
Uncommitted(s, g) == (\A n \in g.nodes : n[2] # s) /\ (\A e \in g.edges : e[3] # s)

(* The rows of a request are its own, and hang together with what it sees. *)
OwnRows(s, x, g) ==
    /\ \A n \in x.nodes : n[2] = s
    /\ \A e \in x.edges : e[3] = s
    /\ Joined(x.edges, NodesSeen(g, x)) /\ x.aliases \subseteq NodesSeen(g, x)

WalkHolds(s, x, g) ==
    /\ ~OnWay(x) => x.nodes = {} /\ x.edges = {} /\ x.aliases = {} /\ x.version = 0
    /\ OwnRows(s, x, g)
    /\ x.at # "done" => Uncommitted(s, g)
    /\ OnWay(x) => Made(x, NodesSeen(g, x), Edges(g, x), Aliases(g, x))
    /\ x.at \in {"walking", "aliasing"} =>
          /\ Hung(x.nodes, x.edges) /\ Visited(x.nodes, x.task)
          /\ x.version = 0 => x.nodes = {} /\ x.edges = {}
    /\ Inserting(x) => FirstRow(s, x)
    /\ x.at = "aliasing" =>
          /\ x.task \in DOMAIN Walk /\ Walk[x.task].kind = "alias"
          /\ x.chosen[Walk[x.task].object] \in NodesSeen(g, x)
          /\ x.chosen[Walk[x.task].object][1] = Walk[x.task].object

(* What a request has added to the graph, committed or not, whoever else   *)
(* may have added the same.                                                *)
NodeKey(n) == <<"node", n[1], n[1]>>
EdgeKey(e) == <<"edge", e[1], e[2]>>
Added(s, x, g) ==
    {NodeKey(n) : n \in {m \in NodesSeen(g, x) : m[2] = s}} \cup {EdgeKey(e) : e \in {f \in Edges(g, x) : f[3] = s}}
Single(S) == \A a, b \in S : a = b

(* Two requests doubled at most one thing, and do not both have the        *)
(* version row.                                                            *)
PairHolds(s, t, x, y, g) ==
    /\ Single(Added(s, x, g) \cap Added(t, y, g))
    /\ x.version = 0 \/ y.version = 0

(* Without overlap, one walk at a time: nothing is doubled, and versions   *)
(* count.                                                                  *)
Unique(nodes, arcs) ==
    /\ \A n, m \in nodes : n[1] = m[1] => n = m
    /\ \A e, f \in arcs : e[1] = f[1] /\ e[2] = f[2] => e = f
Counted(version, nodes, arcs) == version = 1 + Cardinality(nodes) + Cardinality(arcs)
AloneHolds(x, g) ==
    /\ Unique(NodesSeen(g, x), Edges(g, x))
    /\ x.version > 0 => NodesSeen(g, x) # {} /\ Counted(x.version, NodesSeen(g, x), Edges(g, x))
    /\ x.at = "writing" => x.seen = g.version

SyncInv ==
    /\ GraphTypes
    /\ Joined(graphRows.edges, graphRows.nodes) /\ graphRows.aliases \subseteq graphRows.nodes
    /\ Hung(graphRows.nodes, graphRows.edges)
    /\ \A s \in Syncs : WalkHolds(s, sync[s], graphRows)
    /\ \A s, t \in Syncs : s # t => PairHolds(s, t, sync[s], sync[t], graphRows)
    /\ (\E s \in Syncs : sync[s].at = "done") =>
          \A i \in DOMAIN Walk : Left(i, graphRows.nodes, graphRows.edges, graphRows.aliases)
    /\ ~syncOverlap =>
          /\ \A s, t \in Syncs : OnWay(sync[s]) /\ OnWay(sync[t]) => s = t
          /\ IF graphRows.nodes = {} THEN graphRows.version = 0
             ELSE Counted(graphRows.version, graphRows.nodes, graphRows.edges)
          /\ \A s \in Syncs : AloneHolds(sync[s], graphRows)
-----------------------------------------------------------------------------
LEMMA NodePairs ==
  /\ \A n \in Node : n[1] \in Objects /\ n[2] \in Syncs /\ n = <<n[1], n[2]>>
  /\ \A e \in Edge : e[1] \in Node /\ e[2] \in Node /\ e[3] \in Syncs /\ e = <<e[1], e[2], e[3]>>
  BY DEF Node, Edge

LEMMA SingleCounts == ASSUME NEW S, Single(S)
                      PROVE  IsFiniteSet(S) /\ Cardinality(S) \in Nat /\ Cardinality(S) <= 1
  <1>1. CASE S = {}
    BY <1>1, FS_EmptySet
  <1>2. ASSUME NEW x \in S  PROVE IsFiniteSet(S) /\ Cardinality(S) = 1
    <2>1. S = {x}
      BY DEF Single
    <2> QED
      BY <2>1, FS_Singleton
  <1> QED
    BY <1>1, <1>2

LEMMA WalkSteps ==
  /\ Len(Walk) \in Nat /\ DOMAIN Walk = 1..Len(Walk)
  /\ \A i \in DOMAIN Walk :
        /\ Walk[i].kind \in Kinds /\ Walk[i].object \in Objects /\ Walk[i].other \in Objects \cup {NoObject}
        /\ Walk[i].other # NoObject =>
              Walk[i].other \in Objects
              /\ \E j \in 1..(i - 1) : Walk[j].kind = "node" /\ Walk[j].object = Walk[i].other
        /\ Walk[i].kind # "node" => \E j \in 1..(i - 1) : Walk[j].kind = "node" /\ Walk[j].object = Walk[i].object
        /\ Walk[i].kind = "alias" => Walk[i].other = NoObject
  /\ \A i, j \in DOMAIN Walk :
        Walk[i].kind = "node" /\ Walk[j].kind = "node" /\ Walk[i].object = Walk[j].object => i = j
  <1> DEFINE Visit == [kind : Kinds, object : Objects, other : Objects \cup {NoObject}]
  <1>1. Walk \in Seq(Visit)
    BY SyncAssumption
  <1> HIDE DEF Visit
  <1>2. Len(Walk) \in Nat /\ DOMAIN Walk = 1..Len(Walk) /\ \A i \in DOMAIN Walk : Walk[i] \in Visit
    BY <1>1
  <1>3. \A i \in DOMAIN Walk :
           /\ Walk[i].kind \in Kinds /\ Walk[i].object \in Objects /\ Walk[i].other \in Objects \cup {NoObject}
    BY <1>2 DEF Visit
  <1> QED
    BY <1>2, <1>3, SyncAssumption

(* A fact about the graph that a request sees stays true while it grows.   *)
LEMMA LeftGrows ==
  ASSUME NEW i, NEW nodes, NEW arcs, NEW aliases, NEW nodes2, NEW arcs2, NEW aliases2,
         nodes \subseteq nodes2, arcs \subseteq arcs2, aliases \subseteq aliases2,
         Left(i, nodes, arcs, aliases)
  PROVE  Left(i, nodes2, arcs2, aliases2)
  BY DEF Left

(* A visit that is made: the walk goes on to the next.                     *)
LEMMA AdvanceHolds ==
  ASSUME NEW s \in Syncs, NEW x \in Walks, NEW y \in Walks, NEW g \in Graphs,
         Made(x, NodesSeen(g, x), Edges(g, x), Aliases(g, x)), Uncommitted(s, g),
         y.at = "walking", y.task = x.task + 1, x.task \in DOMAIN Walk,
         x.nodes \subseteq y.nodes, x.edges \subseteq y.edges, x.aliases \subseteq y.aliases, OwnRows(s, y, g),
         Left(x.task, NodesSeen(g, y), Edges(g, y), Aliases(g, y)),
         \A o \in Objects :
            y.chosen[o] = x.chosen[o] \/ (y.chosen[o] \in NodesSeen(g, y) /\ y.chosen[o][1] = o),
         Walk[x.task].kind = "node" =>
            y.chosen[Walk[x.task].object] \in NodesSeen(g, y)
            /\ y.chosen[Walk[x.task].object][1] = Walk[x.task].object,
         Hung(y.nodes, y.edges), Visited(y.nodes, y.task), y.version = 0 => y.nodes = {} /\ y.edges = {}
  PROVE  WalkHolds(s, y, g)
  <1>1. x.task \in Nat /\ y.task - 1 = x.task /\ x.task \in 1..Len(Walk)
    <2>1. x.task \in 1..Len(Walk) /\ Len(Walk) \in Nat
      BY WalkSteps
    <2> QED
      BY <2>1
  <1>2. NodesSeen(g, x) \subseteq NodesSeen(g, y) /\ Edges(g, x) \subseteq Edges(g, y) /\ Aliases(g, x) \subseteq Aliases(g, y)
    BY DEF NodesSeen, Edges, Aliases
  <1>3. ASSUME NEW i \in 1..(y.task - 1)
        PROVE  /\ Left(i, NodesSeen(g, y), Edges(g, y), Aliases(g, y))
               /\ Walk[i].kind = "node" =>
                     y.chosen[Walk[i].object] \in NodesSeen(g, y) /\ y.chosen[Walk[i].object][1] = Walk[i].object
    <2>1. CASE i = x.task
      BY <2>1
    <2>2. CASE i # x.task
      <3>1. i \in 1..(x.task - 1) /\ i \in DOMAIN Walk
        BY <1>1, <2>2, WalkSteps
      <3>2. /\ Left(i, NodesSeen(g, x), Edges(g, x), Aliases(g, x))
            /\ Walk[i].kind = "node" =>
                  x.chosen[Walk[i].object] \in NodesSeen(g, x) /\ x.chosen[Walk[i].object][1] = Walk[i].object
        BY <3>1 DEF Made
      <3>3. Left(i, NodesSeen(g, y), Edges(g, y), Aliases(g, y))
        BY <1>2, <3>2, LeftGrows
      <3>4. Walk[i].object \in Objects
        BY <3>1, WalkSteps
      <3> QED
        BY <1>2, <3>2, <3>3, <3>4
    <2> QED
      BY <2>1, <2>2
  <1>4. Made(y, NodesSeen(g, y), Edges(g, y), Aliases(g, y))
    BY <1>3 DEF Made
  <1> QED
    BY <1>4 DEF WalkHolds, OnWay, Inserting
-----------------------------------------------------------------------------
(* What keeps two requests apart: before it has the version row, a request *)
(* has added one thing at most.                                            *)
LEMMA FewAdded ==
  ASSUME NEW s \in Syncs, NEW x \in Walks, NEW g \in Graphs, WalkHolds(s, x, g), x.at # "done", x.version = 0
  PROVE  Single(Added(s, x, g))
  <1>1. (\A n \in g.nodes : n[2] # s) /\ (\A e \in g.edges : e[3] # s)
    BY DEF WalkHolds, Uncommitted
  <1>2. Added(s, x, g) \subseteq {NodeKey(n) : n \in x.nodes} \cup {EdgeKey(e) : e \in x.edges}
    BY <1>1 DEF Added, NodesSeen, Edges
  <1>3. CASE Inserting(x)
    <2>1. FirstRow(s, x)
      BY <1>3 DEF WalkHolds
    <2>2. CASE x.edges = {} /\ x.nodes = {<<Walk[x.task].object, s>>}
      BY <1>2, <2>2 DEF Single
    <2>3. CASE x.nodes = {} /\ \E e \in Edge : x.edges = {e}
      BY <1>2, <2>3 DEF Single
    <2> QED
      BY <2>1, <2>2, <2>3 DEF FirstRow
  <1>4. CASE ~Inserting(x)
    <2>1. x.nodes = {} /\ x.edges = {}
      BY <1>4 DEF WalkHolds, OnWay, Inserting
    <2> QED
      BY <1>2, <2>1 DEF Single
  <1> QED
    BY <1>3, <1>4

(* What is new to the graph doubles nothing that is committed.             *)
NewToGraph(x, y, g) ==
    /\ \A n \in y.nodes \ x.nodes : \A m \in g.nodes : m[1] # n[1]
    /\ \A e \in y.edges \ x.edges : \A f \in g.edges : ~(f[1] = e[1] /\ f[2] = e[2])

LEMMA KeysDiffer ==
  /\ \A n, e : NodeKey(n) # EdgeKey(e)
  /\ \A n, m : NodeKey(n) = NodeKey(m) => n[1] = m[1]
  /\ \A e, f : EdgeKey(e) = EdgeKey(f) => e[1] = f[1] /\ e[2] = f[2]
  BY DEF NodeKey, EdgeKey

LEMMA NoNewDoubles ==
  ASSUME NEW s \in Syncs, NEW t \in Syncs \ {s}, NEW x, NEW y, NEW z, NEW g,
         z.nodes = {}, z.edges = {}, NewToGraph(x, y, g)
  PROVE  Added(s, y, g) \cap Added(t, z, g) \subseteq Added(s, x, g) \cap Added(t, z, g)
  <1> SUFFICES ASSUME NEW k \in Added(s, y, g), k \in Added(t, z, g)  PROVE k \in Added(s, x, g)
    OBVIOUS
  <1>1. CASE \E n \in NodesSeen(g, y) : n[2] = s /\ k = NodeKey(n)
    <2>1. PICK n \in NodesSeen(g, y) : n[2] = s /\ k = NodeKey(n)
      BY <1>1
    <2>2. PICK m \in g.nodes : k = NodeKey(m)
      BY <2>1, KeysDiffer DEF Added, NodesSeen
    <2>3. n \in NodesSeen(g, x)
      <3>1. m[1] = n[1]
        <4>1. NodeKey(n) = NodeKey(m)
          BY <2>1, <2>2
        <4> QED
          BY <4>1, KeysDiffer
      <3> QED
        BY <2>1, <2>2, <3>1 DEF NewToGraph, NodesSeen
    <2> QED
      BY <2>1, <2>3 DEF Added
  <1>2. CASE \E e \in Edges(g, y) : e[3] = s /\ k = EdgeKey(e)
    <2>1. PICK e \in Edges(g, y) : e[3] = s /\ k = EdgeKey(e)
      BY <1>2
    <2>2. PICK f \in g.edges : k = EdgeKey(f)
      BY <2>1, KeysDiffer DEF Added, Edges
    <2>3. e \in Edges(g, x)
      <3>1. f[1] = e[1] /\ f[2] = e[2]
        <4>1. EdgeKey(e) = EdgeKey(f)
          BY <2>1, <2>2
        <4> QED
          BY <4>1, KeysDiffer
      <3> QED
        BY <2>1, <2>2, <3>1 DEF NewToGraph, Edges
    <2> QED
      BY <2>1, <2>3 DEF Added
  <1> QED
    BY <1>1, <1>2 DEF Added

(* A step of one request that commits nothing.                             *)
LEMMA OwnStepKeeps ==
  ASSUME SyncInv, NEW s \in Syncs, NEW y \in Walks, sync' = [sync EXCEPT ![s] = y], graphRows' = graphRows,
         syncOverlap' \in BOOLEAN,
         ~syncOverlap' => /\ ~syncOverlap /\ AloneHolds(y, graphRows)
                          /\ OnWay(y) => \A t \in Syncs \ {s} : ~OnWay(sync[t]),
         sync[s].at # "done", y.at # "done", IsFiniteSet(y.nodes), IsFiniteSet(y.edges),
         WalkHolds(s, y, graphRows),
         y.version > 0 =>
            /\ sync[s].version > 0 \/ \A t \in Syncs \ {s} : sync[t].version = 0
            /\ NewToGraph(sync[s], y, graphRows)
  PROVE  SyncInv'
  <1> DEFINE g == graphRows
             x == sync[s]
  <1>1. g \in Graphs /\ sync \in [Syncs -> Walks] /\ \A t \in Syncs : sync[t] \in Walks
    BY DEF SyncInv, GraphTypes
  <1>2. sync'[s] = y /\ \A t \in Syncs \ {s} : sync'[t] = sync[t]
    BY <1>1
  <1>3. GraphTypes'
    <2>1. sync' \in [Syncs -> Walks]
      BY <1>1
    <2>2. ASSUME NEW t \in Syncs  PROVE IsFiniteSet(sync'[t].nodes) /\ IsFiniteSet(sync'[t].edges)
      BY <1>2 DEF SyncInv, GraphTypes
    <2> QED
      BY <2>1, <2>2 DEF SyncInv, GraphTypes
  <1>4. \A t \in Syncs : WalkHolds(t, sync'[t], g)
    BY <1>2 DEF SyncInv
  <1>5. y.version \in Nat /\ \A t \in Syncs : sync[t].version \in Nat
    BY <1>1 DEF Walks
  <1>6. ASSUME NEW t \in Syncs \ {s}  PROVE PairHolds(s, t, y, sync[t], g)
    <2>1. PairHolds(s, t, x, sync[t], g)
      BY DEF SyncInv
    <2>2. CASE y.version = 0
      BY <1>1, <2>2, FewAdded DEF PairHolds, Single
    <2>3. CASE y.version # 0
      <3>1. y.version > 0
        BY <1>5, <2>3
      <3>2. sync[t].version = 0
        BY <1>5, <2>1, <3>1 DEF PairHolds
      <3>3. CASE sync[t].at = "done"
        <4>1. sync[t].nodes = {} /\ sync[t].edges = {}
          BY <3>3 DEF SyncInv, WalkHolds, OnWay
        <4>2. Added(s, y, g) \cap Added(t, sync[t], g) \subseteq Added(s, x, g) \cap Added(t, sync[t], g)
          BY <3>1, <4>1, NoNewDoubles
        <4> QED
          BY <2>1, <3>2, <4>2 DEF PairHolds, Single
      <3>4. CASE sync[t].at # "done"
        <4>1. Single(Added(t, sync[t], g))
          BY <1>1, <3>2, <3>4, FewAdded DEF SyncInv
        <4> QED
          BY <3>2, <4>1 DEF PairHolds, Single
      <3> QED
        BY <3>3, <3>4
    <2> QED
      BY <2>2, <2>3
  <1>7. \A t, u \in Syncs : t # u => PairHolds(t, u, sync'[t], sync'[u], g)
    <2> SUFFICES ASSUME NEW t \in Syncs, NEW u \in Syncs, t # u  PROVE PairHolds(t, u, sync'[t], sync'[u], g)
      OBVIOUS
    <2>1. CASE t = s
      BY <1>2, <1>6, <2>1
    <2>2. CASE u = s
      <3>1. PairHolds(s, t, y, sync[t], g)
        BY <1>6, <2>2
      <3> QED
        BY <1>2, <2>2, <3>1 DEF PairHolds, Single
    <2>3. CASE t # s /\ u # s
      BY <1>2, <2>3 DEF SyncInv
    <2> QED
      BY <2>1, <2>2, <2>3
  <1>8. (\E t \in Syncs : sync'[t].at = "done") => \E t \in Syncs : sync[t].at = "done"
    BY <1>2
  <1>9. ~syncOverlap' =>
           /\ \A t, u \in Syncs : OnWay(sync'[t]) /\ OnWay(sync'[u]) => t = u
           /\ \A t \in Syncs : AloneHolds(sync'[t], g)
    BY <1>2 DEF SyncInv
  <1> QED
    BY <1>3, <1>4, <1>7, <1>8, <1>9 DEF SyncInv

LEMMA BeginWalkKeeps == ASSUME SyncInv, NEW s \in Syncs, BeginWalk(s)  PROVE SyncInv'
  <1> DEFINE y == [NewSync EXCEPT !.at = "walking"]
             g == graphRows
  <1>1. /\ y \in Walks /\ y.at = "walking" /\ y.task = 1 /\ y.nodes = {} /\ y.edges = {} /\ y.aliases = {}
        /\ y.version = 0
    <2>1. [o \in Objects |-> NoObject] \in [Objects -> Node \cup {NoObject}]
      OBVIOUS
    <2>2. 1 \in 1..(Len(Walk) + 1)
      BY WalkSteps
    <2> QED
      BY <2>1, <2>2 DEF NewSync, Walks, SyncPlaces
  <1>2. g \in Graphs /\ sync \in [Syncs -> Walks]
    BY DEF SyncInv, GraphTypes
  <1>3. sync[s].at = "new" /\ sync' = [sync EXCEPT ![s] = y] /\ graphRows' = graphRows
    BY DEF BeginWalk, SyncIs
  <1>4. WalkHolds(s, sync[s], g)
    BY DEF SyncInv
  <1>5. WalkHolds(s, y, g)
    BY <1>1, <1>3, <1>4 DEF WalkHolds, OwnRows, Made, OnWay, Inserting, Joined, Hung, Visited
  <1>6. syncOverlap' \in BOOLEAN /\ (~syncOverlap' => ~syncOverlap /\ \A t \in Syncs : ~OnWay(sync[t]))
    <2>1. \A t \in Syncs : Underway(t) <=> OnWay(sync[t])
      BY DEF Underway, OnWay
    <2> QED
      BY <2>1 DEF BeginWalk, SyncInv, GraphTypes
  <1>7. ASSUME ~syncOverlap'  PROVE AloneHolds(y, g)
    <2>1. ~syncOverlap /\ ~OnWay(sync[s])
      BY <1>6, <1>7
    <2>2. AloneHolds(sync[s], g) /\ sync[s].nodes = {} /\ sync[s].edges = {}
      BY <1>4, <2>1 DEF SyncInv, WalkHolds
    <2>3. NodesSeen(g, y) = NodesSeen(g, sync[s]) /\ Edges(g, y) = Edges(g, sync[s])
      BY <1>1, <2>2 DEF NodesSeen, Edges
    <2> QED
      BY <1>1, <2>2, <2>3 DEF AloneHolds
  <1> HIDE DEF y
  <1>8. IsFiniteSet(y.nodes) /\ IsFiniteSet(y.edges) /\ ~(y.version > 0) /\ y.at # "done" /\ sync[s].at # "done"
    BY <1>1, <1>3, FS_EmptySet
  <1>9. ~syncOverlap' => /\ ~syncOverlap /\ AloneHolds(y, graphRows)
                         /\ OnWay(y) => \A t \in Syncs \ {s} : ~OnWay(sync[t])
    BY <1>6, <1>7
  <1>10. y \in Walks
    BY <1>1
  <1> QED
    BY <1>3, <1>5, <1>6, <1>8, <1>9, <1>10, OwnStepKeeps

LEMMA SyncFailsKeeps ==
  ASSUME SyncInv, NEW s \in Syncs, Underway(s), SyncIs(s, Failed(s)), Keeps  PROVE SyncInv'
  <1> DEFINE y == Failed(s)
             g == graphRows
  <1>1. /\ y \in Walks /\ y.at = "failed" /\ y.nodes = {} /\ y.edges = {} /\ y.aliases = {} /\ y.version = 0
    <2>1. [o \in Objects |-> NoObject] \in [Objects -> Node \cup {NoObject}]
      OBVIOUS
    <2>2. 1 \in 1..(Len(Walk) + 1)
      BY WalkSteps
    <2> QED
      BY <2>1, <2>2 DEF Failed, NewSync, Walks, SyncPlaces
  <1>2. /\ sync[s].at # "done" /\ OnWay(sync[s]) /\ sync' = [sync EXCEPT ![s] = y] /\ graphRows' = graphRows
        /\ syncOverlap' = syncOverlap /\ syncOverlap' \in BOOLEAN
    BY DEF Underway, OnWay, SyncIs, Keeps, SyncInv, GraphTypes
  <1>3. WalkHolds(s, sync[s], g)
    BY DEF SyncInv
  <1>4. WalkHolds(s, y, g)
    BY <1>1, <1>2, <1>3 DEF WalkHolds, OwnRows, OnWay, Inserting, Joined
  <1>5. ASSUME ~syncOverlap'  PROVE AloneHolds(y, g)
    <2>1. AloneHolds(sync[s], g)
      BY <1>2, <1>5 DEF SyncInv
    <2>2. NodesSeen(g, y) \subseteq NodesSeen(g, sync[s]) /\ Edges(g, y) \subseteq Edges(g, sync[s])
      BY <1>1 DEF NodesSeen, Edges
    <2> QED
      BY <1>1, <2>1, <2>2 DEF AloneHolds, Unique
  <1> HIDE DEF y
  <1>6. /\ IsFiniteSet(y.nodes) /\ IsFiniteSet(y.edges) /\ ~(y.version > 0) /\ y.at # "done"
        /\ ~OnWay(y)
    BY <1>1, FS_EmptySet DEF OnWay
  <1>7. ~syncOverlap' => /\ ~syncOverlap /\ AloneHolds(y, graphRows)
                         /\ OnWay(y) => \A t \in Syncs \ {s} : ~OnWay(sync[t])
    BY <1>2, <1>5, <1>6
  <1>8. y \in Walks
    BY <1>1
  <1> QED
    BY <1>2, <1>4, <1>6, <1>7, <1>8, OwnStepKeeps
-----------------------------------------------------------------------------
(* A walk with the row of its task just inserted: what the bump of the     *)
(* version finds.                                                          *)
FreshRow(s, z, g) ==
    LET task == Walk[z.task] IN
    /\ z.task \in DOMAIN Walk /\ task.kind \in {"node", "link"} /\ Uncommitted(s, g) /\ OwnRows(s, z, g)
    /\ Made(z, NodesSeen(g, z), Edges(g, z), Aliases(g, z))
    /\ task.kind = "node" =>
          /\ <<task.object, s>> \in z.nodes /\ z.chosen[task.object] = <<task.object, s>>
          /\ \A e \in Edges(g, z) : e[2] # <<task.object, s>>
    /\ task.kind = "link" =>
          \E e \in z.edges : e[1][1] = task.object /\ e[2][1] = task.other
    /\ Visited(z.nodes, z.task + 1)
    /\ \A n \in z.nodes, i \in DOMAIN Walk :
          i # z.task /\ Walk[i].kind = "node" /\ Walk[i].object = n[1] /\ Walk[i].other # NoObject =>
             \E e \in z.edges : e[2] = n /\ e[1][1] = Walk[i].other

(* The edge of a column: it leads from the node of its dataset to the node *)
(* just made.                                                              *)
LEMMA OwnEdgeIs ==
  ASSUME NEW s \in Syncs, NEW z \in Walks, NEW g \in Graphs, z.task = sync[s].task, FreshRow(s, z, g)
  PROVE  /\ OwnEdge(s, z) \subseteq Edge /\ IsFiniteSet(OwnEdge(s, z)) /\ Cardinality(OwnEdge(s, z)) \in Nat
         /\ \A e \in OwnEdge(s, z) :
               /\ e[3] = s /\ e[1] \in NodesSeen(g, z) /\ e[2] \in NodesSeen(g, z)
               /\ e[1][1] = Walk[z.task].other /\ e[2] = <<Walk[z.task].object, s>>
               /\ \A f \in Edges(g, z) : f[2] # e[2]
         /\ \A e, f \in OwnEdge(s, z) : e = f
         /\ Walk[z.task].kind = "node" /\ Walk[z.task].other # NoObject => OwnEdge(s, z) # {}
  <1> DEFINE task == Walk[z.task]
             from == z.chosen[task.other]
             own == <<task.object, s>>
  <1>1. Task(s) = task /\ z.task \in DOMAIN Walk
    BY DEF Task, FreshRow
  <1>2. CASE task.kind = "node" /\ task.other # NoObject
    <2>1. OwnEdge(s, z) = {<<from, own, s>>}
      BY <1>1, <1>2 DEF OwnEdge
    <2>2. PICK j \in 1..(z.task - 1) : Walk[j].kind = "node" /\ Walk[j].object = task.other
      BY <1>1, <1>2, WalkSteps
    <2>3. from \in NodesSeen(g, z) /\ from[1] = task.other
      BY <2>2 DEF FreshRow, Made
    <2>4. own \in NodesSeen(g, z) /\ \A f \in Edges(g, z) : f[2] # own
      BY <1>2 DEF FreshRow, NodesSeen
    <2>5. NodesSeen(g, z) \subseteq Node
      BY DEF NodesSeen, Graphs, Walks
    <2>6. <<from, own, s>> \in Edge
      BY <2>3, <2>4, <2>5 DEF Edge
    <2>7. <<from, own, s>>[1] = from /\ <<from, own, s>>[2] = own /\ <<from, own, s>>[3] = s
      OBVIOUS
    <2>8. IsFiniteSet(OwnEdge(s, z)) /\ Cardinality(OwnEdge(s, z)) \in Nat
      <3>1. PICK e : OwnEdge(s, z) = {e}
        BY <2>1
      <3>2. IsFiniteSet({e}) /\ Cardinality({e}) = 1
        BY FS_Singleton
      <3> QED
        BY <3>1, <3>2
    <2> HIDE DEF from, own
    <2> QED
      BY <2>1, <2>3, <2>4, <2>6, <2>7, <2>8 DEF own
  <1>3. CASE ~(task.kind = "node" /\ task.other # NoObject)
    <2>1. OwnEdge(s, z) = {}
      BY <1>1, <1>3 DEF OwnEdge
    <2>2. IsFiniteSet(OwnEdge(s, z)) /\ Cardinality(OwnEdge(s, z)) \in Nat
      BY <2>1, FS_EmptySet
    <2> QED
      BY <1>3, <2>1, <2>2
  <1> QED
    BY <1>2, <1>3

LEMMA BumpedIs ==
  ASSUME NEW s \in Syncs, NEW z \in Walks, NEW g \in Graphs, z.task = sync[s].task, FreshRow(s, z, g), NEW v \in Nat
  PROVE  /\ Bumped(s, z, v) \in Walks /\ Bumped(s, z, v).at = "walking" /\ Bumped(s, z, v).task = z.task + 1
         /\ Bumped(s, z, v).chosen = z.chosen /\ Bumped(s, z, v).nodes = z.nodes
         /\ Bumped(s, z, v).edges = z.edges \cup OwnEdge(s, z) /\ Bumped(s, z, v).aliases = z.aliases
         /\ Bumped(s, z, v).version = v + 1 + Cardinality(OwnEdge(s, z))
  <1> DEFINE extra == OwnEdge(s, z)
             n == v + 1 + Cardinality(extra)
             arcs == z.edges \cup extra
             b == [z EXCEPT !.version = n, !.edges = arcs]
  <1>1. extra \subseteq Edge /\ Cardinality(extra) \in Nat
    BY OwnEdgeIs
  <1>2. n \in Nat
    BY <1>1
  <1>3. arcs \subseteq Edge
    BY <1>1 DEF Walks
  <1>4. z.task + 1 \in 1..(Len(Walk) + 1)
    <2>1. z.task \in 1..Len(Walk) /\ Len(Walk) \in Nat
      BY WalkSteps DEF FreshRow
    <2> QED
      BY <2>1
  <1>5. Bumped(s, z, v) = Advance(b)
    BY DEF Bumped
  <1> HIDE DEF n, arcs
  <1>6. /\ b \in Walks /\ b.task = z.task /\ b.chosen = z.chosen /\ b.nodes = z.nodes /\ b.edges = arcs
        /\ b.aliases = z.aliases /\ b.version = n
    BY <1>2, <1>3 DEF Walks
  <1> HIDE DEF b
  <1>7. /\ Advance(b) \in Walks /\ Advance(b).at = "walking" /\ Advance(b).task = z.task + 1
        /\ Advance(b).chosen = z.chosen /\ Advance(b).nodes = z.nodes /\ Advance(b).edges = arcs
        /\ Advance(b).aliases = z.aliases /\ Advance(b).version = n
    BY <1>4, <1>6 DEF Advance, Walks, SyncPlaces
  <1> QED
    BY <1>5, <1>7 DEF n, arcs

LEMMA BumpedHolds ==
  ASSUME NEW s \in Syncs, NEW z \in Walks, NEW g \in Graphs, z.task = sync[s].task, FreshRow(s, z, g), NEW v \in Nat
  PROVE  WalkHolds(s, Bumped(s, z, v), g) /\ Bumped(s, z, v).version > 0
  <1> DEFINE y == Bumped(s, z, v)
             task == Walk[z.task]
             own == <<task.object, s>>
             extra == OwnEdge(s, z)
  <1>1. /\ y \in Walks /\ y.at = "walking" /\ y.task = z.task + 1
        /\ y.chosen = z.chosen /\ y.nodes = z.nodes /\ y.edges = z.edges \cup extra /\ y.aliases = z.aliases
        /\ y.version = v + 1 + Cardinality(extra)
    BY BumpedIs
  <1>2. /\ extra \subseteq Edge /\ Cardinality(extra) \in Nat
        /\ \A e \in extra :
              /\ e[3] = s /\ e[1] \in NodesSeen(g, z) /\ e[2] \in NodesSeen(g, z)
              /\ e[1][1] = task.other /\ e[2] = own
        /\ task.kind = "node" /\ task.other # NoObject => extra # {}
    BY OwnEdgeIs
  <1> HIDE DEF y, extra
  <1>3. z.task \in DOMAIN Walk /\ Uncommitted(s, g) /\ OwnRows(s, z, g)
        /\ Made(z, NodesSeen(g, z), Edges(g, z), Aliases(g, z))
    BY DEF FreshRow
  <1>4. y.version > 0
    BY <1>1, <1>2
  <1>5. NodesSeen(g, y) = NodesSeen(g, z) /\ Edges(g, y) = Edges(g, z) \cup extra
    BY <1>1 DEF NodesSeen, Edges
  <1>6. OwnRows(s, y, g)
    BY <1>1, <1>2, <1>3, <1>5 DEF OwnRows, Joined
  <1>7. Left(z.task, NodesSeen(g, y), Edges(g, y), Aliases(g, y))
    <2>1. task.kind \in {"node", "link"}
      BY DEF FreshRow
    <2>2. CASE task.kind = "node"
      <3>1. own \in NodesSeen(g, y) /\ own[1] = task.object
        BY <1>5, <2>2 DEF FreshRow, NodesSeen
      <3>2. task.other # NoObject => \E e \in Edges(g, y) : e[1][1] = task.other /\ e[2][1] = task.object
        BY <1>2, <1>5, <2>2
      <3>3. task.other # NoObject => \E e \in Edges(g, y) : {e[1][1], e[2][1]} = {task.object, task.other}
        BY <3>2
      <3> QED
        BY <2>2, <3>1, <3>3 DEF Left
    <2>3. CASE task.kind = "link"
      <3>1. PICK e \in z.edges : e[1][1] = task.object /\ e[2][1] = task.other
        BY <2>3 DEF FreshRow
      <3>2. e \in Edges(g, y) /\ e[1] \in NodesSeen(g, y)
        BY <1>3, <1>5, <3>1 DEF OwnRows, Joined, Edges
      <3> QED
        BY <2>3, <3>1, <3>2 DEF Left
    <2> QED
      BY <2>1, <2>2, <2>3
  <1>8. task.kind = "node" => y.chosen[task.object] \in NodesSeen(g, y) /\ y.chosen[task.object][1] = task.object
    BY <1>1, <1>5 DEF FreshRow, NodesSeen
  <1>9. Visited(y.nodes, y.task)
    BY <1>1 DEF FreshRow
  <1>10. Hung(y.nodes, y.edges)
    <2> SUFFICES ASSUME NEW n \in z.nodes, NEW i \in DOMAIN Walk, Walk[i].kind = "node",
                        Walk[i].object = n[1], Walk[i].other # NoObject
                 PROVE  \E e \in y.edges : e[2] = n /\ e[1][1] = Walk[i].other
      BY <1>1 DEF Hung
    <2>1. CASE i = z.task
      <3>1. n \in Node /\ n[2] = s
        BY <1>3 DEF OwnRows, Walks
      <3>2. n = own
        BY <2>1, <3>1, NodePairs
      <3> QED
        BY <1>1, <1>2, <2>1, <3>2
    <2>2. CASE i # z.task
      BY <1>1, <2>2 DEF FreshRow
    <2> QED
      BY <2>1, <2>2
  <1>11. WalkHolds(s, y, g)
    <2>1. /\ z.nodes \subseteq y.nodes /\ z.edges \subseteq y.edges /\ z.aliases \subseteq y.aliases
          /\ \A o \in Objects : y.chosen[o] = z.chosen[o]
          /\ ~(y.version = 0) /\ y \in Walks /\ y.at = "walking" /\ y.task = z.task + 1
      BY <1>1, <1>4
    <2> QED
      BY <1>3, <1>6, <1>7, <1>8, <1>9, <1>10, <2>1, AdvanceHolds
  <1> QED
    BY <1>4, <1>11 DEF y
-----------------------------------------------------------------------------
LEMMA NewTwice ==
  ASSUME NEW x, NEW y, NEW z, NEW g, NewToGraph(x, z, g), NewToGraph(z, y, g)
  PROVE  NewToGraph(x, y, g)
  BY DEF NewToGraph

LEMMA BumpedNew ==
  ASSUME NEW s \in Syncs, NEW z \in Walks, NEW g \in Graphs, z.task = sync[s].task, FreshRow(s, z, g), NEW v \in Nat
  PROVE  NewToGraph(z, Bumped(s, z, v), g)
  <1> DEFINE y == Bumped(s, z, v)
             extra == OwnEdge(s, z)
  <1>1. y.nodes = z.nodes /\ y.edges = z.edges \cup extra
    BY BumpedIs
  <1>2. \A e \in extra : \A f \in Edges(g, z) : f[2] # e[2]
    BY OwnEdgeIs
  <1> HIDE DEF y, extra
  <1>3. NewToGraph(z, y, g)
    BY <1>1, <1>2 DEF NewToGraph, Edges
  <1> QED
    BY <1>3 DEF y

(* The version counts what is bumped.                                      *)
LEMMA BumpedAlone ==
  ASSUME NEW s \in Syncs, NEW z \in Walks, NEW g \in Graphs, z.task = sync[s].task, FreshRow(s, z, g), NEW v \in Nat,
         Unique(NodesSeen(g, z), Edges(g, z)), IsFiniteSet(NodesSeen(g, z)), IsFiniteSet(Edges(g, z)),
         v = Cardinality(NodesSeen(g, z)) + Cardinality(Edges(g, z))
  PROVE  AloneHolds(Bumped(s, z, v), g)
  <1> DEFINE y == Bumped(s, z, v)
             extra == OwnEdge(s, z)
  <1>1. /\ y.at = "walking" /\ y.nodes = z.nodes /\ y.edges = z.edges \cup extra
        /\ y.version = v + 1 + Cardinality(extra)
    BY BumpedIs
  <1>2. /\ IsFiniteSet(extra) /\ Cardinality(extra) \in Nat
        /\ \A e \in extra : \A f \in Edges(g, z) : f[2] # e[2]
        /\ \A e, f \in extra : e = f
    BY OwnEdgeIs
  <1> HIDE DEF y, extra
  <1>3. NodesSeen(g, y) = NodesSeen(g, z) /\ Edges(g, y) = Edges(g, z) \cup extra
    BY <1>1 DEF NodesSeen, Edges
  <1>4. Unique(NodesSeen(g, y), Edges(g, y))
    BY <1>2, <1>3 DEF Unique
  <1>5. Edges(g, z) \cap extra = {}
    BY <1>2
  <1>6. Cardinality(Edges(g, z)) \in Nat /\ Cardinality(NodesSeen(g, z)) \in Nat
    BY FS_CardinalityType
  <1>7. Cardinality(Edges(g, z) \cup extra) = Cardinality(Edges(g, z)) + Cardinality(extra)
    <2>1. Cardinality(Edges(g, z) \cup extra)
            = Cardinality(Edges(g, z)) + Cardinality(extra) - Cardinality(Edges(g, z) \cap extra)
      BY <1>2, FS_Union
    <2>2. Cardinality(Edges(g, z) \cap extra) = 0
      BY <1>5, FS_EmptySet
    <2> QED
      BY <1>2, <1>6, <2>1, <2>2
  <1>8. y.version = 1 + Cardinality(NodesSeen(g, y)) + Cardinality(Edges(g, y))
    BY <1>1, <1>2, <1>3, <1>6, <1>7
  <1>9. NodesSeen(g, y) # {}
    BY <1>3 DEF FreshRow, OwnRows, Joined, NodesSeen
  <1>10. AloneHolds(y, g)
    BY <1>1, <1>4, <1>8, <1>9 DEF AloneHolds, Counted
  <1> QED
    BY <1>10 DEF y

LEMMA SeenAreFinite ==
  ASSUME SyncInv, NEW x, IsFiniteSet(x.nodes), IsFiniteSet(x.edges)
  PROVE  IsFiniteSet(NodesSeen(graphRows, x)) /\ IsFiniteSet(Edges(graphRows, x))
  BY FS_Union DEF SyncInv, GraphTypes, NodesSeen, Edges

LEMMA BumpedKeeps ==
  ASSUME SyncInv, NEW s \in Syncs, NEW z \in Walks, z.task = sync[s].task, FreshRow(s, z, graphRows), NEW v \in Nat,
         sync' = [sync EXCEPT ![s] = Bumped(s, z, v)], Keeps, OnWay(sync[s]),
         IsFiniteSet(z.nodes), IsFiniteSet(z.edges), NewToGraph(sync[s], z, graphRows),
         sync[s].version > 0 \/ \A t \in Syncs \ {s} : sync[t].version = 0,
         ~syncOverlap => /\ Unique(NodesSeen(graphRows, z), Edges(graphRows, z))
                         /\ v = Cardinality(NodesSeen(graphRows, z)) + Cardinality(Edges(graphRows, z))
  PROVE  SyncInv'
  <1> DEFINE g == graphRows
             y == Bumped(s, z, v)
  <1>1. g \in Graphs /\ syncOverlap \in BOOLEAN
    BY DEF SyncInv, GraphTypes
  <1>2. /\ y \in Walks /\ y.at = "walking" /\ y.nodes = z.nodes /\ y.edges = z.edges \cup OwnEdge(s, z)
        /\ WalkHolds(s, y, g) /\ NewToGraph(z, y, g) /\ IsFiniteSet(OwnEdge(s, z))
    BY <1>1, BumpedIs, BumpedHolds, BumpedNew, OwnEdgeIs
  <1>3. ~syncOverlap => AloneHolds(y, g)
    BY <1>1, BumpedAlone, SeenAreFinite
  <1> HIDE DEF y
  <1>4. IsFiniteSet(y.nodes) /\ IsFiniteSet(y.edges)
    BY <1>2, FS_Union
  <1>5. NewToGraph(sync[s], y, g)
    BY <1>2, NewTwice
  <1>6. ~syncOverlap' => /\ ~syncOverlap /\ AloneHolds(y, graphRows)
                         /\ OnWay(y) => \A t \in Syncs \ {s} : ~OnWay(sync[t])
    BY <1>3 DEF Keeps, SyncInv
  <1>7. sync' = [sync EXCEPT ![s] = y] /\ graphRows' = graphRows /\ syncOverlap' \in BOOLEAN
    BY <1>1 DEF y, Keeps
  <1>8. sync[s].at # "done" /\ y.at # "done"
    BY <1>2 DEF OnWay
  <1> QED
    BY <1>2, <1>4, <1>5, <1>6, <1>7, <1>8, OwnStepKeeps

(* A row is inserted by a walk that has the version row, or is about to    *)
(* have it.                                                                *)
LEMMA InsertKeeps ==
  ASSUME SyncInv, NEW s \in Syncs, NEW z \in Walks, z.task = sync[s].task, z.version = sync[s].version,
         FreshRow(s, z, graphRows), z.version = 0 => FirstRow(s, z),
         SyncIs(s, Inserted(s, z)), Keeps, sync[s].at = "walking",
         IsFiniteSet(z.nodes), IsFiniteSet(z.edges), NewToGraph(sync[s], z, graphRows),
         ~syncOverlap =>
            /\ Unique(NodesSeen(graphRows, z), Edges(graphRows, z))
            /\ Cardinality(NodesSeen(graphRows, z)) + Cardinality(Edges(graphRows, z))
                 = 1 + Cardinality(NodesSeen(graphRows, sync[s])) + Cardinality(Edges(graphRows, sync[s]))
  PROVE  SyncInv'
  <1> DEFINE g == graphRows
             x == sync[s]
             y == [z EXCEPT !.at = "bumping"]
  <1>1. z.version \in Nat /\ OnWay(x) /\ syncOverlap \in BOOLEAN
    BY DEF Walks, OnWay, SyncInv, GraphTypes
  <1>2. CASE z.version > 0
    <2>1. sync' = [sync EXCEPT ![s] = Bumped(s, z, z.version)]
      BY <1>2 DEF SyncIs, Inserted
    <2>2. ~syncOverlap => z.version = Cardinality(NodesSeen(g, z)) + Cardinality(Edges(g, z))
      BY <1>2 DEF SyncInv, AloneHolds, Counted
    <2> QED
      BY <1>1, <1>2, <2>1, <2>2, BumpedKeeps
  <1>3. CASE ~(z.version > 0)
    <2>1. z.version = 0 /\ sync' = [sync EXCEPT ![s] = y]
      <3>1. z.version = 0
        BY <1>1, <1>3
      <3>2. Inserted(s, z) = y
        BY <1>3 DEF Inserted
      <3> QED
        BY <3>1, <3>2 DEF SyncIs
    <2>2. /\ y \in Walks /\ y.at = "bumping" /\ y.task = z.task /\ y.chosen = z.chosen /\ y.nodes = z.nodes
          /\ y.edges = z.edges /\ y.aliases = z.aliases /\ y.version = 0
      BY <2>1 DEF Walks, SyncPlaces
    <2> HIDE DEF y
    <2>3. NodesSeen(g, y) = NodesSeen(g, z) /\ Edges(g, y) = Edges(g, z) /\ Aliases(g, y) = Aliases(g, z)
      BY <2>2 DEF NodesSeen, Edges, Aliases
    <2>4. FirstRow(s, y) /\ OwnRows(s, y, g) /\ Uncommitted(s, g) /\ Made(y, NodesSeen(g, y), Edges(g, y), Aliases(g, y))
      <3>1. FirstRow(s, y)
        BY <2>1, <2>2 DEF FirstRow
      <3>2. OwnRows(s, z, g) /\ Uncommitted(s, g) /\ Made(z, NodesSeen(g, z), Edges(g, z), Aliases(g, z))
        BY DEF FreshRow
      <3>3. OwnRows(s, y, g)
        BY <2>2, <2>3, <3>2 DEF OwnRows
      <3>4. Made(y, NodesSeen(g, y), Edges(g, y), Aliases(g, y))
        BY <2>2, <2>3, <3>2 DEF Made
      <3> QED
        BY <3>1, <3>2, <3>3, <3>4
    <2>5. WalkHolds(s, y, g)
      BY <2>2, <2>4 DEF WalkHolds, OnWay, Inserting
    <2>6. ~syncOverlap => AloneHolds(y, g)
      BY <2>2, <2>3 DEF AloneHolds
    <2>7. ~syncOverlap' => /\ ~syncOverlap /\ AloneHolds(y, graphRows)
                           /\ OnWay(y) => \A t \in Syncs \ {s} : ~OnWay(sync[t])
      BY <1>1, <2>6 DEF Keeps, SyncInv
    <2>8. /\ graphRows' = graphRows /\ syncOverlap' \in BOOLEAN /\ sync[s].at # "done" /\ y.at # "done"
          /\ ~(y.version > 0) /\ IsFiniteSet(y.nodes) /\ IsFiniteSet(y.edges)
      BY <1>1, <2>2 DEF Keeps
    <2> QED
      BY <2>1, <2>2, <2>5, <2>7, <2>8, OwnStepKeeps
  <1> QED
    BY <1>2, <1>3
-----------------------------------------------------------------------------
(* A walk at a visit.                                                      *)
LEMMA OnTaskIs ==
  ASSUME SyncInv, NEW s \in Syncs, NEW kind, OnTask(s, kind)
  PROVE  /\ graphRows \in Graphs /\ sync \in [Syncs -> Walks] /\ sync[s] \in Walks
         /\ sync[s].at = "walking" /\ OnWay(sync[s]) /\ sync[s].task \in DOMAIN Walk /\ Task(s) = Walk[sync[s].task]
         /\ Walk[sync[s].task].kind = kind
         /\ Walk[sync[s].task].object \in Objects /\ Walk[sync[s].task].other \in Objects \cup {NoObject}
         /\ Uncommitted(s, graphRows) /\ OwnRows(s, sync[s], graphRows)
         /\ Made(sync[s], NodesSeen(graphRows, sync[s]), Edges(graphRows, sync[s]), Aliases(graphRows, sync[s]))
         /\ Hung(sync[s].nodes, sync[s].edges) /\ Visited(sync[s].nodes, sync[s].task)
         /\ sync[s].version = 0 => sync[s].nodes = {} /\ sync[s].edges = {}
         /\ IsFiniteSet(sync[s].nodes) /\ IsFiniteSet(sync[s].edges)
         /\ \A o \in Objects : NodesOf(s, o) = {n \in NodesSeen(graphRows, sync[s]) : n[1] = o}
  <1>1. graphRows \in Graphs /\ sync \in [Syncs -> Walks] /\ sync[s] \in Walks
        /\ IsFiniteSet(sync[s].nodes) /\ IsFiniteSet(sync[s].edges)
    BY DEF SyncInv, GraphTypes
  <1>2. sync[s].at = "walking" /\ sync[s].task <= Len(Walk) /\ Task(s) = Walk[sync[s].task]
        /\ Walk[sync[s].task].kind = kind
    BY DEF OnTask, Task
  <1>3. sync[s].task \in DOMAIN Walk
    <2>1. sync[s].task \in 1..(Len(Walk) + 1)
      BY <1>1 DEF Walks
    <2>2. Len(Walk) \in Nat /\ DOMAIN Walk = 1..Len(Walk)
      BY WalkSteps
    <2> QED
      BY <1>2, <2>1, <2>2
  <1>4. Walk[sync[s].task].object \in Objects /\ Walk[sync[s].task].other \in Objects \cup {NoObject}
    BY <1>3, WalkSteps
  <1>5. WalkHolds(s, sync[s], graphRows) /\ OnWay(sync[s])
    BY <1>2 DEF SyncInv, OnWay
  <1>6. \A o \in Objects : NodesOf(s, o) = {n \in NodesSeen(graphRows, sync[s]) : n[1] = o}
    BY DEF NodesOf, NodesSeen
  <1>7. sync[s].at \in {"walking", "aliasing"} /\ sync[s].at # "done"
    BY <1>2
  <1>8. /\ Uncommitted(s, graphRows) /\ OwnRows(s, sync[s], graphRows)
        /\ Made(sync[s], NodesSeen(graphRows, sync[s]), Edges(graphRows, sync[s]), Aliases(graphRows, sync[s]))
        /\ Hung(sync[s].nodes, sync[s].edges) /\ Visited(sync[s].nodes, sync[s].task)
        /\ sync[s].version = 0 => sync[s].nodes = {} /\ sync[s].edges = {}
    BY <1>5, <1>7 DEF WalkHolds
  <1> QED
    BY <1>1, <1>2, <1>3, <1>4, <1>5, <1>6, <1>8

(* Advance changes the place and the task only.                            *)
LEMMA AdvanceIs ==
  ASSUME NEW x \in Walks, x.task \in DOMAIN Walk
  PROVE  /\ Advance(x) \in Walks /\ Advance(x).at = "walking" /\ Advance(x).task = x.task + 1
         /\ Advance(x).chosen = x.chosen /\ Advance(x).nodes = x.nodes /\ Advance(x).edges = x.edges
         /\ Advance(x).aliases = x.aliases /\ Advance(x).version = x.version
  <1>1. x.task + 1 \in 1..(Len(Walk) + 1)
    <2>1. x.task \in 1..Len(Walk) /\ Len(Walk) \in Nat
      BY WalkSteps
    <2> QED
      BY <2>1
  <1> QED
    BY <1>1 DEF Advance, Walks, SyncPlaces

(* What was to be visited is there: the walk goes on.                      *)
LEMMA FoundKeeps ==
  ASSUME SyncInv, NEW s \in Syncs, NEW y \in Walks, sync' = [sync EXCEPT ![s] = y], Keeps,
         sync[s].at \in {"walking", "aliasing"}, sync[s].task \in DOMAIN Walk,
         y.at = "walking", y.task = sync[s].task + 1, y.nodes = sync[s].nodes, y.edges = sync[s].edges,
         y.version = sync[s].version, sync[s].aliases \subseteq y.aliases,
         y.aliases \subseteq NodesSeen(graphRows, sync[s]),
         Left(sync[s].task, NodesSeen(graphRows, y), Edges(graphRows, y), Aliases(graphRows, y)),
         \A o \in Objects :
            y.chosen[o] = sync[s].chosen[o] \/ (y.chosen[o] \in NodesSeen(graphRows, sync[s]) /\ y.chosen[o][1] = o),
         Walk[sync[s].task].kind = "node" =>
            y.chosen[Walk[sync[s].task].object] \in NodesSeen(graphRows, sync[s])
            /\ y.chosen[Walk[sync[s].task].object][1] = Walk[sync[s].task].object
  PROVE  SyncInv'
  <1> DEFINE g == graphRows
             x == sync[s]
  <1>1. g \in Graphs /\ sync \in [Syncs -> Walks] /\ x \in Walks /\ syncOverlap \in BOOLEAN
        /\ IsFiniteSet(x.nodes) /\ IsFiniteSet(x.edges)
    BY DEF SyncInv, GraphTypes
  <1>2. WalkHolds(s, x, g) /\ OnWay(x) /\ x.at # "done"
    BY DEF SyncInv, OnWay
  <1>3. /\ Uncommitted(s, g) /\ OwnRows(s, x, g) /\ Made(x, NodesSeen(g, x), Edges(g, x), Aliases(g, x))
        /\ Hung(x.nodes, x.edges) /\ Visited(x.nodes, x.task)
        /\ x.version = 0 => x.nodes = {} /\ x.edges = {}
    BY <1>2 DEF WalkHolds
  <1>4. NodesSeen(g, y) = NodesSeen(g, x) /\ Edges(g, y) = Edges(g, x)
    BY DEF NodesSeen, Edges
  <1>5. OwnRows(s, y, g)
    BY <1>3, <1>4 DEF OwnRows
  <1>6. Hung(y.nodes, y.edges) /\ (y.version = 0 => y.nodes = {} /\ y.edges = {})
    BY <1>3
  <1>7. Visited(y.nodes, y.task)
    <2>1. x.task \in Nat /\ y.task - 1 = x.task
      <3>1. x.task \in 1..Len(Walk) /\ Len(Walk) \in Nat
        BY WalkSteps
      <3> QED
        BY <3>1
    <2>2. \A j \in 1..(x.task - 1) : j \in 1..(y.task - 1)
      BY <2>1
    <2> QED
      BY <1>3, <2>2 DEF Visited
  <1>8. WalkHolds(s, y, g)
    <2>1. \A o \in Objects : y.chosen[o] = x.chosen[o] \/ (y.chosen[o] \in NodesSeen(g, y) /\ y.chosen[o][1] = o)
      BY <1>4
    <2>2. Walk[x.task].kind = "node" =>
             y.chosen[Walk[x.task].object] \in NodesSeen(g, y)
             /\ y.chosen[Walk[x.task].object][1] = Walk[x.task].object
      BY <1>4
    <2>3. x.nodes \subseteq y.nodes /\ x.edges \subseteq y.edges
      OBVIOUS
    <2> QED
      BY <1>1, <1>3, <1>5, <1>6, <1>7, <2>1, <2>2, <2>3, AdvanceHolds
  <1>9. NewToGraph(x, y, g)
    BY DEF NewToGraph
  <1>10. ~syncOverlap => AloneHolds(y, g)
    BY <1>4 DEF AloneHolds, SyncInv
  <1>11. ~syncOverlap' => /\ ~syncOverlap /\ AloneHolds(y, graphRows)
                          /\ OnWay(y) => \A t \in Syncs \ {s} : ~OnWay(sync[t])
    BY <1>2, <1>10 DEF Keeps, SyncInv
  <1>12. y.version > 0 =>
            /\ sync[s].version > 0 \/ \A t \in Syncs \ {s} : sync[t].version = 0
            /\ NewToGraph(sync[s], y, graphRows)
    BY <1>9
  <1>13. /\ graphRows' = graphRows /\ syncOverlap' \in BOOLEAN /\ y.at # "done" /\ sync[s].at # "done"
         /\ IsFiniteSet(y.nodes) /\ IsFiniteSet(y.edges)
    BY <1>1, <1>2 DEF Keeps
  <1> QED
    BY <1>8, <1>11, <1>12, <1>13, OwnStepKeeps

LEMMA NodeFoundKeeps ==
  ASSUME SyncInv, NEW s \in Syncs, OnTask(s, "node"), Keeps, NEW n \in NodesOf(s, Task(s).object),
         SyncIs(s, Advance([sync[s] EXCEPT !.chosen[Task(s).object] = n]))
  PROVE  SyncInv'
  <1> DEFINE g == graphRows
             x == sync[s]
             o == Walk[x.task].object
             chosen == [x.chosen EXCEPT ![o] = n]
             c == [x EXCEPT !.chosen = chosen]
             y == Advance(c)
  <1>1. /\ g \in Graphs /\ x \in Walks /\ x.at = "walking" /\ x.task \in DOMAIN Walk /\ Task(s) = Walk[x.task]
        /\ Walk[x.task].kind = "node" /\ o \in Objects
        /\ NodesOf(s, o) = {m \in NodesSeen(g, x) : m[1] = o} /\ OwnRows(s, x, g)
    BY OnTaskIs
  <1>2. n \in NodesSeen(g, x) /\ n[1] = o /\ n \in Node
    BY <1>1 DEF NodesSeen, Graphs, Walks
  <1>3. /\ chosen \in [Objects -> Node \cup {NoObject}] /\ chosen[o] = n
        /\ \A p \in Objects : p # o => chosen[p] = x.chosen[p]
    BY <1>1, <1>2 DEF Walks
  <1>4. sync' = [sync EXCEPT ![s] = y]
    BY <1>1 DEF SyncIs
  <1> HIDE DEF chosen
  <1>5. /\ c \in Walks /\ c.task = x.task /\ c.chosen = chosen /\ c.nodes = x.nodes /\ c.edges = x.edges
        /\ c.aliases = x.aliases /\ c.version = x.version
    BY <1>1, <1>3 DEF Walks
  <1> HIDE DEF c
  <1>6. /\ y \in Walks /\ y.at = "walking" /\ y.task = x.task + 1 /\ y.chosen = chosen /\ y.nodes = x.nodes
        /\ y.edges = x.edges /\ y.aliases = x.aliases /\ y.version = x.version
    BY <1>1, <1>5, AdvanceIs
  <1> HIDE DEF y
  <1>7. NodesSeen(g, y) = NodesSeen(g, x) /\ Edges(g, y) = Edges(g, x)
    BY <1>6 DEF NodesSeen, Edges
  <1>8. Left(x.task, NodesSeen(g, y), Edges(g, y), Aliases(g, y))
    <2>1. ASSUME Walk[x.task].other # NoObject
          PROVE  \E e \in Edges(g, y) : {e[1][1], e[2][1]} = {o, Walk[x.task].other}
      <3>1. Hung(g.nodes, g.edges) /\ Hung(x.nodes, x.edges)
        BY OnTaskIs DEF SyncInv
      <3>2. \E e \in Edges(g, x) : e[2] = n /\ e[1][1] = Walk[x.task].other
        BY <1>1, <1>2, <2>1, <3>1 DEF Hung, NodesSeen, Edges
      <3>3. PICK e \in Edges(g, x) : e[2] = n /\ e[1][1] = Walk[x.task].other
        BY <3>2
      <3> QED
        BY <1>2, <1>7, <3>3
    <2> QED
      BY <1>1, <1>2, <1>7, <2>1 DEF Left
  <1>9. x.aliases \subseteq y.aliases /\ y.aliases \subseteq NodesSeen(g, x)
    BY <1>1, <1>6 DEF OwnRows
  <1>10. \A p \in Objects : y.chosen[p] = x.chosen[p] \/ (y.chosen[p] \in NodesSeen(g, x) /\ y.chosen[p][1] = p)
    BY <1>2, <1>3, <1>6
  <1>11. y.chosen[o] \in NodesSeen(g, x) /\ y.chosen[o][1] = o /\ x.at \in {"walking", "aliasing"}
    BY <1>1, <1>2, <1>3, <1>6
  <1> QED
    BY <1>1, <1>4, <1>6, <1>8, <1>9, <1>10, <1>11, FoundKeeps

LEMMA NodeInsertedKeeps ==
  ASSUME SyncInv, NEW s \in Syncs, OnTask(s, "node"), Keeps, NodesOf(s, Task(s).object) = {},
         SyncIs(s, Inserted(s, [sync[s] EXCEPT !.chosen[Task(s).object] = <<Task(s).object, s>>,
                                               !.nodes = @ \cup {<<Task(s).object, s>>}]))
  PROVE  SyncInv'
  <1> DEFINE g == graphRows
             x == sync[s]
             o == Walk[x.task].object
             own == <<o, s>>
             chosen == [x.chosen EXCEPT ![o] = own]
             nodes == x.nodes \cup {own}
             z == [x EXCEPT !.chosen = chosen, !.nodes = nodes]
  <1>1. /\ g \in Graphs /\ x \in Walks /\ x.at = "walking" /\ x.task \in DOMAIN Walk /\ Task(s) = Walk[x.task]
        /\ Walk[x.task].kind = "node" /\ o \in Objects
        /\ NodesOf(s, o) = {m \in NodesSeen(g, x) : m[1] = o}
    BY OnTaskIs
  <1>2. /\ Uncommitted(s, g) /\ OwnRows(s, x, g) /\ Made(x, NodesSeen(g, x), Edges(g, x), Aliases(g, x))
        /\ Hung(x.nodes, x.edges) /\ Visited(x.nodes, x.task)
        /\ x.version = 0 => x.nodes = {} /\ x.edges = {}
        /\ IsFiniteSet(x.nodes) /\ IsFiniteSet(x.edges)
    BY OnTaskIs
  <1>3. own \in Node /\ own[1] = o /\ own[2] = s /\ \A m \in NodesSeen(g, x) : m[1] # o
    BY <1>1 DEF Node
  <1>4. SyncIs(s, Inserted(s, z))
    BY <1>1
  <1> HIDE DEF own
  <1>5. /\ chosen \in [Objects -> Node \cup {NoObject}] /\ chosen[o] = own
        /\ \A p \in Objects : p # o => chosen[p] = x.chosen[p]
    BY <1>1, <1>3 DEF Walks
  <1>6. nodes \subseteq Node /\ IsFiniteSet(nodes)
    BY <1>1, <1>2, <1>3, FS_AddElement DEF Walks
  <1> HIDE DEF chosen, nodes
  <1>7. /\ z \in Walks /\ z.task = x.task /\ z.chosen = chosen /\ z.nodes = nodes /\ z.edges = x.edges
        /\ z.aliases = x.aliases /\ z.version = x.version
    BY <1>1, <1>5, <1>6 DEF Walks
  <1> HIDE DEF z
  <1>8. /\ NodesSeen(g, z) = NodesSeen(g, x) \cup {own} /\ Edges(g, z) = Edges(g, x) /\ Aliases(g, z) = Aliases(g, x)
    BY <1>7 DEF NodesSeen, Edges, Aliases, nodes
  <1>9. OwnRows(s, z, g)
    BY <1>2, <1>3, <1>7, <1>8 DEF OwnRows, Joined, nodes
  <1>10. Made(z, NodesSeen(g, z), Edges(g, z), Aliases(g, z))
    <2> SUFFICES ASSUME NEW i \in 1..(x.task - 1)
                 PROVE  /\ Left(i, NodesSeen(g, z), Edges(g, z), Aliases(g, z))
                        /\ Walk[i].kind = "node" =>
                              z.chosen[Walk[i].object] \in NodesSeen(g, z) /\ z.chosen[Walk[i].object][1] = Walk[i].object
      BY <1>7 DEF Made
    <2>1. Left(i, NodesSeen(g, x), Edges(g, x), Aliases(g, x))
      BY <1>2 DEF Made
    <2>2. Left(i, NodesSeen(g, z), Edges(g, z), Aliases(g, z))
      BY <1>8, <2>1, LeftGrows
    <2>3. i \in DOMAIN Walk
      <3>1. x.task \in 1..Len(Walk) /\ Len(Walk) \in Nat /\ DOMAIN Walk = 1..Len(Walk)
        BY <1>1, WalkSteps
      <3> QED
        BY <3>1
    <2>4. Walk[i].object \in Objects
      BY <2>3, WalkSteps
    <2> QED
      BY <1>2, <1>3, <1>5, <1>7, <1>8, <2>2, <2>4 DEF Made
  <1>11. \A e \in Edges(g, z) : e[2] # own
    <2>1. Joined(Edges(g, x), NodesSeen(g, x))
      BY <1>2 DEF Joined, OwnRows, SyncInv, Edges, NodesSeen
    <2> QED
      BY <1>3, <1>8, <2>1 DEF Joined
  <1>12. Visited(z.nodes, z.task + 1)
    <2>1. /\ x.task \in 1..((z.task + 1) - 1) /\ \A j \in 1..(x.task - 1) : j \in 1..(z.task + 1 - 1)
      <3>1. x.task \in 1..Len(Walk) /\ Len(Walk) \in Nat /\ DOMAIN Walk = 1..Len(Walk)
        BY <1>1, WalkSteps
      <3> QED
        BY <1>7, <3>1
    <2> QED
      BY <1>1, <1>2, <1>3, <1>7, <2>1 DEF Visited, nodes
  <1>13. \A n \in z.nodes, i \in DOMAIN Walk :
            i # z.task /\ Walk[i].kind = "node" /\ Walk[i].object = n[1] /\ Walk[i].other # NoObject =>
               \E e \in z.edges : e[2] = n /\ e[1][1] = Walk[i].other
    <2> SUFFICES ASSUME NEW n \in z.nodes, NEW i \in DOMAIN Walk, i # z.task, Walk[i].kind = "node",
                        Walk[i].object = n[1], Walk[i].other # NoObject
                 PROVE  \E e \in z.edges : e[2] = n /\ e[1][1] = Walk[i].other
      OBVIOUS
    <2>1. n # own
      BY <1>1, <1>3, <1>7, WalkSteps
    <2> QED
      BY <1>2, <1>7, <2>1 DEF Hung, nodes
  <1>14. FreshRow(s, z, g)
    <2>1. own \in z.nodes /\ z.chosen[o] = own
      BY <1>5, <1>7 DEF nodes
    <2>2. Walk[z.task].kind = "node" /\ Walk[z.task].kind \in {"node", "link"} /\ Walk[z.task].kind # "link"
          /\ z.task \in DOMAIN Walk /\ <<Walk[z.task].object, s>> = own
      BY <1>1, <1>7 DEF own
    <2> QED
      BY <1>2, <1>7, <1>9, <1>10, <1>11, <1>12, <1>13, <2>1, <2>2 DEF FreshRow
  <1>15. z.version = 0 => FirstRow(s, z)
    BY <1>1, <1>2, <1>5, <1>7 DEF FirstRow, nodes, own
  <1>16. NewToGraph(x, z, g)
    BY <1>3, <1>7 DEF NewToGraph, nodes, NodesSeen
  <1>17. ASSUME ~syncOverlap
         PROVE  /\ Unique(NodesSeen(g, z), Edges(g, z))
                /\ Cardinality(NodesSeen(g, z)) + Cardinality(Edges(g, z))
                     = 1 + Cardinality(NodesSeen(g, x)) + Cardinality(Edges(g, x))
    <2>1. AloneHolds(x, g)
      BY <1>17 DEF SyncInv
    <2>2. Unique(NodesSeen(g, z), Edges(g, z))
      BY <1>3, <1>8, <2>1 DEF AloneHolds, Unique
    <2>3. IsFiniteSet(NodesSeen(g, x)) /\ IsFiniteSet(Edges(g, x)) /\ own \notin NodesSeen(g, x)
      BY <1>2, <1>3, SeenAreFinite
    <2>4. Cardinality(NodesSeen(g, x)) \in Nat /\ Cardinality(Edges(g, x)) \in Nat
          /\ Cardinality(NodesSeen(g, z)) = Cardinality(NodesSeen(g, x)) + 1
      BY <1>8, <2>3, FS_AddElement, FS_CardinalityType
    <2> QED
      BY <1>8, <2>2, <2>4
  <1>18. z.task = x.task /\ z.version = x.version /\ IsFiniteSet(z.nodes) /\ IsFiniteSet(z.edges)
    BY <1>2, <1>6, <1>7
  <1> QED
    BY <1>1, <1>4, <1>7, <1>14, <1>15, <1>16, <1>17, <1>18, InsertKeeps

LEMMA VisitNodeKeeps == ASSUME SyncInv, NEW s \in Syncs, VisitNode(s)  PROVE SyncInv'
  <1>1. OnTask(s, "node") /\ Keeps
    BY DEF VisitNode
  <1>2. CASE NodesOf(s, Task(s).object) # {}
    <2>1. PICK n \in NodesOf(s, Task(s).object) : SyncIs(s, Advance([sync[s] EXCEPT !.chosen[Task(s).object] = n]))
      BY <1>2 DEF VisitNode
    <2> QED
      BY <1>1, <2>1, NodeFoundKeeps
  <1>3. CASE NodesOf(s, Task(s).object) = {}
    BY <1>1, <1>3, NodeInsertedKeeps DEF VisitNode
  <1> QED
    BY <1>2, <1>3
-----------------------------------------------------------------------------
LEMMA LinkFoundKeeps ==
  ASSUME SyncInv, NEW s \in Syncs, OnTask(s, "link"), Keeps, NEW to \in NodesOf(s, Task(s).other),
         Linked(s, sync[s].chosen[Task(s).object], to), SyncIs(s, Advance(sync[s]))
  PROVE  SyncInv'
  <1> DEFINE g == graphRows
             x == sync[s]
             o == Walk[x.task].object
             from == x.chosen[o]
             y == Advance(x)
  <1>1. /\ g \in Graphs /\ x \in Walks /\ x.at = "walking" /\ x.task \in DOMAIN Walk /\ Task(s) = Walk[x.task]
        /\ Walk[x.task].kind = "link" /\ o \in Objects
    BY OnTaskIs
  <1>2. OwnRows(s, x, g) /\ Made(x, NodesSeen(g, x), Edges(g, x), Aliases(g, x))
    BY OnTaskIs
  <1>3. /\ y \in Walks /\ y.at = "walking" /\ y.task = x.task + 1 /\ y.chosen = x.chosen /\ y.nodes = x.nodes
        /\ y.edges = x.edges /\ y.aliases = x.aliases /\ y.version = x.version
    BY <1>1, AdvanceIs
  <1>4. sync' = [sync EXCEPT ![s] = y]
    BY DEF SyncIs
  <1> HIDE DEF y
  <1>5. to[1] = Walk[x.task].other
    BY <1>1 DEF NodesOf
  <1>6. from \in NodesSeen(g, x) /\ from[1] = o
    <2>1. PICK j \in 1..(x.task - 1) : Walk[j].kind = "node" /\ Walk[j].object = o
      <3>1. Walk[x.task].kind # "node"
        BY <1>1
      <3> QED
        BY <1>1, <3>1, WalkSteps
    <2> QED
      BY <1>2, <2>1 DEF Made
  <1>7. NodesSeen(g, y) = NodesSeen(g, x) /\ Edges(g, y) = Edges(g, x)
    BY <1>3 DEF NodesSeen, Edges
  <1>8. PICK e \in Edges(g, x) : e[1] = from /\ e[2] = to
    BY <1>1 DEF Linked, Edges
  <1>9. Left(x.task, NodesSeen(g, y), Edges(g, y), Aliases(g, y))
    BY <1>1, <1>5, <1>6, <1>7, <1>8 DEF Left
  <1>10. /\ x.aliases \subseteq y.aliases /\ y.aliases \subseteq NodesSeen(g, x) /\ x.at \in {"walking", "aliasing"}
         /\ \A p \in Objects : y.chosen[p] = x.chosen[p]
         /\ ~(Walk[x.task].kind = "node")
    BY <1>1, <1>2, <1>3 DEF OwnRows
  <1> QED
    BY <1>1, <1>3, <1>4, <1>9, <1>10, FoundKeeps

LEMMA LinkInsertedKeeps ==
  ASSUME SyncInv, NEW s \in Syncs, OnTask(s, "link"), Keeps, NEW to \in NodesOf(s, Task(s).other),
         ~Linked(s, sync[s].chosen[Task(s).object], to),
         SyncIs(s, Inserted(s, [sync[s] EXCEPT !.edges = @ \cup {<<sync[s].chosen[Task(s).object], to, s>>}]))
  PROVE  SyncInv'
  <1> DEFINE g == graphRows
             x == sync[s]
             o == Walk[x.task].object
             from == x.chosen[o]
             own == <<from, to, s>>
             arcs == x.edges \cup {own}
             z == [x EXCEPT !.edges = arcs]
  <1>1. /\ g \in Graphs /\ x \in Walks /\ x.at = "walking" /\ x.task \in DOMAIN Walk /\ Task(s) = Walk[x.task]
        /\ Walk[x.task].kind = "link" /\ o \in Objects
    BY OnTaskIs
  <1>2. /\ Uncommitted(s, g) /\ OwnRows(s, x, g) /\ Made(x, NodesSeen(g, x), Edges(g, x), Aliases(g, x))
        /\ Hung(x.nodes, x.edges) /\ Visited(x.nodes, x.task)
        /\ x.version = 0 => x.nodes = {} /\ x.edges = {}
        /\ IsFiniteSet(x.nodes) /\ IsFiniteSet(x.edges)
    BY OnTaskIs
  <1>3. to \in NodesSeen(g, x) /\ to[1] = Walk[x.task].other
    BY <1>1 DEF NodesOf, NodesSeen
  <1>4. from \in NodesSeen(g, x) /\ from[1] = o
    <2>1. PICK j \in 1..(x.task - 1) : Walk[j].kind = "node" /\ Walk[j].object = o
      <3>1. Walk[x.task].kind # "node"
        BY <1>1
      <3> QED
        BY <1>1, <3>1, WalkSteps
    <2> QED
      BY <1>2, <2>1 DEF Made
  <1>5. \A e \in Edges(g, x) : ~(e[1] = from /\ e[2] = to)
    BY <1>1 DEF Linked, Edges
  <1>6. SyncIs(s, Inserted(s, z))
    BY <1>1
  <1>7. own \in Edge /\ own[1] = from /\ own[2] = to /\ own[3] = s
    <2>1. NodesSeen(g, x) \subseteq Node
      BY <1>1 DEF NodesSeen, Graphs, Walks
    <2>2. from \in Node /\ to \in Node
      BY <1>3, <1>4, <2>1
    <2> HIDE DEF from
    <2> QED
      BY <2>2 DEF Edge
  <1> HIDE DEF own, from
  <1>8. arcs \subseteq Edge /\ IsFiniteSet(arcs)
    BY <1>1, <1>2, <1>7, FS_AddElement DEF Walks
  <1> HIDE DEF arcs
  <1>9. /\ z \in Walks /\ z.task = x.task /\ z.chosen = x.chosen /\ z.nodes = x.nodes /\ z.edges = arcs
        /\ z.aliases = x.aliases /\ z.version = x.version
    BY <1>1, <1>8 DEF Walks
  <1> HIDE DEF z
  <1>10. NodesSeen(g, z) = NodesSeen(g, x) /\ Edges(g, z) = Edges(g, x) \cup {own} /\ Aliases(g, z) = Aliases(g, x)
    BY <1>9 DEF NodesSeen, Edges, Aliases, arcs
  <1>11. OwnRows(s, z, g)
    BY <1>2, <1>3, <1>4, <1>7, <1>9, <1>10 DEF OwnRows, Joined, arcs
  <1>12. Made(z, NodesSeen(g, z), Edges(g, z), Aliases(g, z))
    <2> SUFFICES ASSUME NEW i \in 1..(x.task - 1)
                 PROVE  /\ Left(i, NodesSeen(g, z), Edges(g, z), Aliases(g, z))
                        /\ Walk[i].kind = "node" =>
                              z.chosen[Walk[i].object] \in NodesSeen(g, z) /\ z.chosen[Walk[i].object][1] = Walk[i].object
      BY <1>9 DEF Made
    <2>1. Left(i, NodesSeen(g, x), Edges(g, x), Aliases(g, x))
      BY <1>2 DEF Made
    <2>2. Left(i, NodesSeen(g, z), Edges(g, z), Aliases(g, z))
      BY <1>10, <2>1, LeftGrows
    <2> QED
      BY <1>2, <1>9, <1>10, <2>2 DEF Made
  <1>13. Visited(z.nodes, z.task + 1)
    <2>1. \A j \in 1..(x.task - 1) : j \in 1..((z.task + 1) - 1)
      <3>1. x.task \in 1..Len(Walk) /\ Len(Walk) \in Nat /\ DOMAIN Walk = 1..Len(Walk)
        BY <1>1, WalkSteps
      <3> QED
        BY <1>9, <3>1
    <2> SUFFICES ASSUME NEW n \in z.nodes
                 PROVE  \E j \in 1..((z.task + 1) - 1) : Walk[j].kind = "node" /\ Walk[j].object = n[1]
      BY DEF Visited
    <2>2. PICK j \in 1..(x.task - 1) : Walk[j].kind = "node" /\ Walk[j].object = n[1]
      BY <1>2, <1>9 DEF Visited
    <2> QED
      BY <2>1, <2>2
  <1>14. \A n \in z.nodes, i \in DOMAIN Walk :
            i # z.task /\ Walk[i].kind = "node" /\ Walk[i].object = n[1] /\ Walk[i].other # NoObject =>
               \E e \in z.edges : e[2] = n /\ e[1][1] = Walk[i].other
    BY <1>2, <1>9 DEF Hung, arcs
  <1>15. own \in z.edges /\ own[1][1] = o /\ own[2][1] = Walk[x.task].other
    BY <1>3, <1>4, <1>7, <1>9 DEF arcs
  <1>16. FreshRow(s, z, g)
    <2>1. Walk[z.task].kind # "node" /\ Walk[z.task].kind \in {"node", "link"} /\ z.task \in DOMAIN Walk
      BY <1>1, <1>9
    <2> QED
      BY <1>2, <1>9, <1>11, <1>12, <1>13, <1>14, <1>15, <2>1 DEF FreshRow
  <1>17. z.version = 0 => FirstRow(s, z)
    <2> SUFFICES ASSUME z.version = 0  PROVE FirstRow(s, z)
      OBVIOUS
    <2>1. z.nodes = {} /\ z.edges = {own}
      BY <1>2, <1>9 DEF arcs
    <2> QED
      BY <1>1, <1>7, <1>9, <1>15, <2>1 DEF FirstRow
  <1>18. NewToGraph(x, z, g)
    BY <1>5, <1>7, <1>9 DEF NewToGraph, arcs, Edges
  <1>19. ASSUME ~syncOverlap
         PROVE  /\ Unique(NodesSeen(g, z), Edges(g, z))
                /\ Cardinality(NodesSeen(g, z)) + Cardinality(Edges(g, z))
                     = 1 + Cardinality(NodesSeen(g, x)) + Cardinality(Edges(g, x))
    <2>1. AloneHolds(x, g)
      BY <1>19 DEF SyncInv
    <2>2. Unique(NodesSeen(g, z), Edges(g, z))
      BY <1>5, <1>7, <1>10, <2>1 DEF AloneHolds, Unique
    <2>3. IsFiniteSet(NodesSeen(g, x)) /\ IsFiniteSet(Edges(g, x)) /\ own \notin Edges(g, x)
      BY <1>2, <1>5, <1>7, SeenAreFinite
    <2>4. Cardinality(NodesSeen(g, x)) \in Nat /\ Cardinality(Edges(g, x)) \in Nat
          /\ Cardinality(Edges(g, z)) = Cardinality(Edges(g, x)) + 1
      BY <1>10, <2>3, FS_AddElement, FS_CardinalityType
    <2> QED
      BY <1>10, <2>2, <2>4
  <1>20. z.task = x.task /\ z.version = x.version /\ IsFiniteSet(z.nodes) /\ IsFiniteSet(z.edges)
    BY <1>2, <1>8, <1>9
  <1> QED
    BY <1>1, <1>6, <1>9, <1>16, <1>17, <1>18, <1>19, <1>20, InsertKeeps

LEMMA VisitLinkKeeps == ASSUME SyncInv, NEW s \in Syncs, VisitLink(s)  PROVE SyncInv'
  <1>1. OnTask(s, "link") /\ Keeps
    BY DEF VisitLink
  <1>2. PICK to \in NodesOf(s, Task(s).other) :
           SyncIs(s, IF Linked(s, sync[s].chosen[Task(s).object], to) THEN Advance(sync[s])
                     ELSE Inserted(s, [sync[s] EXCEPT !.edges = @ \cup {<<sync[s].chosen[Task(s).object], to, s>>}]))
    BY DEF VisitLink
  <1>3. CASE Linked(s, sync[s].chosen[Task(s).object], to)
    BY <1>1, <1>2, <1>3, LinkFoundKeeps
  <1>4. CASE ~Linked(s, sync[s].chosen[Task(s).object], to)
    BY <1>1, <1>2, <1>4, LinkInsertedKeeps
  <1> QED
    BY <1>3, <1>4

LEMMA ReadVersionKeeps == ASSUME SyncInv, NEW s \in Syncs, ReadVersion(s)  PROVE SyncInv'
  <1> DEFINE g == graphRows
             x == sync[s]
             y == [x EXCEPT !.at = "writing", !.seen = g.version]
  <1>1. g \in Graphs /\ x \in Walks /\ syncOverlap \in BOOLEAN /\ IsFiniteSet(x.nodes) /\ IsFiniteSet(x.edges)
    BY DEF SyncInv, GraphTypes
  <1>2. x.at = "bumping" /\ sync' = [sync EXCEPT ![s] = y] /\ Keeps
    BY DEF ReadVersion, SyncIs
  <1>3. g.version \in Nat
    BY <1>1 DEF Graphs
  <1>4. /\ y \in Walks /\ y.at = "writing" /\ y.task = x.task /\ y.chosen = x.chosen /\ y.nodes = x.nodes
        /\ y.edges = x.edges /\ y.aliases = x.aliases /\ y.version = x.version /\ y.seen = g.version
    BY <1>1, <1>3 DEF Walks, SyncPlaces
  <1> HIDE DEF y
  <1>5. WalkHolds(s, x, g) /\ OnWay(x) /\ Inserting(x) /\ x.at # "done"
    BY <1>2 DEF SyncInv, OnWay, Inserting
  <1>6. NodesSeen(g, y) = NodesSeen(g, x) /\ Edges(g, y) = Edges(g, x) /\ Aliases(g, y) = Aliases(g, x)
    BY <1>4 DEF NodesSeen, Edges, Aliases
  <1>7. /\ Uncommitted(s, g) /\ OwnRows(s, x, g) /\ Made(x, NodesSeen(g, x), Edges(g, x), Aliases(g, x))
        /\ FirstRow(s, x)
    BY <1>5 DEF WalkHolds
  <1>8. OwnRows(s, y, g) /\ Made(y, NodesSeen(g, y), Edges(g, y), Aliases(g, y)) /\ FirstRow(s, y)
    <2>1. OwnRows(s, y, g)
      BY <1>4, <1>6, <1>7 DEF OwnRows
    <2>2. Made(y, NodesSeen(g, y), Edges(g, y), Aliases(g, y))
      BY <1>4, <1>6, <1>7 DEF Made
    <2>3. FirstRow(s, y)
      BY <1>4, <1>7 DEF FirstRow
    <2> QED
      BY <2>1, <2>2, <2>3
  <1>9. WalkHolds(s, y, g)
    BY <1>4, <1>7, <1>8 DEF WalkHolds, OnWay, Inserting
  <1>10. ~syncOverlap => AloneHolds(y, g)
    BY <1>4, <1>6 DEF AloneHolds, SyncInv
  <1>11. ~syncOverlap' => /\ ~syncOverlap /\ AloneHolds(y, graphRows)
                          /\ OnWay(y) => \A t \in Syncs \ {s} : ~OnWay(sync[t])
    BY <1>2, <1>5, <1>10 DEF Keeps, SyncInv
  <1>12. /\ graphRows' = graphRows /\ syncOverlap' \in BOOLEAN /\ sync[s].at # "done" /\ y.at # "done"
         /\ IsFiniteSet(y.nodes) /\ IsFiniteSet(y.edges) /\ ~(y.version > 0)
    BY <1>1, <1>2, <1>4, <1>5, <1>7 DEF Keeps, FirstRow
  <1> QED
    BY <1>2, <1>4, <1>9, <1>11, <1>12, OwnStepKeeps
-----------------------------------------------------------------------------
(* A request about to write its first version.                             *)
LEMMA FirstIsFresh ==
  ASSUME SyncInv, NEW s \in Syncs, Inserting(sync[s])
  PROVE  FreshRow(s, sync[s], graphRows)
  <1> DEFINE g == graphRows
             x == sync[s]
             o == Walk[x.task].object
             own == <<o, s>>
  <1>1. OnWay(x) /\ x.at # "done" /\ WalkHolds(s, x, g)
    BY DEF SyncInv, OnWay, Inserting
  <1>2. /\ Uncommitted(s, g) /\ OwnRows(s, x, g) /\ Made(x, NodesSeen(g, x), Edges(g, x), Aliases(g, x))
        /\ FirstRow(s, x)
    BY <1>1 DEF WalkHolds
  <1>3. x.task \in DOMAIN Walk /\ x.task \in 1..((x.task + 1) - 1)
    <2>1. x.task \in DOMAIN Walk
      BY <1>2 DEF FirstRow
    <2>2. x.task \in 1..Len(Walk) /\ Len(Walk) \in Nat
      BY <2>1, WalkSteps
    <2> QED
      BY <2>1, <2>2
  <1>4. own[1] = o /\ own[2] = s
    OBVIOUS
  <1>5. CASE /\ Walk[x.task].kind = "node" /\ x.edges = {}
             /\ x.nodes = {<<Walk[x.task].object, s>>} /\ x.chosen[o] = <<Walk[x.task].object, s>>
    <2>1. x.nodes = {own} /\ x.chosen[o] = own
      BY <1>5
    <2> HIDE DEF own
    <2>2. \A e \in Edges(g, x) : e[2] # own
      BY <1>2, <1>4, <1>5 DEF Edges, Uncommitted, Joined, SyncInv
    <2>3. Visited(x.nodes, x.task + 1)
      BY <1>3, <1>4, <1>5, <2>1 DEF Visited
    <2>4. \A n \in x.nodes, i \in DOMAIN Walk :
             i # x.task /\ Walk[i].kind = "node" /\ Walk[i].object = n[1] /\ Walk[i].other # NoObject =>
                \E e \in x.edges : e[2] = n /\ e[1][1] = Walk[i].other
      <3> SUFFICES ASSUME NEW n \in x.nodes, NEW i \in DOMAIN Walk, i # x.task, Walk[i].kind = "node",
                          Walk[i].object = n[1]
                   PROVE  FALSE
        OBVIOUS
      <3>1. n[1] = o
        BY <1>4, <2>1
      <3>2. x.task \in DOMAIN Walk /\ Walk[x.task].kind = "node"
        BY <1>3, <1>5
      <3> QED
        BY <3>1, <3>2, WalkSteps
    <2>5. own = <<Walk[x.task].object, s>> /\ own \in x.nodes
      BY <2>1 DEF own
    <2>6. Walk[x.task].kind \in {"node", "link"} /\ ~(Walk[x.task].kind = "link")
      BY <1>5
    <2> HIDE DEF x, g, o
    <2> QED
      BY <1>2, <1>3, <2>1, <2>2, <2>3, <2>4, <2>5, <2>6 DEF FreshRow, o, x, g
  <1>6. CASE /\ Walk[x.task].kind = "link" /\ x.nodes = {}
             /\ \E e \in Edge : x.edges = {e} /\ e[1][1] = Walk[x.task].object /\ e[2][1] = Walk[x.task].other
    <2>1. Visited(x.nodes, x.task + 1)
      BY <1>6 DEF Visited
    <2>2. \E e \in x.edges : e[1][1] = Walk[x.task].object /\ e[2][1] = Walk[x.task].other
      BY <1>6
    <2>3. Walk[x.task].kind \in {"node", "link"} /\ Walk[x.task].kind # "node"
      BY <1>6
    <2> QED
      BY <1>2, <1>3, <1>6, <2>1, <2>2, <2>3 DEF FreshRow
  <1> QED
    BY <1>2, <1>5, <1>6 DEF FirstRow

(* Without overlap, the first version is what the one row it has written   *)
(* makes of the version it has read.                                       *)
LEMMA FirstVersionCounts ==
  ASSUME SyncInv, NEW s \in Syncs, sync[s].at = "writing", ~syncOverlap
  PROVE  /\ Unique(NodesSeen(graphRows, sync[s]), Edges(graphRows, sync[s]))
         /\ (IF sync[s].seen = 0 THEN 1 ELSE sync[s].seen)
               = Cardinality(NodesSeen(graphRows, sync[s])) + Cardinality(Edges(graphRows, sync[s]))
  <1> DEFINE g == graphRows
             x == sync[s]
  <1>1. OnWay(x) /\ Inserting(x) /\ x.at # "done" /\ WalkHolds(s, x, g) /\ g \in Graphs
    BY DEF SyncInv, OnWay, Inserting, GraphTypes
  <1>2. Uncommitted(s, g) /\ OwnRows(s, x, g) /\ FirstRow(s, x)
    BY <1>1 DEF WalkHolds
  <1>3. AloneHolds(x, g) /\ x.seen = g.version /\ Unique(NodesSeen(g, x), Edges(g, x))
    BY DEF SyncInv, AloneHolds
  <1>4. IF g.nodes = {} THEN g.version = 0 ELSE Counted(g.version, g.nodes, g.edges)
    BY DEF SyncInv
  <1>5. IsFiniteSet(g.nodes) /\ IsFiniteSet(g.edges) /\ Joined(g.edges, g.nodes)
    BY DEF SyncInv, GraphTypes
  <1>6. Cardinality(g.nodes) \in Nat /\ Cardinality(g.edges) \in Nat
    BY <1>5, FS_CardinalityType
  <1>7. Cardinality(NodesSeen(g, x)) + Cardinality(Edges(g, x)) = 1 + Cardinality(g.nodes) + Cardinality(g.edges)
    <2>1. ASSUME NEW n, x.nodes = {n}, x.edges = {}
          PROVE  Cardinality(NodesSeen(g, x)) + Cardinality(Edges(g, x)) = 1 + Cardinality(g.nodes) + Cardinality(g.edges)
      <3>1. n \notin g.nodes
        BY <1>2, <2>1 DEF Uncommitted, OwnRows
      <3>2. NodesSeen(g, x) = g.nodes \cup {n} /\ Edges(g, x) = g.edges
        BY <2>1 DEF NodesSeen, Edges
      <3>3. Cardinality(g.nodes \cup {n}) = Cardinality(g.nodes) + 1
        BY <1>5, <3>1, FS_AddElement
      <3> QED
        BY <1>6, <3>2, <3>3
    <2>2. ASSUME NEW e, x.edges = {e}, x.nodes = {}
          PROVE  Cardinality(NodesSeen(g, x)) + Cardinality(Edges(g, x)) = 1 + Cardinality(g.nodes) + Cardinality(g.edges)
      <3>1. e \notin g.edges
        BY <1>2, <2>2 DEF Uncommitted, OwnRows
      <3>2. NodesSeen(g, x) = g.nodes /\ Edges(g, x) = g.edges \cup {e}
        BY <2>2 DEF NodesSeen, Edges
      <3>3. Cardinality(g.edges \cup {e}) = Cardinality(g.edges) + 1
        BY <1>5, <3>1, FS_AddElement
      <3> QED
        BY <1>6, <3>2, <3>3
    <2> QED
      BY <1>2, <2>1, <2>2 DEF FirstRow
  <1>8. CASE g.nodes = {}
    <2>1. g.edges = {}
      BY <1>5, <1>8 DEF Joined
    <2>2. Cardinality(g.nodes) = 0 /\ Cardinality(g.edges) = 0
      BY <1>8, <2>1, FS_EmptySet
    <2>3. x.seen = 0
      BY <1>3, <1>4, <1>8
    <2> QED
      BY <1>3, <1>7, <2>2, <2>3
  <1>9. CASE g.nodes # {}
    <2>1. x.seen = 1 + Cardinality(g.nodes) + Cardinality(g.edges)
      BY <1>3, <1>4, <1>9 DEF Counted
    <2>2. x.seen # 0
      BY <1>6, <2>1
    <2> QED
      BY <1>3, <1>7, <2>1, <2>2
  <1> QED
    BY <1>8, <1>9

LEMMA WriteVersionKeeps == ASSUME SyncInv, NEW s \in Syncs, WriteVersion(s)  PROVE SyncInv'
  <1> DEFINE g == graphRows
             x == sync[s]
             v == IF x.seen = 0 THEN 1 ELSE x.seen
  <1>1. /\ sync[s].at = "writing" /\ \A t \in Syncs : Underway(t) => sync[t].version = 0
        /\ Keeps /\ SyncIs(s, IF x.seen = 0 /\ g.version > 0 THEN Failed(s) ELSE Bumped(s, x, v))
    BY DEF WriteVersion
  <1>2. Inserting(x) /\ OnWay(x) /\ Underway(s)
    BY <1>1 DEF Inserting, OnWay, Underway
  <1>3. \A t \in Syncs : sync[t].version = 0
    <2>1. \A t \in Syncs : Underway(t) <=> OnWay(sync[t])
      BY DEF Underway, OnWay
    <2>2. \A t \in Syncs : ~OnWay(sync[t]) => sync[t].version = 0
      BY DEF SyncInv, WalkHolds
    <2> QED
      BY <1>1, <2>1, <2>2
  <1>4. CASE x.seen = 0 /\ g.version > 0
    BY <1>1, <1>2, <1>4, SyncFailsKeeps
  <1>5. CASE ~(x.seen = 0 /\ g.version > 0)
    <2>1. sync' = [sync EXCEPT ![s] = Bumped(s, x, v)]
      BY <1>1, <1>5 DEF SyncIs
    <2>2. x \in Walks /\ IsFiniteSet(x.nodes) /\ IsFiniteSet(x.edges)
      BY DEF SyncInv, GraphTypes
    <2>3. v \in Nat
      BY <2>2 DEF Walks
    <2>4. FreshRow(s, x, graphRows)
      BY <1>2, FirstIsFresh
    <2>5. NewToGraph(sync[s], x, graphRows)
      BY DEF NewToGraph
    <2>6. ~syncOverlap => /\ Unique(NodesSeen(graphRows, x), Edges(graphRows, x))
                          /\ v = Cardinality(NodesSeen(graphRows, x)) + Cardinality(Edges(graphRows, x))
      BY <1>1, FirstVersionCounts
    <2>7. x.task = sync[s].task /\ \A t \in Syncs \ {s} : sync[t].version = 0
      BY <1>3
    <2> HIDE DEF v
    <2> QED
      BY <1>1, <1>2, <2>1, <2>2, <2>3, <2>4, <2>5, <2>6, <2>7, BumpedKeeps
  <1> QED
    BY <1>4, <1>5
-----------------------------------------------------------------------------
LEMMA VisitAliasKeeps == ASSUME SyncInv, NEW s \in Syncs, VisitAlias(s)  PROVE SyncInv'
  <1> DEFINE g == graphRows
             x == sync[s]
             o == Walk[x.task].object
  <1>1. OnTask(s, "alias") /\ Keeps
    BY DEF VisitAlias
  <1>2. /\ g \in Graphs /\ sync \in [Syncs -> Walks] /\ x \in Walks /\ x.at = "walking" /\ x.task \in DOMAIN Walk
        /\ Task(s) = Walk[x.task] /\ Walk[x.task].kind = "alias" /\ o \in Objects
        /\ NodesOf(s, o) = {m \in NodesSeen(g, x) : m[1] = o} /\ Walk[x.task].other = NoObject /\ OnWay(x)
    BY <1>1, OnTaskIs, WalkSteps
  <1>3. /\ Uncommitted(s, g) /\ OwnRows(s, x, g) /\ Made(x, NodesSeen(g, x), Edges(g, x), Aliases(g, x))
        /\ Hung(x.nodes, x.edges) /\ Visited(x.nodes, x.task)
        /\ x.version = 0 => x.nodes = {} /\ x.edges = {}
        /\ IsFiniteSet(x.nodes) /\ IsFiniteSet(x.edges)
    BY <1>1, OnTaskIs
  <1>4. PICK n \in NodesOf(s, o) :
           SyncIs(s, IF n \in graphRows.aliases \cup x.aliases THEN Advance(x)
                     ELSE [x EXCEPT !.at = "aliasing", !.chosen[o] = n])
    BY <1>2 DEF VisitAlias
  <1>5. n \in NodesSeen(g, x) /\ n[1] = o /\ n \in Node
    BY <1>2, <1>4 DEF NodesSeen, Graphs, Walks
  <1>6. CASE n \in graphRows.aliases \cup x.aliases
    <2> DEFINE y == Advance(x)
    <2>1. /\ y \in Walks /\ y.at = "walking" /\ y.task = x.task + 1 /\ y.chosen = x.chosen /\ y.nodes = x.nodes
          /\ y.edges = x.edges /\ y.aliases = x.aliases /\ y.version = x.version
      BY <1>2, AdvanceIs
    <2>2. sync' = [sync EXCEPT ![s] = y]
      BY <1>4, <1>6 DEF SyncIs
    <2> HIDE DEF y
    <2>3. n \in NodesSeen(g, y) /\ n \in Aliases(g, y)
      BY <1>5, <1>6, <2>1 DEF NodesSeen, Aliases
    <2>4. Left(x.task, NodesSeen(g, y), Edges(g, y), Aliases(g, y))
      BY <1>2, <1>5, <2>3 DEF Left
    <2>5. /\ x.aliases \subseteq y.aliases /\ y.aliases \subseteq NodesSeen(g, x) /\ x.at \in {"walking", "aliasing"}
          /\ \A p \in Objects : y.chosen[p] = x.chosen[p]
          /\ ~(Walk[x.task].kind = "node")
      BY <1>2, <1>3, <2>1 DEF OwnRows
    <2> QED
      BY <1>1, <1>2, <2>1, <2>2, <2>4, <2>5, FoundKeeps
  <1>7. CASE ~(n \in graphRows.aliases \cup x.aliases)
    <2> DEFINE chosen == [x.chosen EXCEPT ![o] = n]
               y == [x EXCEPT !.at = "aliasing", !.chosen = chosen]
    <2>1. sync' = [sync EXCEPT ![s] = y]
      BY <1>4, <1>7 DEF SyncIs
    <2>2. /\ chosen \in [Objects -> Node \cup {NoObject}] /\ chosen[o] = n
          /\ \A p \in Objects : p # o => chosen[p] = x.chosen[p]
      BY <1>2, <1>5 DEF Walks
    <2> HIDE DEF chosen
    <2>3. /\ y \in Walks /\ y.at = "aliasing" /\ y.task = x.task /\ y.chosen = chosen /\ y.nodes = x.nodes
          /\ y.edges = x.edges /\ y.aliases = x.aliases /\ y.version = x.version
      BY <1>2, <2>2 DEF Walks, SyncPlaces
    <2> HIDE DEF y
    <2>4. NodesSeen(g, y) = NodesSeen(g, x) /\ Edges(g, y) = Edges(g, x) /\ Aliases(g, y) = Aliases(g, x)
      BY <2>3 DEF NodesSeen, Edges, Aliases
    <2>5. Made(y, NodesSeen(g, y), Edges(g, y), Aliases(g, y))
      <3> SUFFICES ASSUME NEW i \in 1..(x.task - 1)
                   PROVE  /\ Left(i, NodesSeen(g, x), Edges(g, x), Aliases(g, x))
                          /\ Walk[i].kind = "node" =>
                                chosen[Walk[i].object] \in NodesSeen(g, x) /\ chosen[Walk[i].object][1] = Walk[i].object
        BY <2>3, <2>4 DEF Made
      <3>1. i \in DOMAIN Walk
        <4>1. x.task \in 1..Len(Walk) /\ Len(Walk) \in Nat /\ DOMAIN Walk = 1..Len(Walk)
          BY <1>2, WalkSteps
        <4> QED
          BY <4>1
      <3>2. Walk[i].object \in Objects
        BY <3>1, WalkSteps
      <3> QED
        BY <1>3, <1>5, <2>2, <3>2 DEF Made
    <2>6. OwnRows(s, y, g)
      <3>1. OwnRows(s, x, g)
        BY <1>3
      <3>2. y.nodes = x.nodes /\ y.edges = x.edges /\ y.aliases = x.aliases /\ NodesSeen(g, y) = NodesSeen(g, x)
        BY <2>3, <2>4
      <3> QED
        BY <3>1, <3>2 DEF OwnRows
    <2>7. Hung(y.nodes, y.edges) /\ Visited(y.nodes, y.task) /\ (y.version = 0 => y.nodes = {} /\ y.edges = {})
      BY <1>3, <2>3
    <2>8. /\ y.task \in DOMAIN Walk /\ Walk[y.task].kind = "alias"
          /\ y.chosen[Walk[y.task].object] \in NodesSeen(g, y) /\ y.chosen[Walk[y.task].object][1] = Walk[y.task].object
      BY <1>2, <1>5, <2>2, <2>3, <2>4
    <2>9. WalkHolds(s, y, g)
      BY <1>3, <2>3, <2>5, <2>6, <2>7, <2>8 DEF WalkHolds, OnWay, Inserting
    <2>10. ~syncOverlap => AloneHolds(y, g)
      BY <2>3, <2>4 DEF AloneHolds, SyncInv
    <2>11. ~syncOverlap' => /\ ~syncOverlap /\ AloneHolds(y, graphRows)
                            /\ OnWay(y) => \A t \in Syncs \ {s} : ~OnWay(sync[t])
      BY <1>1, <1>2, <2>10 DEF Keeps, SyncInv
    <2>12. /\ graphRows' = graphRows /\ syncOverlap' \in BOOLEAN /\ sync[s].at # "done" /\ y.at # "done"
           /\ IsFiniteSet(y.nodes) /\ IsFiniteSet(y.edges)
      BY <1>1, <1>2, <1>3, <2>3 DEF Keeps, SyncInv, GraphTypes
    <2>13. y.version > 0 =>
              /\ sync[s].version > 0 \/ \A t \in Syncs \ {s} : sync[t].version = 0
              /\ NewToGraph(sync[s], y, graphRows)
      BY <2>3 DEF NewToGraph
    <2> QED
      BY <2>1, <2>3, <2>9, <2>11, <2>12, <2>13, OwnStepKeeps
  <1> QED
    BY <1>6, <1>7

LEMMA InsertAliasKeeps == ASSUME SyncInv, NEW s \in Syncs, InsertAlias(s)  PROVE SyncInv'
  <1> DEFINE g == graphRows
             x == sync[s]
             o == Walk[x.task].object
             n == x.chosen[o]
  <1>1. /\ x.at = "aliasing" /\ Keeps /\ Task(s) = Walk[x.task]
        /\ SyncIs(s, IF n \in graphRows.aliases THEN Failed(s) ELSE Advance([x EXCEPT !.aliases = @ \cup {n}]))
    BY DEF InsertAlias, Task
  <1>2. g \in Graphs /\ x \in Walks /\ WalkHolds(s, x, g) /\ OnWay(x) /\ Underway(s)
    BY <1>1 DEF SyncInv, GraphTypes, OnWay, Underway
  <1>3. /\ x.task \in DOMAIN Walk /\ Walk[x.task].kind = "alias" /\ n \in NodesSeen(g, x) /\ n[1] = o
        /\ OwnRows(s, x, g)
    BY <1>1, <1>2 DEF WalkHolds
  <1>4. CASE n \in graphRows.aliases
    BY <1>1, <1>2, <1>4, SyncFailsKeeps
  <1>5. CASE n \notin graphRows.aliases
    <2> DEFINE aliases == x.aliases \cup {n}
               a == [x EXCEPT !.aliases = aliases]
               y == Advance(a)
    <2>1. sync' = [sync EXCEPT ![s] = y]
      BY <1>1, <1>5 DEF SyncIs
    <2>2. aliases \subseteq Node
      <3>1. NodesSeen(g, x) \subseteq Node /\ x.aliases \subseteq Node
        BY <1>2 DEF NodesSeen, Graphs, Walks
      <3> QED
        BY <1>3, <3>1
    <2>3. aliases \subseteq NodesSeen(g, x) /\ n \in aliases /\ x.aliases \subseteq aliases
      BY <1>3 DEF OwnRows
    <2> HIDE DEF aliases
    <2>4. /\ a \in Walks /\ a.task = x.task /\ a.chosen = x.chosen /\ a.nodes = x.nodes /\ a.edges = x.edges
          /\ a.aliases = aliases /\ a.version = x.version
      BY <1>2, <2>2 DEF Walks
    <2> HIDE DEF a
    <2>5. /\ y \in Walks /\ y.at = "walking" /\ y.task = x.task + 1 /\ y.chosen = x.chosen /\ y.nodes = x.nodes
          /\ y.edges = x.edges /\ y.aliases = aliases /\ y.version = x.version
      BY <1>3, <2>4, AdvanceIs
    <2> HIDE DEF y
    <2>6. n \in NodesSeen(g, y) /\ n \in Aliases(g, y)
      BY <1>3, <2>3, <2>5 DEF NodesSeen, Aliases
    <2>7. Walk[x.task].other = NoObject
      BY <1>3, WalkSteps
    <2>8. Left(x.task, NodesSeen(g, y), Edges(g, y), Aliases(g, y))
      BY <1>3, <2>6, <2>7 DEF Left
    <2>9. /\ x.aliases \subseteq y.aliases /\ y.aliases \subseteq NodesSeen(g, x) /\ x.at \in {"walking", "aliasing"}
          /\ \A p \in Objects : y.chosen[p] = x.chosen[p]
          /\ ~(Walk[x.task].kind = "node")
      BY <1>1, <1>3, <2>3, <2>5
    <2> QED
      BY <1>1, <1>3, <2>1, <2>5, <2>8, <2>9, FoundKeeps
  <1> QED
    BY <1>4, <1>5
-----------------------------------------------------------------------------
(* The commit: what the request sees becomes the graph.                    *)
LEMMA OthersSeeMore ==
  ASSUME NEW t \in Syncs, NEW y, NEW g, NEW h, g.nodes \subseteq h.nodes, g.edges \subseteq h.edges,
         g.aliases \subseteq h.aliases, WalkHolds(t, y, g), y.at # "done" => Uncommitted(t, h)
  PROVE  WalkHolds(t, y, h)
  <1>1. NodesSeen(g, y) \subseteq NodesSeen(h, y) /\ Edges(g, y) \subseteq Edges(h, y) /\ Aliases(g, y) \subseteq Aliases(h, y)
    BY DEF NodesSeen, Edges, Aliases
  <1>2. OwnRows(t, y, h)
    BY <1>1 DEF WalkHolds, OwnRows, Joined
  <1>3. ASSUME OnWay(y)  PROVE Made(y, NodesSeen(h, y), Edges(h, y), Aliases(h, y))
    <2> SUFFICES ASSUME NEW i \in 1..(y.task - 1)
                 PROVE  /\ Left(i, NodesSeen(h, y), Edges(h, y), Aliases(h, y))
                        /\ Walk[i].kind = "node" =>
                              y.chosen[Walk[i].object] \in NodesSeen(h, y) /\ y.chosen[Walk[i].object][1] = Walk[i].object
      BY DEF Made
    <2>1. /\ Left(i, NodesSeen(g, y), Edges(g, y), Aliases(g, y))
          /\ Walk[i].kind = "node" =>
                y.chosen[Walk[i].object] \in NodesSeen(g, y) /\ y.chosen[Walk[i].object][1] = Walk[i].object
      BY <1>3 DEF WalkHolds, Made
    <2>2. Left(i, NodesSeen(h, y), Edges(h, y), Aliases(h, y))
      BY <1>1, <2>1, LeftGrows
    <2> QED
      BY <1>1, <2>1, <2>2
  <1> QED
    BY <1>1, <1>2, <1>3 DEF WalkHolds

LEMMA CommitSyncKeeps == ASSUME SyncInv, NEW s \in Syncs, CommitSync(s)  PROVE SyncInv'
  <1> DEFINE g == graphRows
             x == sync[s]
             y == [NewSync EXCEPT !.at = "done"]
             version == IF x.version > 0 THEN x.version ELSE g.version
             h == [nodes |-> g.nodes \cup x.nodes, edges |-> g.edges \cup x.edges,
                   aliases |-> g.aliases \cup x.aliases, version |-> version]
  <1>1. /\ g \in Graphs /\ sync \in [Syncs -> Walks] /\ \A t \in Syncs : sync[t] \in Walks
        /\ syncOverlap' = syncOverlap /\ syncOverlap \in BOOLEAN
        /\ IsFiniteSet(g.nodes) /\ IsFiniteSet(g.edges) /\ IsFiniteSet(x.nodes) /\ IsFiniteSet(x.edges)
    BY DEF SyncInv, GraphTypes, CommitSync
  <1>2. x.at = "walking" /\ x.task > Len(Walk) /\ sync' = [sync EXCEPT ![s] = y] /\ graphRows' = h
    BY DEF CommitSync, SyncIs
  <1>3. /\ y \in Walks /\ y.at = "done" /\ y.nodes = {} /\ y.edges = {} /\ y.aliases = {} /\ y.version = 0
    <2>1. [o \in Objects |-> NoObject] \in [Objects -> Node \cup {NoObject}]
      OBVIOUS
    <2>2. 1 \in 1..(Len(Walk) + 1)
      BY WalkSteps
    <2> QED
      BY <2>1, <2>2 DEF NewSync, Walks, SyncPlaces
  <1>4. WalkHolds(s, x, g) /\ OnWay(x) /\ ~OnWay(y)
    BY <1>2, <1>3 DEF SyncInv, OnWay
  <1>5. /\ Uncommitted(s, g) /\ OwnRows(s, x, g) /\ Made(x, NodesSeen(g, x), Edges(g, x), Aliases(g, x))
        /\ Hung(x.nodes, x.edges)
        /\ x.version = 0 => x.nodes = {} /\ x.edges = {}
    BY <1>2, <1>4 DEF WalkHolds
  <1>6. version \in Nat /\ x.version \in Nat
    BY <1>1 DEF Walks, Graphs
  <1> HIDE DEF y
  <1>7. /\ h.nodes = NodesSeen(g, x) /\ h.edges = Edges(g, x) /\ h.aliases = Aliases(g, x) /\ h.version = version
    BY DEF NodesSeen, Edges, Aliases
  <1>8. h \in Graphs /\ IsFiniteSet(h.nodes) /\ IsFiniteSet(h.edges)
    <2>1. g.nodes \cup x.nodes \in SUBSET Node /\ g.edges \cup x.edges \in SUBSET Edge
          /\ g.aliases \cup x.aliases \in SUBSET Node
      BY <1>1 DEF Graphs, Walks
    <2>2. IsFiniteSet(g.nodes \cup x.nodes) /\ IsFiniteSet(g.edges \cup x.edges)
      BY <1>1, FS_Union
    <2> HIDE DEF version
    <2> QED
      BY <1>6, <2>1, <2>2 DEF Graphs
  <1> HIDE DEF h, version
  <1>9. sync'[s] = y /\ \A t \in Syncs \ {s} : sync'[t] = sync[t]
    BY <1>1, <1>2
  <1>10. GraphTypes'
    <2>1. sync' \in [Syncs -> Walks]
      BY <1>1, <1>2, <1>3
    <2>2. ASSUME NEW t \in Syncs  PROVE IsFiniteSet(sync'[t].nodes) /\ IsFiniteSet(sync'[t].edges)
      <3>1. CASE t = s
        BY <1>3, <1>9, <3>1, FS_EmptySet
      <3>2. CASE t # s
        BY <1>9, <3>2 DEF SyncInv, GraphTypes
      <3> QED
        BY <3>1, <3>2
    <2> QED
      BY <1>1, <1>2, <1>8, <2>1, <2>2 DEF GraphTypes
  <1>11. Joined(h.edges, h.nodes) /\ h.aliases \subseteq h.nodes /\ Hung(h.nodes, h.edges)
    <2>1. Joined(g.edges, g.nodes) /\ g.aliases \subseteq g.nodes /\ Hung(g.nodes, g.edges)
      BY DEF SyncInv
    <2>2. Joined(h.edges, h.nodes)
      BY <1>5, <1>7, <2>1 DEF Joined, OwnRows, NodesSeen, Edges
    <2>3. h.aliases \subseteq h.nodes
      BY <1>5, <1>7, <2>1 DEF OwnRows, NodesSeen, Aliases
    <2>4. Hung(h.nodes, h.edges)
      BY <1>5, <1>7, <2>1 DEF Hung, NodesSeen, Edges
    <2> QED
      BY <2>2, <2>3, <2>4
  <1>12. ASSUME NEW t \in Syncs  PROVE WalkHolds(t, sync'[t], h)
    <2>1. CASE t = s
      BY <1>3, <1>4, <1>9, <2>1 DEF WalkHolds, OwnRows, Joined, Inserting
    <2>2. CASE t # s
      <3>1. WalkHolds(t, sync[t], g)
        BY DEF SyncInv
      <3>2. sync[t].at # "done" => Uncommitted(t, h)
        BY <1>5, <1>7, <2>2, <3>1 DEF WalkHolds, Uncommitted, OwnRows, NodesSeen, Edges
      <3>3. g.nodes \subseteq h.nodes /\ g.edges \subseteq h.edges /\ g.aliases \subseteq h.aliases
        BY <1>7 DEF NodesSeen, Edges, Aliases
      <3> QED
        BY <1>9, <2>2, <3>1, <3>2, <3>3, OthersSeeMore
    <2> QED
      BY <2>1, <2>2
  <1>13. Added(s, y, h) = Added(s, x, g)
    BY <1>3, <1>7 DEF Added, NodesSeen, Edges
  <1>14. \A t \in Syncs \ {s} : Added(t, sync[t], h) = Added(t, sync[t], g)
    <2> SUFFICES ASSUME NEW t \in Syncs \ {s}  PROVE Added(t, sync[t], h) = Added(t, sync[t], g)
      OBVIOUS
    <2>1. {m \in NodesSeen(h, sync[t]) : m[2] = t} = {m \in NodesSeen(g, sync[t]) : m[2] = t}
      BY <1>5, <1>7 DEF NodesSeen, OwnRows
    <2>2. {f \in Edges(h, sync[t]) : f[3] = t} = {f \in Edges(g, sync[t]) : f[3] = t}
      BY <1>5, <1>7 DEF Edges, OwnRows
    <2> QED
      BY <2>1, <2>2 DEF Added
  <1>15. \A t, u \in Syncs : t # u => PairHolds(t, u, sync'[t], sync'[u], h)
    <2> SUFFICES ASSUME NEW t \in Syncs, NEW u \in Syncs, t # u  PROVE PairHolds(t, u, sync'[t], sync'[u], h)
      OBVIOUS
    <2>1. PairHolds(t, u, sync[t], sync[u], g)
      BY DEF SyncInv
    <2>2. CASE t = s
      <3>1. Added(t, sync'[t], h) = Added(t, sync[t], g) /\ Added(u, sync'[u], h) = Added(u, sync[u], g)
        BY <1>9, <1>13, <1>14, <2>2
      <3>2. sync'[t].version = 0
        BY <1>3, <1>9, <2>2
      <3> QED
        BY <2>1, <3>1, <3>2 DEF PairHolds
    <2>3. CASE u = s
      <3>1. Added(t, sync'[t], h) = Added(t, sync[t], g) /\ Added(u, sync'[u], h) = Added(u, sync[u], g)
        BY <1>9, <1>13, <1>14, <2>3
      <3>2. sync'[u].version = 0
        BY <1>3, <1>9, <2>3
      <3> QED
        BY <2>1, <3>1, <3>2 DEF PairHolds
    <2>4. CASE t # s /\ u # s
      <3>1. Added(t, sync'[t], h) = Added(t, sync[t], g) /\ Added(u, sync'[u], h) = Added(u, sync[u], g)
        BY <1>9, <1>14, <2>4
      <3>2. sync'[t] = sync[t] /\ sync'[u] = sync[u]
        BY <1>9, <2>4
      <3> QED
        BY <2>1, <3>1, <3>2 DEF PairHolds
    <2> QED
      BY <2>2, <2>3, <2>4
  <1>16. ASSUME NEW i \in DOMAIN Walk  PROVE Left(i, h.nodes, h.edges, h.aliases)
    <2>1. i \in 1..(x.task - 1)
      <3>1. Len(Walk) \in Nat /\ i \in 1..Len(Walk)
        BY WalkSteps
      <3>2. x.task \in 1..(Len(Walk) + 1)
        BY <1>1 DEF Walks
      <3> QED
        BY <1>2, <3>1, <3>2
    <2> QED
      BY <1>5, <1>7, <2>1 DEF Made
  <1>17. ASSUME ~syncOverlap'
         PROVE  /\ \A t, u \in Syncs : OnWay(sync'[t]) /\ OnWay(sync'[u]) => t = u
                /\ IF h.nodes = {} THEN h.version = 0 ELSE Counted(h.version, h.nodes, h.edges)
                /\ \A t \in Syncs : AloneHolds(sync'[t], h)
    <2>1. ~syncOverlap /\ AloneHolds(x, g)
          /\ (IF g.nodes = {} THEN g.version = 0 ELSE Counted(g.version, g.nodes, g.edges))
          /\ \A t \in Syncs : OnWay(sync[t]) => t = s
      BY <1>1, <1>4, <1>17 DEF SyncInv
    <2>2. \A t \in Syncs : ~OnWay(sync'[t])
      BY <1>4, <1>9, <2>1
    <2>3. IF h.nodes = {} THEN h.version = 0 ELSE Counted(h.version, h.nodes, h.edges)
      <3>1. CASE x.version > 0
        BY <1>7, <2>1, <3>1 DEF AloneHolds, version
      <3>2. CASE ~(x.version > 0)
        <4>1. x.version = 0
          BY <1>6, <3>2
        <4>2. h.nodes = g.nodes /\ h.edges = g.edges
          BY <1>5, <1>7, <4>1 DEF NodesSeen, Edges
        <4>3. h.version = g.version
          BY <1>7, <3>2 DEF version
        <4> QED
          BY <2>1, <4>2, <4>3
      <3> QED
        BY <3>1, <3>2
    <2>4. ASSUME NEW t \in Syncs  PROVE AloneHolds(sync'[t], h)
      <3>1. sync'[t].nodes = {} /\ sync'[t].edges = {} /\ sync'[t].version = 0 /\ sync'[t].at # "writing"
        BY <1>12, <2>2 DEF WalkHolds, OnWay
      <3>2. NodesSeen(h, sync'[t]) = NodesSeen(g, x) /\ Edges(h, sync'[t]) = Edges(g, x)
        BY <1>7, <3>1 DEF NodesSeen, Edges
      <3> QED
        BY <2>1, <3>1, <3>2 DEF AloneHolds
    <2> QED
      BY <2>2, <2>3, <2>4
  <1>18. graphRows' = h
    BY <1>2
  <1> HIDE DEF x, g
  <1>19. (\A t \in Syncs : WalkHolds(t, sync[t], graphRows))'
    BY <1>12, <1>18
  <1>20. (\A t, u \in Syncs : t # u => PairHolds(t, u, sync[t], sync[u], graphRows))'
    BY <1>15, <1>18
  <1>21. (~syncOverlap =>
            /\ \A t, u \in Syncs : OnWay(sync[t]) /\ OnWay(sync[u]) => t = u
            /\ IF graphRows.nodes = {} THEN graphRows.version = 0
               ELSE Counted(graphRows.version, graphRows.nodes, graphRows.edges)
            /\ \A t \in Syncs : AloneHolds(sync[t], graphRows))'
    BY <1>17, <1>18
  <1> QED
    BY <1>10, <1>11, <1>16, <1>18, <1>19, <1>20, <1>21 DEF SyncInv
-----------------------------------------------------------------------------
LEMMA SyncInitInv == SyncInit => SyncInv
  <1> SUFFICES ASSUME SyncInit  PROVE SyncInv
    OBVIOUS
  <1> DEFINE g == graphRows
  <1>1. /\ g.nodes = {} /\ g.edges = {} /\ g.aliases = {} /\ g.version = 0 /\ g \in Graphs /\ syncOverlap = FALSE
    BY DEF SyncInit, Graphs
  <1>2. /\ NewSync \in Walks /\ NewSync.at = "new" /\ NewSync.nodes = {} /\ NewSync.edges = {}
        /\ NewSync.aliases = {} /\ NewSync.version = 0
    <2>1. [o \in Objects |-> NoObject] \in [Objects -> Node \cup {NoObject}]
      OBVIOUS
    <2>2. 1 \in 1..(Len(Walk) + 1)
      BY WalkSteps
    <2> QED
      BY <2>1, <2>2 DEF NewSync, Walks, SyncPlaces
  <1>3. sync \in [Syncs -> Walks] /\ \A s \in Syncs : sync[s] = NewSync
    BY <1>2 DEF SyncInit
  <1> HIDE DEF g
  <1>4. GraphTypes
    BY <1>1, <1>2, <1>3, FS_EmptySet DEF GraphTypes, g
  <1>5. Joined(g.edges, g.nodes) /\ g.aliases \subseteq g.nodes /\ Hung(g.nodes, g.edges)
    BY <1>1 DEF Joined, Hung
  <1>6. \A s \in Syncs : WalkHolds(s, sync[s], g) /\ ~OnWay(sync[s])
    BY <1>1, <1>2, <1>3 DEF WalkHolds, OwnRows, Uncommitted, Joined, OnWay, Inserting
  <1>7. \A s \in Syncs : Added(s, sync[s], g) = {}
    BY <1>1, <1>2, <1>3 DEF Added, NodesSeen, Edges
  <1>8. \A s, t \in Syncs : s # t => PairHolds(s, t, sync[s], sync[t], g)
    BY <1>2, <1>3, <1>7 DEF PairHolds, Single
  <1>9. \A s \in Syncs : AloneHolds(sync[s], g)
    BY <1>1, <1>2, <1>3 DEF AloneHolds, Unique, NodesSeen, Edges
  <1> QED
    BY <1>1, <1>2, <1>3, <1>4, <1>5, <1>6, <1>8, <1>9 DEF SyncInv, g

LEMMA SyncStepInv == SyncInv /\ [SyncNext]_syncVars => SyncInv'
  <1> SUFFICES ASSUME SyncInv, [SyncNext]_syncVars  PROVE SyncInv'
    OBVIOUS
  <1>1. CASE UNCHANGED syncVars
    BY <1>1 DEF SyncInv, GraphTypes, syncVars
  <1>2. ASSUME NEW s \in Syncs,
               \/ BeginWalk(s) \/ VisitNode(s) \/ VisitLink(s) \/ ReadVersion(s) \/ WriteVersion(s)
               \/ VisitAlias(s) \/ InsertAlias(s) \/ CommitSync(s) \/ SyncFails(s)
        PROVE  SyncInv'
    BY <1>2, BeginWalkKeeps, VisitNodeKeeps, VisitLinkKeeps, ReadVersionKeeps, WriteVersionKeeps,
       VisitAliasKeeps, InsertAliasKeeps, CommitSyncKeeps, SyncFailsKeeps DEF SyncFails
  <1> QED
    BY <1>1, <1>2 DEF SyncNext

(* What two requests have both added: at most one thing.                   *)
LEMMA DoublesAreFew ==
  ASSUME SyncInv, NEW s \in Syncs, NEW t \in Syncs, s # t
  PROVE  Cardinality({n \in graphRows.nodes : n[2] = s /\ <<n[1], t>> \in graphRows.nodes})
           + Cardinality({e \in graphRows.edges : e[3] = s /\ <<e[1], e[2], t>> \in graphRows.edges}) <= 1
  <1> DEFINE g == graphRows
             nodes == {n \in graphRows.nodes : n[2] = s /\ <<n[1], t>> \in graphRows.nodes}
             arcs == {e \in graphRows.edges : e[3] = s /\ <<e[1], e[2], t>> \in graphRows.edges}
             both == Added(s, sync[s], g) \cap Added(t, sync[t], g)
  <1>1. Single(both) /\ g \in Graphs
    BY DEF SyncInv, PairHolds, GraphTypes
  <1>2. \A n \in nodes : n \in Node /\ n[2] = s /\ NodeKey(n) \in both
    <2> SUFFICES ASSUME NEW n \in nodes  PROVE n \in Node /\ n[2] = s /\ NodeKey(n) \in both
      OBVIOUS
    <2>1. n \in Node /\ n[2] = s /\ n \in g.nodes /\ <<n[1], t>> \in g.nodes
      BY <1>1 DEF Graphs
    <2>2. NodeKey(<<n[1], t>>) = NodeKey(n) /\ <<n[1], t>>[2] = t
      BY DEF NodeKey
    <2>3. NodeKey(n) \in Added(s, sync[s], g)
      BY <2>1 DEF Added, NodesSeen
    <2>4. NodeKey(<<n[1], t>>) \in Added(t, sync[t], g)
      BY <2>1, <2>2 DEF Added, NodesSeen
    <2> QED
      BY <2>1, <2>2, <2>3, <2>4
  <1>3. \A e \in arcs : e \in Edge /\ e[3] = s /\ EdgeKey(e) \in both
    <2> SUFFICES ASSUME NEW e \in arcs  PROVE e \in Edge /\ e[3] = s /\ EdgeKey(e) \in both
      OBVIOUS
    <2>1. e \in Edge /\ e[3] = s /\ e \in g.edges /\ <<e[1], e[2], t>> \in g.edges
      BY <1>1 DEF Graphs
    <2>2. EdgeKey(<<e[1], e[2], t>>) = EdgeKey(e) /\ <<e[1], e[2], t>>[3] = t
      BY DEF EdgeKey
    <2>3. EdgeKey(e) \in Added(s, sync[s], g)
      BY <2>1 DEF Added, Edges
    <2>4. EdgeKey(<<e[1], e[2], t>>) \in Added(t, sync[t], g)
      BY <2>1, <2>2 DEF Added, Edges
    <2> QED
      BY <2>1, <2>2, <2>3, <2>4
  <1> HIDE DEF nodes, arcs, both
  <1>4. Single(nodes)
    <2> SUFFICES ASSUME NEW n \in nodes, NEW m \in nodes  PROVE n = m
      BY DEF Single
    <2>1. NodeKey(n) = NodeKey(m)
      BY <1>1, <1>2 DEF Single
    <2>2. n[1] = m[1] /\ n[2] = m[2]
      BY <1>2, <2>1, KeysDiffer
    <2> QED
      BY <1>2, <2>2, NodePairs
  <1>5. Single(arcs)
    <2> SUFFICES ASSUME NEW e \in arcs, NEW f \in arcs  PROVE e = f
      BY DEF Single
    <2>1. EdgeKey(e) = EdgeKey(f)
      BY <1>1, <1>3 DEF Single
    <2>2. e[1] = f[1] /\ e[2] = f[2] /\ e[3] = f[3]
      BY <1>3, <2>1, KeysDiffer
    <2> QED
      BY <1>3, <2>2, NodePairs
  <1>6. nodes = {} \/ arcs = {}
    <2> SUFFICES ASSUME NEW n \in nodes, NEW e \in arcs  PROVE FALSE
      OBVIOUS
    <2>1. NodeKey(n) = EdgeKey(e)
      BY <1>1, <1>2, <1>3 DEF Single
    <2> QED
      BY <2>1, KeysDiffer
  <1>7. /\ Cardinality(nodes) \in Nat /\ Cardinality(nodes) <= 1 /\ Cardinality(arcs) \in Nat
        /\ Cardinality(arcs) <= 1
    BY <1>4, <1>5, SingleCounts
  <1>8. Cardinality(nodes) = 0 \/ Cardinality(arcs) = 0
    BY <1>6, FS_EmptySet
  <1>9. Cardinality(nodes) + Cardinality(arcs) <= 1
    BY <1>7, <1>8
  <1> QED
    BY <1>9 DEF nodes, arcs

LEMMA SyncInvWalked == SyncInv => CatalogIsWalked
  <1> SUFFICES ASSUME SyncInv  PROVE CatalogIsWalked
    OBVIOUS
  <1>1. \A e \in graphRows.edges : {e[1], e[2]} \subseteq graphRows.nodes
    BY DEF SyncInv, Joined
  <1>2. ASSUME ~syncOverlap, NEW s \in Syncs
        PROVE  Unique(graphRows.nodes, graphRows.edges)
    BY <1>2 DEF SyncInv, AloneHolds, Unique, NodesSeen, Edges
  <1>3. graphRows.nodes # {} => \E s \in Syncs : TRUE
    BY NodePairs DEF SyncInv, GraphTypes, Graphs
  <1>4. ~syncOverlap => Unique(graphRows.nodes, graphRows.edges)
    <2>1. graphRows.nodes = {} => graphRows.edges = {}
      BY DEF SyncInv, Joined
    <2> QED
      BY <1>2, <1>3, <2>1 DEF Unique
  <1>5. ~syncOverlap => (graphRows.nodes # {} =>
                            graphRows.version = 1 + Cardinality(graphRows.nodes) + Cardinality(graphRows.edges))
    BY DEF SyncInv, Counted
  <1>6. (\E s \in Syncs : sync[s].at = "done") =>
           \A i \in DOMAIN Walk : Left(i, graphRows.nodes, graphRows.edges, graphRows.aliases)
    BY DEF SyncInv
  <1> QED
    BY <1>1, <1>4, <1>5, <1>6, DoublesAreFew DEF CatalogIsWalked, Unique, Left

LEMMA SyncInvType == SyncInv => SyncTypeOK
  <1> SUFFICES ASSUME SyncInv  PROVE SyncTypeOK
    OBVIOUS
  <1>1. graphRows \in Graphs /\ sync \in [Syncs -> Walks]
    BY DEF SyncInv, GraphTypes
  <1>2. /\ graphRows.nodes \subseteq Node /\ graphRows.edges \subseteq Node \X Node \X Syncs
        /\ graphRows.aliases \subseteq graphRows.nodes /\ graphRows.version \in Nat
    BY <1>1 DEF SyncInv, Graphs, Edge
  <1>3. ASSUME NEW s \in Syncs
        PROVE  /\ sync[s].at \in {"new", "walking", "bumping", "writing", "aliasing", "done", "failed"}
               /\ sync[s].task \in 1..(Len(Walk) + 1) /\ sync[s].nodes \subseteq Objects \X {s}
    <2>1. sync[s] \in Walks
      BY <1>1
    <2>2. \A n \in sync[s].nodes : n \in Node /\ n[2] = s
      BY <2>1 DEF SyncInv, WalkHolds, OwnRows, Walks
    <2>3. sync[s].nodes \subseteq Objects \X {s}
      <3> SUFFICES ASSUME NEW n \in sync[s].nodes  PROVE n \in Objects \X {s}
        OBVIOUS
      <3> QED
        BY <2>2, NodePairs
    <2> QED
      BY <2>1, <2>3 DEF Walks, SyncPlaces
  <1>4. Cardinality({s \in Syncs : Underway(s) /\ sync[s].version > 0}) <= 1
    <2>1. Single({s \in Syncs : Underway(s) /\ sync[s].version > 0})
      <3> SUFFICES ASSUME NEW s \in Syncs, NEW t \in Syncs, sync[s].version > 0, sync[t].version > 0, s # t
                   PROVE  FALSE
        BY DEF Single
      <3>1. sync[s].version = 0 \/ sync[t].version = 0
        BY DEF SyncInv, PairHolds
      <3> QED
        BY <3>1
    <2> QED
      BY <2>1, SingleCounts
  <1> QED
    BY <1>2, <1>3, <1>4 DEF SyncTypeOK

(* Whatever requests overlap, fail or wait: the rows of the graph hang     *)
(* together, a finished walk left nothing out, two requests doubled one    *)
(* thing at most, and where none overlapped nothing is doubled and the     *)
(* version counts the rows.                                                *)
THEOREM CatalogStaysWalked == SyncSpec => [](SyncTypeOK /\ CatalogIsWalked)
  BY SyncInitInv, SyncStepInv, SyncInvWalked, SyncInvType, PTL DEF SyncSpec
-----------------------------------------------------------------------------
(***************************************************************************)
(* Induction without an induction theorem: a set of numbers has a least,   *)
(* and one with 0 and the successors of its members has them all.          *)
(***************************************************************************)
LEMMA NatHasLeast ==
  ASSUME NEW T, T \subseteq Nat, T # {}  PROVE \E n \in T : \A m \in T : n <= m
  <1> DEFINE R == OpToRel(<, Nat)
  <1>1. IsWellFoundedOn(R, Nat)
    BY NatLessThanWellFounded
  <1>2. \A x, y \in Nat : y < x => <<y, x>> \in R
    BY DEF OpToRel
  <1> HIDE DEF R
  <1>3. PICK n \in T : \A m \in T : ~(<<m, n>> \in R)
    BY <1>1, WFMin
  <1>4. \A m \in T : n <= m
    <2> SUFFICES ASSUME NEW m \in T, ~(n <= m)  PROVE FALSE
      OBVIOUS
    <2>1. n \in Nat /\ m \in Nat /\ m < n
      OBVIOUS
    <2> QED
      BY <1>2, <1>3, <2>1
  <1> QED
    BY <1>4

(* A set with 0 and the successors of its members has all numbers, or      *)
(* there were a least one missing.                                         *)
LEMMA AllNumbers ==
  ASSUME NEW T \in SUBSET Nat, 0 \in T, \A n \in T : n + 1 \in T
  PROVE  T = Nat
  <1> SUFFICES ASSUME Nat \ T # {}  PROVE FALSE
    OBVIOUS
  <1>1. PICK n \in Nat \ T : \A m \in Nat \ T : n <= m
    BY NatHasLeast
  <1>2. n # 0 /\ n - 1 \in Nat /\ (n - 1) + 1 = n /\ ~(n <= n - 1)
    BY <1>1
  <1>3. n - 1 \in T
    BY <1>1, <1>2
  <1> QED
    BY <1>2, <1>3
-----------------------------------------------------------------------------
(***************************************************************************)
(* A graph and its walks.                                                  *)
(***************************************************************************)
LEMMA NodesAreFinite == IsFiniteSet(Nodes)
  <1> DEFINE A == {p[1] : p \in Pairs}
             B == {p[2] : p \in Pairs}
             f == [p \in Pairs |-> p[1]]
             g == [p \in Pairs |-> p[2]]
  <1>1. IsFiniteSet(Pairs)
    BY GraphAssumption
  <1>2. f \in Surjection(Pairs, A) /\ g \in Surjection(Pairs, B)
    BY DEF Surjection
  <1>3. Nodes = A \cup B \cup {Start, Target}
    BY DEF Nodes
  <1> HIDE DEF A, B, f, g
  <1>4. IsFiniteSet(A) /\ IsFiniteSet(B)
    BY <1>1, <1>2, FS_Surjection
  <1>5. IsFiniteSet(A \cup B) /\ IsFiniteSet({Start} \cup {Target})
    BY <1>4, FS_Union, FS_Singleton
  <1>6. IsFiniteSet((A \cup B) \cup ({Start} \cup {Target}))
    BY <1>5, FS_Union
  <1>7. Nodes = (A \cup B) \cup ({Start} \cup {Target})
    BY <1>3
  <1> QED
    BY <1>6, <1>7

LEMMA EdgesJoinNodes ==
  ASSUME edges \subseteq Pairs, NEW e \in edges
  PROVE  e[1] \in Nodes /\ e[2] \in Nodes /\ e = <<e[1], e[2]>>
  BY GraphAssumption DEF Nodes

(* An entry of a node is an edge and its other end.                        *)
LEMMA EntriesJoin ==
  ASSUME edges \subseteq Pairs, NEW n, NEW x \in Entries(n)
  PROVE  /\ x = <<x[1], x[2]>> /\ x[2] \in edges /\ x[1] \in Nodes /\ n \in Nodes
         /\ Joins(x[2], n, x[1]) /\ n \in {x[2][1], x[2][2]} /\ x[1] \in Neighbours(n)
  <1>1. PICK e \in edges : (x = <<e[2], e>> /\ e[1] = n) \/ (x = <<e[1], e>> /\ e[2] = n)
    BY DEF Entries
  <1>2. e[1] \in Nodes /\ e[2] \in Nodes /\ e = <<e[1], e[2]>>
    BY EdgesJoinNodes
  <1> QED
    BY <1>1, <1>2 DEF Joins, Neighbours

LEMMA JoinedIsEntry ==
  ASSUME edges \subseteq Pairs, NEW e \in edges, NEW m, NEW n, Joins(e, m, n)
  PROVE  <<n, e>> \in Entries(m)
  BY DEF Joins, Entries

LEMMA WithinIs ==
  ASSUME NEW d, NEW n
  PROVE  n \in Within(d) <=> \E k \in 0..d : \E w \in WalksOf(k) : w[k] = n
  BY DEF Within

LEMMA WithinNodes ==
  ASSUME NEW d \in Nat
  PROVE  /\ Within(d) \subseteq Nodes /\ Start \in Within(d)
         /\ IsFiniteSet(Within(d)) /\ Cardinality(Within(d)) \in Nat
  <1>1. Within(d) \subseteq Nodes
    BY DEF Within, WalksOf
  <1>2. Start \in Within(d)
    <2> DEFINE w == [i \in 0..0 |-> Start]
    <2>1. Start \in Nodes
      BY DEF Nodes
    <2>2. w \in [0..0 -> Nodes] /\ w[0] = Start
      BY <2>1
    <2>3. \A i \in 1..0 : FALSE
      OBVIOUS
    <2> HIDE DEF w
    <2>4. w \in WalksOf(0)
      BY <2>2, <2>3 DEF WalksOf
    <2>5. 0 \in 0..d
      OBVIOUS
    <2> QED
      BY <2>2, <2>4, <2>5, WithinIs
  <1>3. IsFiniteSet(Within(d))
    BY <1>1, NodesAreFinite, FS_Subset
  <1> QED
    BY <1>1, <1>2, <1>3, FS_CardinalityType

LEMMA WithinZero == Within(0) = {Start}
  <1>1. 0..0 = {0}
    OBVIOUS
  <1>2. \A n \in Within(0) : n = Start
    BY <1>1, WithinIs DEF WalksOf
  <1> QED
    BY <1>2, WithinNodes

LEMMA WithinGrows ==
  ASSUME NEW a \in Nat, NEW b \in Nat, a <= b
  PROVE  Within(a) \subseteq Within(b)
  <1>1. \A k \in 0..a : k \in 0..b
    OBVIOUS
  <1> QED
    BY <1>1, WithinIs

(* One step further: neighbours, and nothing else.                         *)
LEMMA WithinReaches ==
  ASSUME edges \subseteq Pairs, NEW d \in Nat, NEW n \in Within(d), NEW m \in Neighbours(n)
  PROVE  m \in Within(d + 1)
  <1>0. PICK k \in 0..d : \E w \in WalksOf(k) : w[k] = n
    BY WithinIs
  <1>1. PICK w \in WalksOf(k) : w[k] = n
    BY <1>0
  <1> DEFINE v == [i \in 0..(k + 1) |-> IF i = k + 1 THEN m ELSE w[i]]
  <1>2. m \in Nodes
    BY EntriesJoin DEF Neighbours
  <1>3. w \in [0..k -> Nodes] /\ w[0] = Start /\ \A i \in 1..k : w[i] \in Neighbours(w[i - 1])
    BY DEF WalksOf
  <1>4. v[k + 1] = m /\ \A i \in 0..k : v[i] = w[i]
    OBVIOUS
  <1>5. v \in [0..(k + 1) -> Nodes]
    BY <1>2, <1>3
  <1> HIDE DEF v
  <1>6. v[0] = Start
    BY <1>3, <1>4
  <1>7. \A i \in 1..(k + 1) : v[i] \in Neighbours(v[i - 1])
    <2> SUFFICES ASSUME NEW i \in 1..(k + 1)  PROVE v[i] \in Neighbours(v[i - 1])
      OBVIOUS
    <2>1. CASE i = k + 1
      <3>1. (k + 1) - 1 = k /\ k \in 0..k
        OBVIOUS
      <3> QED
        BY <1>1, <1>4, <2>1, <3>1
    <2>2. CASE i # k + 1
      <3>1. i \in 1..k /\ i \in 0..k /\ i - 1 \in 0..k
        BY <2>2
      <3> QED
        BY <1>3, <1>4, <3>1
    <2> QED
      BY <2>1, <2>2
  <1>8. v \in WalksOf(k + 1) /\ k + 1 \in 0..(d + 1)
    BY <1>5, <1>6, <1>7 DEF WalksOf
  <1> QED
    BY <1>4, <1>8, WithinIs

LEMMA WithinComesFrom ==
  ASSUME NEW d \in Nat, NEW m \in Within(d + 1), m \notin Within(d)
  PROVE  \E n \in Within(d) : m \in Neighbours(n)
  <1>0. PICK k \in 0..(d + 1) : \E w \in WalksOf(k) : w[k] = m
    BY WithinIs
  <1>1. PICK w \in WalksOf(k) : w[k] = m
    BY <1>0
  <1>2. k = d + 1
    <2>1. k \notin 0..d
      BY <1>1, WithinIs
    <2> QED
      BY <2>1
  <1>3. w \in [0..k -> Nodes] /\ w[0] = Start /\ \A i \in 1..k : w[i] \in Neighbours(w[i - 1])
    BY DEF WalksOf
  <1> DEFINE v == [i \in 0..d |-> w[i]]
  <1>4. \A i \in 0..d : v[i] = w[i] /\ i \in 0..k
    BY <1>2
  <1>5. v \in [0..d -> Nodes]
    BY <1>3, <1>4
  <1> HIDE DEF v
  <1>6. \A i \in 1..d : v[i] \in Neighbours(v[i - 1])
    <2> SUFFICES ASSUME NEW i \in 1..d  PROVE v[i] \in Neighbours(v[i - 1])
      OBVIOUS
    <2>1. i \in 1..k /\ i \in 0..d /\ i - 1 \in 0..d
      BY <1>2
    <2> QED
      BY <1>3, <1>4, <2>1
  <1>7. v \in WalksOf(d)
    BY <1>3, <1>4, <1>5, <1>6 DEF WalksOf
  <1>8. v[d] \in Within(d)
    <2>1. d \in 0..d
      OBVIOUS
    <2> QED
      BY <1>7, <2>1, WithinIs
  <1>9. m \in Neighbours(v[d])
    <2>1. k \in 1..k /\ k - 1 = d /\ d \in 0..d
      BY <1>2
    <2> QED
      BY <1>1, <1>3, <1>4, <2>1
  <1> QED
    BY <1>8, <1>9
-----------------------------------------------------------------------------
(***************************************************************************)
(* Searches of the graph.  Invariants are of a state s of a search.        *)
(***************************************************************************)
Shaped(s) ==
    s = [of |-> s.of, depth |-> s.depth, limit |-> s.limit, queue |-> s.queue, walks |-> s.walks,
         seen |-> s.seen, found |-> s.found, path |-> s.path, left |-> s.left]

(* A traversal: nodes in the queue or in hand are open, with their depth.  *)
Idle(s) == s.path = <<>>
Open(s) == s.queue \cup (IF Idle(s) THEN {} ELSE {s.path})
Ball(s) == Within(s.depth)

(* What is seen is within reach, and what is found was next to it.         *)
TraverseTypes(s) ==
    /\ s.depth \in Nat \ {0} /\ s.limit \in Nat \ {0}
    /\ Start \in s.seen /\ s.seen \subseteq Ball(s) /\ Cardinality(s.seen) <= s.limit
    /\ \A q \in Open(s) :
          /\ q = <<q[1], q[2]>> /\ q[1] \in s.seen /\ q[2] \in 0..s.depth /\ q[1] \in Within(q[2])
    /\ Idle(s) => s.left = <<>>
    /\ ~Idle(s) =>
          /\ s.path[2] < s.depth /\ \A q \in s.queue : s.path[2] <= q[2]
          /\ s.left = <<s.left[1]>> /\ s.left[1] \subseteq Entries(s.path[1])
    /\ s.found \subseteq {e \in edges : \E n \in Within(s.depth - 1) : n \in {e[1], e[2]}}

(* Until a node is left out, depths are those of the shortest walks, and a *)
(* node that is done, if not at the limit, has nothing left to find.       *)
Roomy(s) == Cardinality(s.seen) < s.limit \/ Cardinality(Ball(s)) <= s.limit
Found(s, x) == x[1] \in s.seen /\ x[2] \in s.found
TraverseComplete(s) ==
    /\ \A q \in Open(s) : \A d \in 0..(q[2] - 1) : q[1] \notin Within(d)
    /\ \A n \in s.seen \ {q[1] : q \in Open(s)} :
          n \in Within(s.depth - 1) => \A x \in Entries(n) : Found(s, x)
    /\ ~Idle(s) => \A x \in Entries(s.path[1]) \ s.left[1] : Found(s, x)

TraverseHolds(s) == TraverseTypes(s) /\ (Roomy(s) => TraverseComplete(s))

(* A search for paths: walks that go on are simple, and no longer ones     *)
(* come before them; every simple path is found or goes on from one.       *)
Simple(w, k) ==
    /\ w.nodes \in [1..(k + 1) -> Nodes] /\ w.edges \in [1..k -> edges]
    /\ \A i, j \in 1..(k + 1) : w.nodes[i] = w.nodes[j] => i = j
    /\ w.nodes[1] = Start /\ \A i \in 1..k : Joins(w.edges[i], w.nodes[i], w.nodes[i + 1])
Starts(w, k, p) ==
    /\ Len(w.edges) <= k
    /\ \A i \in 1..Len(w.edges) : w.edges[i] = p.edges[i]
    /\ \A i \in 1..(Len(w.edges) + 1) : w.nodes[i] = p.nodes[i]
Records(k) == [nodes : [1..(k + 1) -> Nodes], edges : [1..k -> edges]]
PathsHold(s) ==
    /\ s.depth \in Nat \ {0} /\ s.limit \in Nat \ {0}
    /\ s.found \subseteq SimplePaths(s.depth) /\ IsFiniteSet(s.found) /\ Cardinality(s.found) <= s.limit
    /\ \A w \in s.walks :
          /\ w = [nodes |-> w.nodes, edges |-> w.edges]
          /\ Len(w.edges) \in 0..s.depth /\ Simple(w, Len(w.edges))
          /\ \A p \in s.found : Len(p) <= Len(w.edges)
    /\ \A k \in 1..s.depth : \A p \in Records(k) :
          Simple(p, k) /\ p.nodes[k + 1] = Target =>
             p.edges \in s.found \/ \E w \in s.walks : Starts(w, k, p)

(* A search for cycles: the nodes on the path follow each other; what is   *)
(* finished leads to nothing else, and not in circles, until one is found. *)
Finished(s) == s.seen \ {s.path[i] : i \in DOMAIN s.path}
CyclesHold(s) ==
    /\ s.seen \subseteq Nodes
    /\ s.path \in Seq(s.seen) /\ s.left \in Seq(SUBSET Nodes) /\ Len(s.left) = Len(s.path)
    /\ \A i \in 1..Len(s.path) : s.left[i] \subseteq Successors(s.path[i])
    /\ \A i, j \in 1..Len(s.path) : s.path[i] = s.path[j] => i = j
    /\ \A i \in 1..(Len(s.path) - 1) : <<s.path[i], s.path[i + 1]>> \in edges
    /\ \A c \in s.found : c \in Seq(Nodes) /\ ClosedWalk(c)
    /\ s.found = {} =>
          /\ \A n \in Finished(s) : Successors(n) \subseteq Finished(s)
          /\ \A S \in SUBSET Finished(s) : S # {} => \E n \in S : Successors(n) \cap S = {}
          /\ \A i \in 1..Len(s.path) :
                Successors(s.path[i]) \ s.left[i]
                   \subseteq Finished(s) \cup (IF i < Len(s.path) THEN {s.path[i + 1]} ELSE {})

GraphHolds(s) ==
    /\ Shaped(s) /\ s.of \in {"none", "traverse", "paths", "cycles"}
    /\ s.of = "traverse" => TraverseHolds(s)
    /\ s.of = "paths" => PathsHold(s)
    /\ s.of = "cycles" => CyclesHold(s)
-----------------------------------------------------------------------------
(***************************************************************************)
(* A traversal.                                                            *)
(***************************************************************************)
LEMMA SeenIsFinite ==
  ASSUME edges \subseteq Pairs, NEW s, TraverseTypes(s)
  PROVE  /\ IsFiniteSet(s.seen) /\ Cardinality(s.seen) \in Nat
         /\ IsFiniteSet(Ball(s)) /\ Cardinality(Ball(s)) \in Nat
  <1>1. IsFiniteSet(Ball(s)) /\ Cardinality(Ball(s)) \in Nat /\ s.seen \subseteq Ball(s)
    BY WithinNodes DEF TraverseTypes, Ball
  <1> QED
    BY <1>1, FS_Subset, FS_CardinalityType

(* What is closer than all open nodes has been seen.                       *)
LEMMA CloserIsSeen ==
  ASSUME edges \subseteq Pairs, NEW s, TraverseTypes(s), TraverseComplete(s),
         NEW e \in 0..s.depth, \A q \in Open(s) : e <= q[2]
  PROVE  Within(e) \subseteq s.seen
  <1> DEFINE T == {k \in Nat : k <= e => Within(k) \subseteq s.seen}
  <1>1. s.depth \in Nat \ {0} /\ e \in Nat /\ e <= s.depth
    BY DEF TraverseTypes
  <1>2. 0 \in T
    BY WithinZero DEF TraverseTypes
  <1>3. ASSUME NEW k \in T  PROVE k + 1 \in T
    <2> SUFFICES ASSUME k + 1 <= e  PROVE Within(k + 1) \subseteq s.seen
      OBVIOUS
    <2>1. k \in Nat /\ k <= e /\ k <= s.depth - 1 /\ s.depth - 1 \in Nat
      BY <1>1
    <2>2. Within(k) \subseteq s.seen /\ Within(k) \subseteq Within(s.depth - 1)
      BY <2>1, WithinGrows
    <2> SUFFICES ASSUME NEW m \in Within(k + 1), m \notin Within(k)  PROVE m \in s.seen
      BY <2>2
    <2>3. PICK c \in Within(k) : m \in Neighbours(c)
      BY <2>1, WithinComesFrom
    <2>4. c \notin {q[1] : q \in Open(s)}
      <3> SUFFICES ASSUME NEW q \in Open(s), c = q[1]  PROVE FALSE
        OBVIOUS
      <3>1. q[2] \in Nat /\ k + 1 <= q[2]
        BY <1>1, <2>1 DEF TraverseTypes
      <3>2. k \in 0..(q[2] - 1)
        BY <2>1, <3>1
      <3> QED
        BY <2>3, <3>2 DEF TraverseComplete
    <2>5. \A x \in Entries(c) : Found(s, x)
      BY <2>2, <2>3, <2>4 DEF TraverseComplete
    <2> QED
      BY <2>3, <2>5 DEF Found, Neighbours
  <1>4. T \in SUBSET Nat
    OBVIOUS
  <1>5. T = Nat
    BY <1>2, <1>3, <1>4, AllNumbers
  <1>6. e \in T /\ e <= e
    BY <1>1, <1>5
  <1> QED
    BY <1>6

LEMMA TraversalBegins ==
  ASSUME edges \subseteq Pairs, NEW depth \in Depths, NEW limit \in Limits
  PROVE  TraverseHolds(Searching("traverse", depth, limit))
  <1> DEFINE s == Searching("traverse", depth, limit)
  <1>1. /\ s.depth = depth /\ s.limit = limit /\ s.queue = {<<Start, 0>>} /\ s.seen = {Start}
        /\ s.found = {} /\ s.path = <<>> /\ s.left = <<>>
    BY DEF Searching
  <1> HIDE DEF s
  <1>2. depth \in Nat \ {0} /\ limit \in Nat \ {0}
    BY GraphAssumption
  <1>3. Open(s) = {<<Start, 0>>} /\ Idle(s)
    BY <1>1 DEF Open, Idle
  <1>4. Start \in Within(depth) /\ Start \in Within(0) /\ Cardinality({Start}) = 1
    BY <1>2, WithinNodes, FS_Singleton
  <1>5. TraverseTypes(s)
    BY <1>1, <1>2, <1>3, <1>4 DEF TraverseTypes, Ball
  <1>6. TraverseComplete(s)
    <2>1. \A d \in 0..(0 - 1) : FALSE
      OBVIOUS
    <2> QED
      BY <1>1, <1>3, <2>1 DEF TraverseComplete
  <1>7. TraverseHolds(s)
    BY <1>5, <1>6 DEF TraverseHolds
  <1> QED
    BY <1>7 DEF s

(* The node taken is passed over or in hand.                               *)
Takes(s, q, t) ==
    t = [s EXCEPT !.queue = @ \ {q},
                  !.path = IF q[2] >= s.depth THEN <<>> ELSE q,
                  !.left = IF q[2] >= s.depth THEN <<>> ELSE <<Entries(q[1])>>]

LEMMA TakeNodeHolds ==
  ASSUME edges \subseteq Pairs, NEW s, Shaped(s), TraverseHolds(s), Idle(s),
         NEW q \in s.queue, \A r \in s.queue : q[2] <= r[2],
         NEW t, Takes(s, q, t)
  PROVE  TraverseHolds(t) /\ Shaped(t) /\ t.of = s.of
  <1>1. /\ t.of = s.of /\ t.depth = s.depth /\ t.limit = s.limit /\ t.seen = s.seen /\ t.found = s.found
        /\ t.queue = s.queue \ {q} /\ Shaped(t)
        /\ t.path = (IF q[2] >= s.depth THEN <<>> ELSE q)
        /\ t.left = (IF q[2] >= s.depth THEN <<>> ELSE <<Entries(q[1])>>)
    BY DEF Shaped, Takes
  <1>2. TraverseTypes(s) /\ Open(s) = s.queue /\ s.depth \in Nat
    BY DEF TraverseHolds, TraverseTypes, Open
  <1>3. /\ q = <<q[1], q[2]>> /\ q[1] \in s.seen /\ q[2] \in 0..s.depth /\ q[1] \in Within(q[2])
    BY <1>2 DEF TraverseTypes
  <1>4. q # <<>>
    BY <1>3
  <1>5. Roomy(t) <=> Roomy(s)
    BY <1>1 DEF Roomy, Ball
  <1>6. CASE q[2] >= s.depth
    <2>1. t.path = <<>> /\ t.left = <<>> /\ Idle(t) /\ Open(t) = s.queue \ {q}
      BY <1>1, <1>6 DEF Idle, Open
    <2>2. TraverseTypes(t)
      BY <1>1, <1>2, <2>1 DEF TraverseTypes, Ball
    <2>3. q[2] = s.depth /\ s.depth - 1 \in 0..(q[2] - 1)
      <3>1. s.depth \in Nat \ {0}
        BY <1>2 DEF TraverseTypes
      <3> QED
        BY <1>3, <1>6, <3>1
    <2>4. ASSUME TraverseComplete(s)  PROVE TraverseComplete(t)
      <3>1. q[1] \notin Within(s.depth - 1)
        BY <1>2, <2>3, <2>4 DEF TraverseComplete
      <3>2. \A n \in s.seen \ {r[1] : r \in Open(t)} : n \in s.seen \ {r[1] : r \in Open(s)} \/ n = q[1]
        BY <1>2, <2>1
      <3>3. \A n \in t.seen \ {r[1] : r \in Open(t)} :
               n \in Within(t.depth - 1) => \A x \in Entries(n) : Found(t, x)
        BY <1>1, <2>4, <3>1, <3>2 DEF TraverseComplete, Found
      <3>4. \A r \in Open(t) : r \in Open(s)
        BY <1>2, <2>1
      <3> QED
        BY <2>1, <2>4, <3>3, <3>4 DEF TraverseComplete
    <2> QED
      BY <1>1, <1>5, <2>2, <2>4 DEF TraverseHolds
  <1>7. CASE ~(q[2] >= s.depth)
    <2>1. t.path = q /\ t.left = <<Entries(q[1])>> /\ ~Idle(t) /\ Open(t) = s.queue /\ t.left[1] = Entries(q[1])
      BY <1>1, <1>4, <1>7 DEF Idle, Open
    <2>2. q[2] < s.depth
      BY <1>2, <1>3, <1>7
    <2>3. TraverseTypes(t)
      BY <1>1, <1>2, <2>1, <2>2 DEF TraverseTypes, Ball
    <2>4. TraverseComplete(s) => TraverseComplete(t)
      BY <1>1, <1>2, <2>1 DEF TraverseComplete, Found
    <2> QED
      BY <1>1, <1>5, <2>3, <2>4 DEF TraverseHolds
  <1> QED
    BY <1>6, <1>7

LEMMA NodeDoneHolds ==
  ASSUME edges \subseteq Pairs, NEW s, Shaped(s), TraverseHolds(s), ~Idle(s), s.left = <<{}>>,
         NEW t, t = [s EXCEPT !.path = <<>>, !.left = <<>>]
  PROVE  TraverseHolds(t) /\ Shaped(t) /\ t.of = s.of
  <1>1. /\ t.of = s.of /\ t.depth = s.depth /\ t.limit = s.limit /\ t.seen = s.seen /\ t.found = s.found
        /\ t.queue = s.queue /\ t.path = <<>> /\ t.left = <<>> /\ Shaped(t)
    BY DEF Shaped
  <1>2. TraverseTypes(s) /\ Open(s) = s.queue \cup {s.path} /\ Open(t) = s.queue /\ Idle(t) /\ s.left[1] = {}
    BY <1>1 DEF TraverseHolds, Open, Idle
  <1>3. TraverseTypes(t)
    BY <1>1, <1>2 DEF TraverseTypes, Ball
  <1>4. ASSUME TraverseComplete(s)  PROVE TraverseComplete(t)
    <2>1. \A x \in Entries(s.path[1]) : Found(s, x)
      BY <1>2, <1>4 DEF TraverseComplete
    <2>2. \A n \in s.seen \ {r[1] : r \in Open(t)} : n \in s.seen \ {r[1] : r \in Open(s)} \/ n = s.path[1]
      BY <1>2
    <2>3. \A n \in t.seen \ {r[1] : r \in Open(t)} :
             n \in Within(t.depth - 1) => \A x \in Entries(n) : Found(t, x)
      BY <1>1, <1>4, <2>1, <2>2 DEF TraverseComplete, Found
    <2> QED
      BY <1>2, <1>4, <2>3 DEF TraverseComplete
  <1>5. Roomy(t) <=> Roomy(s)
    BY <1>1 DEF Roomy, Ball
  <1> QED
    BY <1>1, <1>3, <1>4, <1>5 DEF TraverseHolds

Looks(s, n, e, t) ==
    LET full == Cardinality(s.seen) >= s.limit
        new == n \notin s.seen IN
    t = [s EXCEPT !.found = @ \cup {e},
                  !.seen = IF new /\ ~full THEN @ \cup {n} ELSE @,
                  !.queue = IF new /\ ~full THEN @ \cup {<<n, s.path[2] + 1>>} ELSE @,
                  !.left = <<IF new /\ full THEN {} ELSE @[1] \ {<<n, e>>}>>]

LEMMA LookHolds ==
  ASSUME edges \subseteq Pairs, NEW s, Shaped(s), TraverseHolds(s), ~Idle(s),
         NEW n, NEW e, <<n, e>> \in s.left[1],
         NEW t, Looks(s, n, e, t)
  PROVE  TraverseHolds(t) /\ Shaped(t) /\ t.of = s.of
  <1>1. /\ t.of = s.of /\ t.depth = s.depth /\ t.limit = s.limit /\ t.path = s.path
        /\ t.found = s.found \cup {e} /\ Shaped(t)
        /\ t.seen = (IF n \notin s.seen /\ ~(Cardinality(s.seen) >= s.limit) THEN s.seen \cup {n} ELSE s.seen)
        /\ t.queue = (IF n \notin s.seen /\ ~(Cardinality(s.seen) >= s.limit) THEN s.queue \cup {<<n, s.path[2] + 1>>} ELSE s.queue)
        /\ t.left = <<IF n \notin s.seen /\ Cardinality(s.seen) >= s.limit THEN {} ELSE s.left[1] \ {<<n, e>>}>>
    BY DEF Shaped, Looks
  <1> DEFINE p == s.path[2]
             Near == {d \in edges : \E c \in Within(s.depth - 1) : c \in {d[1], d[2]}}
  <1>2. /\ TraverseTypes(s) /\ ~Idle(t) /\ Ball(t) = Ball(s)
        /\ Open(s) = s.queue \cup {s.path} /\ Open(t) = t.queue \cup {s.path}
    BY <1>1 DEF TraverseHolds, Open, Idle, Ball
  <1>3. /\ s.depth \in Nat \ {0} /\ s.limit \in Nat \ {0} /\ s.path[1] \in s.seen
        /\ p \in Nat /\ p < s.depth /\ s.path[1] \in Within(p) /\ s.left[1] \subseteq Entries(s.path[1])
        /\ \A q \in s.queue : p <= q[2]
    BY <1>2 DEF TraverseTypes
  <1>4. e \in edges /\ n \in Neighbours(s.path[1]) /\ s.path[1] \in {e[1], e[2]}
    BY <1>3, EntriesJoin
  <1>5. /\ p + 1 \in 0..s.depth /\ p + 1 \in Nat /\ p <= s.depth - 1 /\ s.depth - 1 \in Nat
        /\ p \in 0..s.depth /\ p <= p + 1 /\ \A d \in 0..((p + 1) - 1) : d \in Nat /\ d <= p
    BY <1>3
  <1>6. n \in Within(p + 1) /\ n \in Ball(s) /\ s.path[1] \in Within(s.depth - 1)
    <2>1. n \in Within(p + 1)
      BY <1>3, <1>4, WithinReaches
    <2>2. p + 1 <= s.depth
      BY <1>5
    <2> QED
      BY <1>3, <1>5, <2>1, <2>2, WithinGrows DEF Ball
  <1>7. t.found \subseteq Near
    <2>1. s.found \subseteq Near
      BY <1>2 DEF TraverseTypes
    <2> QED
      BY <1>1, <1>4, <1>6, <2>1
  <1>8. /\ IsFiniteSet(s.seen) /\ Cardinality(s.seen) \in Nat
        /\ IsFiniteSet(Ball(s)) /\ Cardinality(Ball(s)) \in Nat
    BY <1>2, SeenIsFinite
  <1>9. Roomy(t) <=> Cardinality(t.seen) < s.limit \/ Cardinality(Ball(s)) <= s.limit
    BY <1>1, <1>2 DEF Roomy
  <1>10. s.seen \subseteq Ball(s)
    BY <1>2 DEF TraverseTypes
  <1>11. CASE n \in s.seen
    <2>0. t.seen = s.seen /\ t.queue = s.queue /\ t.left = <<s.left[1] \ {<<n, e>>}>>
      BY <1>1, <1>11
    <2>1. t.seen = s.seen /\ t.queue = s.queue /\ Open(t) = Open(s) /\ t.left[1] = s.left[1] \ {<<n, e>>}
          /\ t.left = <<t.left[1]>> /\ n \in s.seen
      BY <1>2, <1>11, <2>0
    <2>2. TraverseTypes(t)
      BY <1>1, <1>2, <1>7, <2>1 DEF TraverseTypes
    <2>3. ASSUME TraverseComplete(s)  PROVE TraverseComplete(t)
      <3>1. \A x : Found(s, x) => Found(t, x)
        BY <1>1, <2>1 DEF Found
      <3>2. Found(t, <<n, e>>)
        BY <1>1, <2>1 DEF Found
      <3>3. \A x \in Entries(t.path[1]) \ t.left[1] : Found(t, x)
        BY <1>1, <1>2, <2>1, <2>3, <3>1, <3>2 DEF TraverseComplete
      <3> QED
        BY <1>1, <2>1, <2>3, <3>1, <3>3 DEF TraverseComplete
    <2> QED
      BY <1>1, <1>9, <2>1, <2>2, <2>3 DEF TraverseHolds, Roomy
  <1>12. CASE n \notin s.seen /\ ~(Cardinality(s.seen) >= s.limit)
    <2> DEFINE o == <<n, p + 1>>
    <2>0. t.seen = s.seen \cup {n} /\ t.queue = s.queue \cup {o} /\ t.left = <<s.left[1] \ {<<n, e>>}>>
      BY <1>1, <1>12
    <2>1. t.seen = s.seen \cup {n} /\ t.queue = s.queue \cup {o} /\ Open(t) = Open(s) \cup {o}
          /\ t.left[1] = s.left[1] \ {<<n, e>>} /\ t.left = <<t.left[1]>> /\ n \notin s.seen
      BY <1>2, <1>12, <2>0
    <2>2. o = <<o[1], o[2]>> /\ o[1] = n /\ o[2] = p + 1
      OBVIOUS
    <2> HIDE DEF o
    <2>3. Cardinality(t.seen) = Cardinality(s.seen) + 1 /\ Cardinality(s.seen) < s.limit
      <3>1. Cardinality(s.seen \cup {n}) = Cardinality(s.seen) + 1
        BY <1>8, <2>1, FS_AddElement
      <3>2. Cardinality(s.seen) < s.limit
        BY <1>3, <1>8, <1>12
      <3> QED
        BY <2>1, <3>1, <3>2
    <2>4. Cardinality(t.seen) <= s.limit
      BY <1>3, <1>8, <2>3
    <2>5. \A q \in Open(t) :
          /\ q = <<q[1], q[2]>> /\ q[1] \in t.seen /\ q[2] \in 0..t.depth /\ q[1] \in Within(q[2])
      BY <1>1, <1>2, <1>5, <1>6, <2>1, <2>2 DEF TraverseTypes
    <2>6. \A q \in t.queue : p <= q[2]
      BY <1>3, <1>5, <2>1, <2>2
    <2>7. TraverseTypes(t)
      BY <1>1, <1>2, <1>3, <1>6, <1>7, <1>10, <2>1, <2>4, <2>5, <2>6 DEF TraverseTypes
    <2>8. TraverseComplete(s)
      BY <1>2, <2>3 DEF TraverseHolds, Roomy
    <2>9. \A q \in Open(s) : p <= q[2]
      BY <1>2, <1>3
    <2>10. Within(p) \subseteq s.seen
      BY <1>2, <1>5, <2>8, <2>9, CloserIsSeen
    <2>11. \A d \in 0..(o[2] - 1) : o[1] \notin Within(d)
      BY <1>3, <1>5, <2>1, <2>2, <2>10, WithinGrows
    <2>12. \A x : Found(s, x) => Found(t, x)
      BY <1>1, <2>1 DEF Found
    <2>13. Found(t, <<n, e>>)
      BY <1>1, <2>1 DEF Found
    <2>14. \A c \in t.seen \ {q[1] : q \in Open(t)} : c \in s.seen \ {q[1] : q \in Open(s)}
      BY <2>1, <2>2
    <2>15. \A c \in t.seen \ {q[1] : q \in Open(t)} :
             c \in Within(t.depth - 1) => \A x \in Entries(c) : Found(t, x)
      BY <1>1, <2>8, <2>12, <2>14 DEF TraverseComplete
    <2>16. \A x \in Entries(t.path[1]) \ t.left[1] : Found(t, x)
      BY <1>1, <1>2, <2>1, <2>8, <2>12, <2>13, ~Idle(s) DEF TraverseComplete
    <2>17. \A q \in Open(t) : \A d \in 0..(q[2] - 1) : q[1] \notin Within(d)
      BY <2>1, <2>8, <2>11 DEF TraverseComplete
    <2>18. TraverseComplete(t)
      BY <2>15, <2>16, <2>17 DEF TraverseComplete
    <2> QED
      BY <1>1, <2>7, <2>18 DEF TraverseHolds
  <1>13. CASE n \notin s.seen /\ Cardinality(s.seen) >= s.limit
    <2>0. t.seen = s.seen /\ t.queue = s.queue /\ t.left = <<{}>>
      BY <1>1, <1>13
    <2>1. t.seen = s.seen /\ t.queue = s.queue /\ Open(t) = Open(s) /\ t.left[1] = {}
          /\ t.left = <<t.left[1]>> /\ n \notin s.seen
      BY <1>2, <1>13, <2>0
    <2>2. TraverseTypes(t)
      BY <1>1, <1>2, <1>7, <2>1 DEF TraverseTypes
    <2>3. Cardinality(s.seen \cup {n}) = Cardinality(s.seen) + 1 /\ s.seen \cup {n} \subseteq Ball(s)
      BY <1>6, <1>8, <1>10, <2>1, FS_AddElement
    <2>4. Cardinality(s.seen \cup {n}) <= Cardinality(Ball(s))
      BY <1>8, <2>3, FS_Subset
    <2>5. Cardinality(s.seen) >= s.limit
      BY <1>13
    <2>6. ~(Cardinality(Ball(s)) <= s.limit) /\ ~(Cardinality(t.seen) < s.limit)
      BY <1>3, <1>8, <2>1, <2>3, <2>4, <2>5
    <2> QED
      BY <1>1, <1>9, <2>2, <2>6 DEF TraverseHolds
  <1> QED
    BY <1>11, <1>12, <1>13

(* What a traversal that ended has seen and found.                         *)
LEMMA TraversalEnds ==
  ASSUME edges \subseteq Pairs, NEW s, TraverseHolds(s), Idle(s), s.queue = {}
  PROVE  LET ball == Within(s.depth) IN
         IF Cardinality(ball) <= s.limit
         THEN /\ s.seen = ball
              /\ s.found = {e \in edges : \E n \in Within(s.depth - 1) : n \in {e[1], e[2]}}
         ELSE s.seen \subseteq ball /\ Cardinality(s.seen) = s.limit
  <1>1. TraverseTypes(s) /\ Open(s) = {} /\ Ball(s) = Within(s.depth)
    BY DEF TraverseHolds, Open, Ball
  <1>2. /\ s.depth \in Nat \ {0} /\ s.limit \in Nat /\ s.seen \subseteq Within(s.depth)
        /\ Cardinality(s.seen) <= s.limit
        /\ s.found \subseteq {e \in edges : \E n \in Within(s.depth - 1) : n \in {e[1], e[2]}}
    BY <1>1 DEF TraverseTypes
  <1>3. Cardinality(s.seen) \in Nat /\ Cardinality(Within(s.depth)) \in Nat
    BY <1>1, SeenIsFinite
  <1>4. s.depth \in 0..s.depth /\ s.depth - 1 \in Nat /\ s.depth - 1 <= s.depth
    BY <1>2
  <1>5. ASSUME TraverseComplete(s)  PROVE s.seen = Within(s.depth)
    BY <1>1, <1>2, <1>4, <1>5, CloserIsSeen
  <1>6. CASE Cardinality(Within(s.depth)) <= s.limit
    <2>1. TraverseComplete(s)
      BY <1>1, <1>6 DEF TraverseHolds, Roomy
    <2>2. s.seen = Within(s.depth)
      BY <1>5, <2>1
    <2>3. ASSUME NEW e \in edges, NEW n \in Within(s.depth - 1), n \in {e[1], e[2]}  PROVE e \in s.found
      <3>1. n \in s.seen \ {q[1] : q \in Open(s)}
        BY <1>1, <1>2, <1>4, <2>2, <2>3, WithinGrows
      <3>2. \A x \in Entries(n) : Found(s, x)
        BY <2>1, <2>3, <3>1 DEF TraverseComplete
      <3>3. <<e[2], e>> \in Entries(n) \/ <<e[1], e>> \in Entries(n)
        BY <2>3 DEF Entries
      <3> QED
        BY <3>2, <3>3 DEF Found
    <2> QED
      BY <1>2, <1>6, <2>2, <2>3
  <1>7. CASE ~(Cardinality(Within(s.depth)) <= s.limit)
    <2>1. ASSUME Cardinality(s.seen) < s.limit  PROVE FALSE
      <3>1. TraverseComplete(s)
        BY <2>1 DEF TraverseHolds, Roomy
      <3> QED
        BY <1>2, <1>3, <1>5, <1>7, <2>1, <3>1
    <2> QED
      BY <1>2, <1>3, <1>7, <2>1
  <1> QED
    BY <1>6, <1>7
-----------------------------------------------------------------------------
(***************************************************************************)
(* Paths.                                                                  *)
(***************************************************************************)
LEMMA FunctionIsSeq ==
  ASSUME NEW S, NEW m \in Nat, NEW f \in [1..m -> S]  PROVE f \in Seq(S) /\ Len(f) = m
  <1>1. f \in Seq(S)
    BY SeqDef
  <1>2. 1..m = 1..Len(f) /\ Len(f) \in Nat
    <2>1. Len(f) \in Nat /\ DOMAIN f = 1..Len(f)
      BY <1>1, LenProperties
    <2>2. DOMAIN f = 1..m
      OBVIOUS
    <2> QED
      BY <2>1, <2>2
  <1>3. \A i : i \in 1..m <=> i \in 1..Len(f)
    BY <1>2
  <1>4. ~(m < Len(f))
    <2> SUFFICES ASSUME m < Len(f)  PROVE FALSE
      OBVIOUS
    <2>1. Len(f) \in 1..Len(f) /\ Len(f) \notin 1..m
      BY <1>2
    <2> QED
      BY <1>3, <2>1
  <1>5. ~(Len(f) < m)
    <2> SUFFICES ASSUME Len(f) < m  PROVE FALSE
      OBVIOUS
    <2>1. m \in 1..m /\ m \notin 1..Len(f)
      BY <1>2
    <2> QED
      BY <1>3, <2>1
  <1> QED
    BY <1>1, <1>2, <1>4, <1>5

LEMMA FunctionsAreFinite ==
  ASSUME NEW S, IsFiniteSet(S)  PROVE \A k \in Nat : IsFiniteSet([1..k -> S])
  <1> DEFINE T == {k \in Nat : IsFiniteSet([1..k -> S])}
  <1>1. 0 \in T
    <2>1. \A f, g \in [1..0 -> S] : f = g
      OBVIOUS
    <2>2. <<>> \in [1..0 -> S]
      OBVIOUS
    <2>3. [1..0 -> S] = {<<>>}
      BY <2>1, <2>2
    <2>4. IsFiniteSet({<<>>})
      BY FS_Singleton
    <2>5. IsFiniteSet([1..0 -> S])
      BY <2>3, <2>4
    <2> QED
      BY <2>5
  <1>2. ASSUME NEW k \in T  PROVE k + 1 \in T
    <2> DEFINE A == [1..k -> S]
               B == [1..(k + 1) -> S]
               h == [x \in A \X S |-> [i \in 1..(k + 1) |-> IF i = k + 1 THEN x[2] ELSE x[1][i]]]
    <2>0. k \in Nat /\ IsFiniteSet(A)
      OBVIOUS
    <2>1. \A x \in A \X S : h[x] \in B
      <3> SUFFICES ASSUME NEW a \in A, NEW b \in S  PROVE h[<<a, b>>] \in B
        OBVIOUS
      <3>1. \A i \in 1..(k + 1) : i # k + 1 => i \in 1..k
        BY <2>0
      <3> QED
        BY <3>1
    <2>2. ASSUME NEW f \in B  PROVE \E x \in A \X S : h[x] = f
      <3> DEFINE a == [i \in 1..k |-> f[i]]
      <3>1. \A i \in 1..k : i \in 1..(k + 1) /\ i # k + 1
        BY <2>0
      <3>2. a \in A /\ k + 1 \in 1..(k + 1)
        BY <2>0, <3>1
      <3>3. <<a, f[k + 1]>> \in A \X S
        BY <3>2
      <3> DEFINE y == <<a, f[k + 1]>>
      <3>4. h[y] = [i \in 1..(k + 1) |-> IF i = k + 1 THEN y[2] ELSE y[1][i]]
        BY <3>3
      <3>5. y[1] = a /\ y[2] = f[k + 1] /\ y \in A \X S
        BY <3>3
      <3>6. \A i \in 1..(k + 1) : i # k + 1 => a[i] = f[i]
        BY <2>0
      <3>7. \A i \in 1..(k + 1) : (IF i = k + 1 THEN y[2] ELSE y[1][i]) = f[i]
        BY <3>5, <3>6
      <3>8. f = [i \in 1..(k + 1) |-> f[i]]
        OBVIOUS
      <3> HIDE DEF h, a, y
      <3>9. h[y] = f
        BY <3>4, <3>7, <3>8
      <3> QED
        BY <3>9, <3>5
    <2>3. DOMAIN h = A \X S /\ h = [x \in A \X S |-> h[x]]
      OBVIOUS
    <2>4. IsFiniteSet(A \X S)
      BY <2>0, FS_Product
    <2> HIDE DEF h
    <2>5. h \in Surjection(A \X S, B)
      BY <2>1, <2>2, <2>3 DEF Surjection
    <2>6. IsFiniteSet(B)
      BY <2>4, <2>5, FS_Surjection
    <2> QED
      BY <2>0, <2>6
  <1>3. T \in SUBSET Nat
    OBVIOUS
  <1> HIDE DEF T
  <1>4. T = Nat
    BY <1>1, <1>2, <1>3, AllNumbers
  <1> QED
    BY <1>4 DEF T

LEMMA PathsAreFinite ==
  ASSUME edges \subseteq Pairs  PROVE \A depth \in Nat : IsFiniteSet(SimplePaths(depth))
  <1> DEFINE T == {d \in Nat : IsFiniteSet(SimplePaths(d))}
  <1>1. \A k \in Nat : IsFiniteSet(PathsOf(k))
    <2>1. IsFiniteSet(edges)
      BY GraphAssumption, FS_Subset
    <2>2. \A k \in Nat : PathsOf(k) \subseteq [1..k -> edges] /\ IsFiniteSet([1..k -> edges])
      BY <2>1, FunctionsAreFinite DEF PathsOf
    <2> QED
      BY <2>2, FS_Subset
  <1>2. 0 \in T
    <2>1. SimplePaths(0) = {}
      BY DEF SimplePaths
    <2> QED
      BY <2>1, FS_EmptySet
  <1>3. ASSUME NEW d \in T  PROVE d + 1 \in T
    <2>1. d \in Nat /\ IsFiniteSet(SimplePaths(d)) /\ d + 1 \in Nat
      OBVIOUS
    <2>2. \A k : k \in 1..(d + 1) <=> k \in 1..d \/ k = d + 1
      BY <2>1
    <2>3. SimplePaths(d + 1) = SimplePaths(d) \cup PathsOf(d + 1)
      BY <2>2 DEF SimplePaths
    <2> QED
      BY <1>1, <2>1, <2>3, FS_Union
  <1>4. T \in SUBSET Nat
    OBVIOUS
  <1> HIDE DEF T
  <1>5. T = Nat
    BY <1>2, <1>3, <1>4, AllNumbers
  <1> QED
    BY <1>5 DEF T

LEMMA SimpleIs ==
  ASSUME NEW k \in Nat, NEW w, Simple(w, k)
  PROVE  /\ w.nodes \in Seq(Nodes) /\ Len(w.nodes) = k + 1 /\ Last(w.nodes) = w.nodes[k + 1]
         /\ w.edges \in Seq(edges) /\ Len(w.edges) = k
         /\ w.nodes[k + 1] = Target /\ k # 0 => w.edges \in PathsOf(k)
  <1>1. w.nodes \in [1..(k + 1) -> Nodes] /\ w.edges \in [1..k -> edges] /\ k + 1 \in Nat
    BY DEF Simple
  <1>2. w.nodes \in Seq(Nodes) /\ Len(w.nodes) = k + 1 /\ w.edges \in Seq(edges) /\ Len(w.edges) = k
    BY <1>1, FunctionIsSeq
  <1>3. IsInjective(w.nodes)
    BY <1>1 DEF Simple, IsInjective
  <1> QED
    BY <1>1, <1>2, <1>3 DEF Simple, PathsOf, Last

LEMMA PathIsSimple ==
  ASSUME NEW k \in Nat, NEW q \in PathsOf(k)
  PROVE  \E p \in Records(k) : Simple(p, k) /\ p.nodes[k + 1] = Target /\ p.edges = q
  <1>1. PICK ns \in [1..(k + 1) -> Nodes] :
          /\ IsInjective(ns) /\ ns[1] = Start /\ ns[k + 1] = Target
          /\ \A i \in 1..k : Joins(q[i], ns[i], ns[i + 1])
    BY DEF PathsOf
  <1> DEFINE p == [nodes |-> ns, edges |-> q]
  <1>2. p \in Records(k) /\ p.nodes = ns /\ p.edges = q /\ q \in [1..k -> edges]
    BY DEF PathsOf, Records
  <1> HIDE DEF p
  <1>3. \A i, j \in 1..(k + 1) : ns[i] = ns[j] => i = j
    BY <1>1 DEF IsInjective
  <1>4. Simple(p, k)
    BY <1>1, <1>2, <1>3 DEF Simple
  <1> QED
    BY <1>1, <1>2, <1>4

LEMMA PathSearchBegins ==
  ASSUME NEW depth \in Depths, NEW limit \in Limits
  PROVE  PathsHold(Searching("paths", depth, limit))
  <1> DEFINE s == Searching("paths", depth, limit)
             w == [nodes |-> <<Start>>, edges |-> <<>>]
  <1>1. s.depth = depth /\ s.limit = limit /\ s.walks = {w} /\ s.found = {}
    BY DEF Searching
  <1>2. depth \in Nat \ {0} /\ limit \in Nat \ {0} /\ Start \in Nodes
    BY GraphAssumption DEF Nodes
  <1>3. w = [nodes |-> w.nodes, edges |-> w.edges] /\ w.nodes = <<Start>> /\ w.edges = <<>>
    OBVIOUS
  <1> HIDE DEF s, w
  <1>4. Len(w.edges) = 0 /\ Simple(w, 0)
    <2>1. w.nodes \in [1..(0 + 1) -> Nodes] /\ w.nodes[1] = Start
      BY <1>2, <1>3
    <2>2. w.edges \in [1..0 -> edges] /\ \A i \in 1..0 : FALSE
      BY <1>3
    <2>3. \A i, j \in 1..(0 + 1) : i = j
      OBVIOUS
    <2> QED
      BY <1>3, <2>1, <2>2, <2>3 DEF Simple
  <1>5. ASSUME NEW k \in 1..s.depth, NEW p \in Records(k), Simple(p, k)  PROVE Starts(w, k, p)
    <2>1. p.nodes[1] = w.nodes[1]
      BY <1>3, <1>5 DEF Simple
    <2>2. \A i \in 1..0 : FALSE
      OBVIOUS
    <2>3. \A i \in 1..(0 + 1) : i = 1
      OBVIOUS
    <2>4. 0 <= k
      BY <1>1, <1>2
    <2> QED
      BY <1>4, <2>1, <2>2, <2>3, <2>4 DEF Starts
  <1>6. s.found \subseteq SimplePaths(s.depth) /\ IsFiniteSet(s.found) /\ Cardinality(s.found) <= s.limit
    BY <1>1, <1>2, FS_EmptySet
  <1>7. \A v \in s.walks :
          /\ v = [nodes |-> v.nodes, edges |-> v.edges]
          /\ Len(v.edges) \in 0..s.depth /\ Simple(v, Len(v.edges))
          /\ \A p \in s.found : Len(p) <= Len(v.edges)
    BY <1>1, <1>2, <1>3, <1>4
  <1>8. PathsHold(s)
    BY <1>1, <1>2, <1>5, <1>6, <1>7 DEF PathsHold
  <1> QED
    BY <1>8 DEF s

(* A walk that has come to the target is a path.                           *)
LEMMA PathFoundHolds ==
  ASSUME NEW s, Shaped(s), PathsHold(s), Cardinality(s.found) < s.limit,
         NEW w \in s.walks, \A v \in s.walks : Len(w.edges) <= Len(v.edges),
         Last(w.nodes) = Target, w.edges # <<>>,
         NEW t, t = [s EXCEPT !.walks = s.walks \ {w}, !.found = @ \cup {w.edges}]
  PROVE  PathsHold(t) /\ Shaped(t) /\ t.of = s.of
  <1>1. /\ t.of = s.of /\ t.depth = s.depth /\ t.limit = s.limit /\ Shaped(t)
        /\ t.walks = s.walks \ {w} /\ t.found = s.found \cup {w.edges}
    BY DEF Shaped
  <1> DEFINE m == Len(w.edges)
  <1>2. m \in Nat /\ m \in 0..s.depth /\ Simple(w, m) /\ s.depth \in Nat /\ s.limit \in Nat
    BY DEF PathsHold
  <1>3. w.edges \in Seq(edges) /\ Last(w.nodes) = w.nodes[m + 1]
    BY <1>2, SimpleIs
  <1>4. m # 0
    BY <1>3, EmptySeq
  <1>5. w.edges \in SimplePaths(s.depth)
    <2>1. w.edges \in PathsOf(m) /\ m \in 1..s.depth
      BY <1>2, <1>3, <1>4, SimpleIs
    <2> QED
      BY <2>1 DEF SimplePaths
  <1>6. IsFiniteSet(t.found) /\ Cardinality(t.found) <= s.limit
    <2>1. IsFiniteSet(s.found) /\ Cardinality(s.found) \in Nat
      BY FS_CardinalityType DEF PathsHold
    <2>2. IsFiniteSet(t.found)
          /\ (Cardinality(t.found) = Cardinality(s.found) \/ Cardinality(t.found) = Cardinality(s.found) + 1)
      BY <1>1, <2>1, FS_AddElement
    <2> QED
      BY <1>2, <2>1, <2>2
  <1>7. \A v \in t.walks :
          /\ v = [nodes |-> v.nodes, edges |-> v.edges]
          /\ Len(v.edges) \in 0..t.depth /\ Simple(v, Len(v.edges))
          /\ \A p \in t.found : Len(p) <= Len(v.edges)
    BY <1>1 DEF PathsHold
  <1>8. ASSUME NEW k \in 1..s.depth, NEW p \in Records(k), Simple(p, k), p.nodes[k + 1] = Target
        PROVE  p.edges \in t.found \/ \E v \in t.walks : Starts(v, k, p)
    <2>1. CASE p.edges \in s.found
      BY <1>1, <2>1
    <2>2. CASE \E v \in s.walks \ {w} : Starts(v, k, p)
      BY <1>1, <2>2
    <2>3. CASE Starts(w, k, p)
      <3>1. m <= k /\ k \in Nat /\ m + 1 \in 1..(m + 1) /\ m + 1 \in 1..(k + 1) /\ k + 1 \in 1..(k + 1)
        BY <1>2, <2>3 DEF Starts
      <3>2. p.nodes[m + 1] = p.nodes[k + 1]
        BY <1>3, <1>8, <2>3, <3>1 DEF Starts
      <3>3. m + 1 = k + 1
        BY <1>8, <3>1, <3>2 DEF Simple
      <3>4. m = k
        BY <1>2, <3>1, <3>3
      <3>5. w.edges \in [1..k -> edges] /\ p.edges \in [1..k -> edges] /\ \A i \in 1..k : w.edges[i] = p.edges[i]
        BY <1>2, <1>8, <2>3, <3>4 DEF Simple, Starts
      <3>6. w.edges = p.edges
        BY <3>5
      <3> QED
        BY <1>1, <3>6
    <2> QED
      BY <1>2, <1>8, <2>1, <2>2, <2>3 DEF PathsHold
  <1>9. t.depth \in Nat \ {0} /\ t.limit \in Nat \ {0} /\ t.found \subseteq SimplePaths(t.depth)
    BY <1>1, <1>5 DEF PathsHold
  <1>10. PathsHold(t)
    BY <1>1, <1>6, <1>7, <1>8, <1>9 DEF PathsHold
  <1> QED
    BY <1>1, <1>10

(* One that has not goes on, unless it is as long as asked for.            *)
GoesBy(w, m, x, v) ==
    /\ m \in Nat /\ Simple(w, m)
    /\ x \in Entries(w.nodes[m + 1]) /\ x[1] \notin ToSet(w.nodes)
    /\ v.nodes = Append(w.nodes, x[1]) /\ v.edges = Append(w.edges, x[2])
Prolongs(w, m, x, v) ==
    /\ Simple(v, m + 1) /\ Len(v.edges) = m + 1
    /\ v.nodes[m + 2] = x[1] /\ v.edges[m + 1] = x[2]
    /\ \A i \in 1..(m + 1) : v.nodes[i] = w.nodes[i]
    /\ \A i \in 1..m : v.edges[i] = w.edges[i]

LEMMA LongerWalk ==
  ASSUME edges \subseteq Pairs, NEW w, NEW m, NEW x, NEW v, GoesBy(w, m, x, v)
  PROVE  Prolongs(w, m, x, v)
  <1> USE DEF GoesBy
  <1>1. /\ w.nodes \in Seq(Nodes) /\ Len(w.nodes) = m + 1 /\ w.edges \in Seq(edges) /\ Len(w.edges) = m
    BY SimpleIs
  <1>2. x[1] \in Nodes /\ x[2] \in edges /\ Joins(x[2], w.nodes[m + 1], x[1])
    BY EntriesJoin
  <1>3. v.nodes = Append(w.nodes, x[1]) /\ v.edges = Append(w.edges, x[2])
    OBVIOUS
  <1>4. /\ v.nodes \in Seq(Nodes) /\ Len(v.nodes) = (m + 1) + 1
        /\ \A i \in 1..(m + 1) : v.nodes[i] = w.nodes[i]
        /\ v.nodes[(m + 1) + 1] = x[1]
    BY <1>1, <1>2, <1>3, AppendProperties
  <1>5. /\ v.edges \in Seq(edges) /\ Len(v.edges) = m + 1
        /\ \A i \in 1..m : v.edges[i] = w.edges[i]
        /\ v.edges[m + 1] = x[2]
    BY <1>1, <1>2, <1>3, AppendProperties
  <1>6. v.nodes \in [1..((m + 1) + 1) -> Nodes] /\ v.edges \in [1..(m + 1) -> edges]
    BY <1>4, <1>5, LenProperties
  <1>7. /\ (m + 1) + 1 = m + 2 /\ m + 1 \in 1..(m + 1) /\ 1 \in 1..(m + 1)
        /\ \A i \in 1..((m + 1) + 1) : i \in 1..(m + 1) \/ i = (m + 1) + 1
        /\ \A i \in 1..(m + 1) : i \in 1..m \/ i = m + 1
        /\ \A i \in 1..m : i \in 1..(m + 1) /\ i + 1 \in 1..(m + 1)
    OBVIOUS
  <1>8. \A i \in 1..(m + 1) : w.nodes[i] # x[1]
    <2>1. DOMAIN w.nodes = 1..(m + 1)
      BY <1>1, LenProperties
    <2> QED
      BY <2>1 DEF ToSet
  <1>9. \A i, j \in 1..((m + 1) + 1) : v.nodes[i] = v.nodes[j] => i = j
    <2>1. \A i, j \in 1..(m + 1) : w.nodes[i] = w.nodes[j] => i = j
      BY DEF Simple
    <2> QED
      BY <1>4, <1>7, <1>8, <2>1
  <1>10. v.nodes[1] = Start
    BY <1>4, <1>7 DEF Simple
  <1>11. \A i \in 1..(m + 1) : Joins(v.edges[i], v.nodes[i], v.nodes[i + 1])
    <2>1. \A i \in 1..m : Joins(v.edges[i], v.nodes[i], v.nodes[i + 1])
      BY <1>4, <1>5, <1>7 DEF Simple
    <2>2. Joins(v.edges[m + 1], v.nodes[m + 1], v.nodes[(m + 1) + 1])
      BY <1>2, <1>4, <1>5, <1>7
    <2> QED
      BY <1>7, <2>1, <2>2
  <1>12. Simple(v, m + 1)
    BY <1>6, <1>9, <1>10, <1>11 DEF Simple
  <1> QED
    BY <1>3, <1>4, <1>5, <1>7, <1>12 DEF Prolongs

GoesOn(s, w, longer, t) ==
    /\ longer = IF Len(w.edges) >= s.depth THEN {}
                 ELSE {[nodes |-> Append(w.nodes, x[1]), edges |-> Append(w.edges, x[2])] :
                         x \in {y \in Entries(Last(w.nodes)) : y[1] \notin ToSet(w.nodes)}}
    /\ t = [s EXCEPT !.walks = (s.walks \ {w}) \cup longer]

LEMMA WalkGoesOnHolds ==
  ASSUME edges \subseteq Pairs, NEW s, Shaped(s), PathsHold(s), NEW w \in s.walks,
         Last(w.nodes) # Target \/ w.edges = <<>>, NEW longer,
         \A v \in s.walks : Len(w.edges) <= Len(v.edges),
         NEW t, GoesOn(s, w, longer, t)
  PROVE  PathsHold(t) /\ Shaped(t) /\ t.of = s.of
  <1> USE DEF GoesOn
  <1>1. /\ t.of = s.of /\ t.depth = s.depth /\ t.limit = s.limit /\ t.found = s.found /\ Shaped(t)
        /\ t.walks = (s.walks \ {w}) \cup longer
    BY DEF Shaped
  <1> DEFINE m == Len(w.edges)
             Goes(x) == x \in Entries(w.nodes[m + 1]) /\ x[1] \notin ToSet(w.nodes)
             By(x) == [nodes |-> Append(w.nodes, x[1]), edges |-> Append(w.edges, x[2])]
  <1>2. m \in Nat /\ m \in 0..s.depth /\ Simple(w, m) /\ s.depth \in Nat
    BY DEF PathsHold
  <1>3. Len(w.nodes) = m + 1 /\ Last(w.nodes) = w.nodes[m + 1] /\ w.nodes \in Seq(Nodes)
    BY <1>2, SimpleIs
  <1>4. \A v \in longer : m < s.depth /\ \E x : Goes(x) /\ v = By(x)
    <2>1. CASE m >= s.depth
      BY <2>1
    <2>2. CASE ~(m >= s.depth)
      <3>1. m < s.depth
        BY <1>2, <2>2
      <3> QED
        BY <1>3, <2>2, <3>1
    <2> QED
      BY <2>1, <2>2
  <1>5. ASSUME m < s.depth  PROVE \A x : Goes(x) => By(x) \in longer
    <2>1. ~(m >= s.depth)
      BY <1>2, <1>5
    <2> QED
      BY <1>3, <2>1
  <1> HIDE DEF By
  <1>6. ASSUME NEW x, Goes(x)
        PROVE  /\ Simple(By(x), m + 1) /\ Len(By(x).edges) = m + 1
               /\ By(x) = [nodes |-> By(x).nodes, edges |-> By(x).edges]
               /\ By(x).nodes[m + 2] = x[1] /\ By(x).edges[m + 1] = x[2]
               /\ \A i \in 1..(m + 1) : By(x).nodes[i] = w.nodes[i]
               /\ \A i \in 1..m : By(x).edges[i] = w.edges[i]
    <2>1. /\ By(x).nodes = Append(w.nodes, x[1]) /\ By(x).edges = Append(w.edges, x[2])
          /\ By(x) = [nodes |-> By(x).nodes, edges |-> By(x).edges]
      BY DEF By
    <2>2. x \in Entries(w.nodes[m + 1]) /\ x[1] \notin ToSet(w.nodes)
      BY <1>6
    <2> DEFINE v == By(x)
    <2>3. v.nodes = Append(w.nodes, x[1]) /\ v.edges = Append(w.edges, x[2])
      BY <2>1
    <2>4. GoesBy(w, m, x, v)
      BY <1>2, <2>2, <2>3 DEF GoesBy
    <2> HIDE DEF m, Goes, v
    <2>10. Prolongs(w, m, x, v)
      BY <2>4, LongerWalk
    <2> QED
      BY <2>1, <2>10 DEF v, Prolongs
  <1>7. \A p \in s.found : Len(p) \in Nat
    <2>1. \A p \in s.found : \E k \in 1..s.depth : p \in PathsOf(k)
      BY DEF PathsHold, SimplePaths
    <2>2. \A k \in 1..s.depth : \A p \in PathsOf(k) : Len(p) = k
      BY FunctionIsSeq DEF PathsOf
    <2> QED
      BY <1>2, <2>1, <2>2
  <1>8. \A v \in t.walks :
          /\ v = [nodes |-> v.nodes, edges |-> v.edges]
          /\ Len(v.edges) \in 0..t.depth /\ Simple(v, Len(v.edges))
          /\ \A p \in t.found : Len(p) <= Len(v.edges)
    <2> SUFFICES ASSUME NEW v \in longer
                 PROVE  /\ v = [nodes |-> v.nodes, edges |-> v.edges]
                        /\ Len(v.edges) \in 0..t.depth /\ Simple(v, Len(v.edges))
                        /\ \A p \in t.found : Len(p) <= Len(v.edges)
      BY <1>1 DEF PathsHold
    <2>1. PICK x : Goes(x) /\ v = By(x)
      BY <1>4
    <2>2. m < s.depth /\ m + 1 \in 0..s.depth
      BY <1>2, <1>4
    <2>3. v = [nodes |-> v.nodes, edges |-> v.edges] /\ Simple(v, m + 1) /\ Len(v.edges) = m + 1
      BY <1>6, <2>1
    <2>4. \A p \in s.found : Len(p) <= m
      BY DEF PathsHold
    <2>5. \A p \in s.found : Len(p) <= m + 1
      BY <1>2, <1>7, <2>4
    <2> QED
      BY <1>1, <2>2, <2>3, <2>5
  <1>9. ASSUME NEW k \in 1..s.depth, NEW p \in Records(k), Simple(p, k), p.nodes[k + 1] = Target
        PROVE  p.edges \in t.found \/ \E v \in t.walks : Starts(v, k, p)
    <2>1. CASE p.edges \in s.found
      BY <1>1, <2>1
    <2>2. CASE \E v \in s.walks \ {w} : Starts(v, k, p)
      BY <1>1, <2>2
    <2>3. CASE Starts(w, k, p)
      <3>1. m <= k /\ k \in Nat /\ k \in 1..s.depth /\ m + 1 \in 1..(m + 1)
        BY <1>2, <2>3 DEF Starts
      <3>2. p.nodes[m + 1] = w.nodes[m + 1]
        BY <2>3, <3>1 DEF Starts
      <3>3. m # k
        <4> SUFFICES ASSUME m = k  PROVE FALSE
          OBVIOUS
        <4>1. w.edges = <<>>
          BY <1>3, <1>9, <3>2
        <4> QED
          BY <3>1, <4>1
      <3>4. m < k /\ m < s.depth /\ m + 1 \in 1..k /\ m + 1 <= k
            /\ m + 2 \in 1..(k + 1) /\ (m + 1) + 1 = m + 2
        BY <1>2, <3>1, <3>3
      <3> DEFINE x == <<p.nodes[m + 2], p.edges[m + 1]>>
      <3>5. x[1] = p.nodes[m + 2] /\ x[2] = p.edges[m + 1]
        OBVIOUS
      <3>6. p.edges[m + 1] \in edges /\ Joins(p.edges[m + 1], p.nodes[m + 1], p.nodes[m + 2])
        BY <1>9, <3>4 DEF Simple
      <3>7. x \in Entries(w.nodes[m + 1])
        BY <3>2, <3>6, JoinedIsEntry
      <3>8. p.nodes[m + 2] \notin ToSet(w.nodes)
        <4> SUFFICES ASSUME NEW i \in 1..(m + 1), w.nodes[i] = p.nodes[m + 2]  PROVE FALSE
          BY <1>3, LenProperties DEF ToSet
        <4>1. i \in 1..(k + 1) /\ i # m + 2
          BY <1>2, <3>4
        <4>2. p.nodes[i] = p.nodes[m + 2]
          BY <2>3 DEF Starts
        <4> QED
          BY <1>9, <3>4, <4>1, <4>2 DEF Simple
      <3> HIDE DEF x
      <3>9. Goes(x)
        BY <3>5, <3>7, <3>8
      <3> DEFINE v == By(x)
      <3>10. v \in longer
        BY <1>5, <3>4, <3>9
      <3>11. /\ Len(v.edges) = m + 1 /\ v.nodes[m + 2] = x[1] /\ v.edges[m + 1] = x[2]
             /\ \A i \in 1..(m + 1) : v.nodes[i] = w.nodes[i]
             /\ \A i \in 1..m : v.edges[i] = w.edges[i]
        BY <1>6, <3>9
      <3> HIDE DEF v
      <3>12. /\ \A i \in 1..m : w.edges[i] = p.edges[i]
             /\ \A i \in 1..(m + 1) : w.nodes[i] = p.nodes[i]
        BY <2>3 DEF Starts
      <3>13. /\ \A i \in 1..(m + 1) : i \in 1..m \/ i = m + 1
             /\ \A i \in 1..((m + 1) + 1) : i \in 1..(m + 1) \/ i = m + 2
        BY <1>2
      <3>14. \A i \in 1..(m + 1) : v.edges[i] = p.edges[i]
        BY <3>5, <3>11, <3>12, <3>13
      <3>15. \A i \in 1..((m + 1) + 1) : v.nodes[i] = p.nodes[i]
        BY <3>5, <3>11, <3>12, <3>13
      <3>16. Starts(v, k, p)
        BY <3>4, <3>11, <3>14, <3>15 DEF Starts
      <3> QED
        BY <1>1, <3>10, <3>16
    <2> QED
      BY <1>2, <1>9, <2>1, <2>2, <2>3 DEF PathsHold
  <1>10. /\ t.depth \in Nat \ {0} /\ t.limit \in Nat \ {0} /\ t.found \subseteq SimplePaths(t.depth)
         /\ IsFiniteSet(t.found) /\ Cardinality(t.found) <= t.limit
    BY <1>1 DEF PathsHold
  <1>11. PathsHold(t)
    BY <1>1, <1>8, <1>9, <1>10 DEF PathsHold
  <1> QED
    BY <1>1, <1>11

(* What a search for paths that ended has found.                           *)
LEMMA PathSearchEnds ==
  ASSUME edges \subseteq Pairs, NEW s, PathsHold(s), s.walks = {} \/ Cardinality(s.found) >= s.limit
  PROVE  LET all == SimplePaths(s.depth) IN
         /\ s.found \subseteq all
         /\ Cardinality(s.found) = IF Cardinality(all) < s.limit THEN Cardinality(all) ELSE s.limit
         /\ \A p \in s.found, q \in all \ s.found : Len(p) <= Len(q)
  <1> DEFINE all == SimplePaths(s.depth)
  <1>1. /\ s.depth \in Nat /\ s.limit \in Nat /\ s.found \subseteq all
        /\ IsFiniteSet(s.found) /\ Cardinality(s.found) <= s.limit
    BY DEF PathsHold
  <1>2. IsFiniteSet(all) /\ Cardinality(all) \in Nat /\ Cardinality(s.found) \in Nat
        /\ Cardinality(s.found) <= Cardinality(all)
    BY <1>1, PathsAreFinite, FS_CardinalityType, FS_Subset
  <1>3. ASSUME NEW q \in all \ s.found
        PROVE  \E v \in s.walks : Len(v.edges) \in Nat /\ Len(v.edges) <= Len(q) /\ Len(q) \in Nat
    <2>1. PICK k \in 1..s.depth : q \in PathsOf(k)
      BY DEF SimplePaths
    <2>2. k \in Nat /\ Len(q) = k
      BY <1>1, <2>1, FunctionIsSeq DEF PathsOf
    <2>3. PICK p \in Records(k) : Simple(p, k) /\ p.nodes[k + 1] = Target /\ p.edges = q
      BY <2>1, <2>2, PathIsSimple
    <2>4. PICK v \in s.walks : Starts(v, k, p)
      BY <1>3, <2>3 DEF PathsHold
    <2>5. Len(v.edges) \in Nat /\ Len(v.edges) <= k
      BY <1>1, <2>4 DEF PathsHold, Starts
    <2> QED
      BY <2>2, <2>5
  <1>4. \A p \in s.found, q \in all \ s.found : Len(p) <= Len(q)
    <2> SUFFICES ASSUME NEW p \in s.found, NEW q \in all \ s.found  PROVE Len(p) <= Len(q)
      OBVIOUS
    <2>1. PICK v \in s.walks : Len(v.edges) \in Nat /\ Len(v.edges) <= Len(q) /\ Len(q) \in Nat
      BY <1>3
    <2>2. Len(p) <= Len(v.edges)
      BY DEF PathsHold
    <2>3. Len(p) \in Nat
      <3>1. PICK k \in 1..s.depth : p \in PathsOf(k)
        BY DEF PathsHold, SimplePaths
      <3> QED
        BY <1>1, <3>1, FunctionIsSeq DEF PathsOf
    <2> QED
      BY <2>1, <2>2, <2>3
  <1>5. CASE s.walks = {}
    <2>1. s.found = all
      BY <1>1, <1>3, <1>5
    <2>2. Cardinality(s.found) = Cardinality(all)
      BY <2>1
    <2>3. Cardinality(s.found) = IF Cardinality(all) < s.limit THEN Cardinality(all) ELSE s.limit
      BY <1>1, <1>2, <2>2
    <2> QED
      BY <1>1, <1>4, <2>3
  <1>6. CASE Cardinality(s.found) >= s.limit
    <2>1. Cardinality(s.found) = s.limit /\ ~(Cardinality(all) < s.limit)
      BY <1>1, <1>2, <1>6
    <2> QED
      BY <1>1, <1>4, <2>1
  <1> QED
    BY <1>5, <1>6
-----------------------------------------------------------------------------
(***************************************************************************)
(* Cycles.                                                                 *)
(***************************************************************************)
LEMMA SuccessorIs ==
  ASSUME edges \subseteq Pairs, NEW m, NEW n
  PROVE  /\ n \in Successors(m) <=> <<m, n>> \in edges
         /\ n \in Successors(m) => m \in Nodes /\ n \in Nodes
  <1>1. ASSUME n \in Successors(m)  PROVE <<m, n>> \in edges /\ m \in Nodes /\ n \in Nodes
    <2>1. PICK e \in edges : e[1] = m /\ e[2] = n
      BY <1>1 DEF Successors
    <2> QED
      BY <2>1, EdgesJoinNodes
  <1>2. ASSUME <<m, n>> \in edges  PROVE n \in Successors(m)
    BY <1>2 DEF Successors
  <1> QED
    BY <1>1, <1>2

LEMMA CycleSearchBegins ==
  ASSUME NEW depth, NEW limit  PROVE CyclesHold(Searching("cycles", depth, limit))
  <1> DEFINE s == Searching("cycles", depth, limit)
  <1>1. s.seen = {} /\ s.path = <<>> /\ s.left = <<>> /\ s.found = {}
    BY DEF Searching
  <1> HIDE DEF s
  <1>2. Len(<<>>) = 0 /\ <<>> \in Seq(s.seen) /\ <<>> \in Seq(SUBSET Nodes) /\ Finished(s) = {}
    BY <1>1 DEF Finished
  <1>3. CyclesHold(s)
    BY <1>1, <1>2 DEF CyclesHold
  <1> QED
    BY <1>3 DEF s

(* The path and what is left of its nodes, by their places.                *)
LEMMA PathIs ==
  ASSUME NEW s, CyclesHold(s)
  PROVE  /\ Len(s.path) \in Nat /\ Len(s.left) = Len(s.path)
         /\ DOMAIN s.path = 1..Len(s.path) /\ DOMAIN s.left = 1..Len(s.path)
         /\ \A k \in 1..Len(s.path) : s.path[k] \in s.seen /\ s.left[k] \subseteq Nodes
         /\ \A n : n \in Finished(s) <=> n \in s.seen /\ \A k \in 1..Len(s.path) : s.path[k] # n
  <1>1. s.path \in Seq(s.seen) /\ s.left \in Seq(SUBSET Nodes) /\ Len(s.left) = Len(s.path)
    BY DEF CyclesHold
  <1>2. Len(s.path) \in Nat /\ DOMAIN s.path = 1..Len(s.path) /\ DOMAIN s.left = 1..Len(s.path)
    BY <1>1, LenProperties
  <1>3. \A k \in 1..Len(s.path) : s.path[k] \in s.seen
    BY <1>1, ElementOfSeq
  <1>4. \A k \in 1..Len(s.path) : s.left[k] \in SUBSET Nodes
    BY <1>1, ElementOfSeq
  <1> QED
    BY <1>1, <1>2, <1>3, <1>4 DEF Finished

(* What a search says as long as it has found nothing.                     *)
Acyclic(s) ==
    /\ \A n \in Finished(s) : Successors(n) \subseteq Finished(s)
    /\ \A S \in SUBSET Finished(s) : S # {} => \E n \in S : Successors(n) \cap S = {}
    /\ \A i \in 1..Len(s.path) :
          Successors(s.path[i]) \ s.left[i]
             \subseteq Finished(s) \cup (IF i < Len(s.path) THEN {s.path[i + 1]} ELSE {})

(* A node entered goes on the path, which leads to it.                     *)
Enters(s, t, n, i) ==
    /\ t.seen = s.seen \cup {n} /\ t.path = Append(s.path, n) /\ t.found = s.found
    /\ t.left \in Seq(SUBSET Nodes) /\ Len(t.left) = i + 1 /\ t.left[i + 1] = Successors(n)
    /\ \A k \in 1..i : t.left[k] \subseteq s.left[k] /\ (k # i => t.left[k] = s.left[k])
    /\ i # 0 => n \in Successors(s.path[i]) /\ s.left[i] \ t.left[i] \subseteq {n}

LEMMA EnterHolds ==
  ASSUME edges \subseteq Pairs, NEW s, CyclesHold(s), NEW n \in Nodes, n \notin s.seen,
         NEW i, i = Len(s.path), NEW t, Enters(s, t, n, i)
  PROVE  CyclesHold(t)
  <1> USE DEF Enters
  <1>1. /\ i \in Nat /\ \A k \in 1..i : s.path[k] \in s.seen
        /\ \A m : m \in Finished(s) <=> m \in s.seen /\ \A k \in 1..i : s.path[k] # m
    BY PathIs
  <1>2. s.path \in Seq(t.seen) /\ n \in t.seen /\ t.seen \subseteq Nodes /\ Successors(n) \in SUBSET Nodes
    <2>1. s.path \in Seq(s.seen) /\ s.seen \subseteq t.seen /\ s.seen \subseteq Nodes
      BY DEF CyclesHold
    <2>2. s.path \in Seq(t.seen)
      BY <2>1, SeqMonotonic
    <2> QED
      BY <2>1, <2>2, SuccessorIs
  <1>3. /\ t.path \in Seq(t.seen) /\ Len(t.path) = i + 1
        /\ \A k \in 1..i : t.path[k] = s.path[k]
        /\ t.path[i + 1] = n
    BY <1>2, AppendProperties
  <1>4. \A k \in 1..i : t.left[k] \subseteq s.left[k] /\ (k # i => t.left[k] = s.left[k])
    OBVIOUS
  <1>5. /\ \A k \in 1..(i + 1) : k \in 1..i \/ k = i + 1
        /\ (i + 1) - 1 = i /\ \A k \in 1..i : k < i + 1 /\ k \in 1..(i + 1) /\ k + 1 \in 1..(i + 1)
        /\ \A k \in 1..i : k = i \/ (k < i /\ k \in 1..(i - 1) /\ k + 1 \in 1..i)
        /\ i + 1 \in 1..(i + 1) /\ ~(i + 1 < i + 1)
    BY <1>1
  <1>6. \A k \in 1..Len(t.path) : t.left[k] \subseteq Successors(t.path[k])
    <2>1. \A k \in 1..i : s.left[k] \subseteq Successors(s.path[k])
      BY DEF CyclesHold
    <2> SUFFICES ASSUME NEW k \in 1..(i + 1)  PROVE t.left[k] \subseteq Successors(t.path[k])
      BY <1>3
    <2>2. CASE k = i + 1
      BY <1>3, <1>4, <2>2
    <2>3. CASE k \in 1..i
      BY <1>3, <1>4, <2>1, <2>3
    <2> QED
      BY <1>5, <2>2, <2>3
  <1>7. \A j, k \in 1..Len(t.path) : t.path[j] = t.path[k] => j = k
    <2>1. \A j, k \in 1..i : s.path[j] = s.path[k] => j = k
      BY DEF CyclesHold
    <2> QED
      BY <1>1, <1>3, <1>5, <2>1
  <1>8. \A k \in 1..(Len(t.path) - 1) : <<t.path[k], t.path[k + 1]>> \in edges
    <2>1. \A k \in 1..(i - 1) : <<s.path[k], s.path[k + 1]>> \in edges
      BY DEF CyclesHold
    <2>2. i # 0 => <<s.path[i], n>> \in edges
      BY SuccessorIs
    <2> SUFFICES ASSUME NEW k \in 1..i  PROVE <<t.path[k], t.path[k + 1]>> \in edges
      BY <1>3, <1>5
    <2>3. CASE k = i
      <3>1. i # 0 /\ t.path[k] = s.path[i] /\ t.path[k + 1] = n
        BY <1>1, <1>3, <2>3
      <3> QED
        BY <2>2, <3>1
    <2>4. CASE k # i
      BY <1>3, <1>5, <2>1, <2>4
    <2> QED
      BY <2>3, <2>4
  <1>9. Finished(t) = Finished(s)
    <2>1. DOMAIN t.path = 1..(i + 1)
      BY <1>3, LenProperties
    <2>2. \A m : m \in Finished(t) <=> m \in t.seen /\ \A k \in 1..(i + 1) : t.path[k] # m
      BY <2>1 DEF Finished
    <2>3. \A m : m \in Finished(t) <=> m \in s.seen \cup {n} /\ m # n /\ \A k \in 1..i : s.path[k] # m
      BY <1>3, <1>5, <2>2
    <2>4. \A m : m \in Finished(t) <=> m \in Finished(s)
      BY <1>1, <2>3
    <2>5. Finished(t) \subseteq Finished(s) /\ Finished(s) \subseteq Finished(t)
      BY <2>4
    <2> QED
      BY <2>5
  <1>10. ASSUME t.found = {}  PROVE Acyclic(t)
    <2>1. /\ \A m \in Finished(s) : Successors(m) \subseteq Finished(s)
          /\ \A S \in SUBSET Finished(s) : S # {} => \E m \in S : Successors(m) \cap S = {}
      BY <1>10 DEF CyclesHold
    <2>2. \A k \in 1..i : Successors(s.path[k]) \ s.left[k]
                             \subseteq Finished(s) \cup (IF k < i THEN {s.path[k + 1]} ELSE {})
      BY <1>10 DEF CyclesHold
    <2>3. \A k \in 1..(i + 1) : Successors(t.path[k]) \ t.left[k]
                             \subseteq Finished(t) \cup (IF k < i + 1 THEN {t.path[k + 1]} ELSE {})
      <3> SUFFICES ASSUME NEW k \in 1..(i + 1)
                   PROVE  Successors(t.path[k]) \ t.left[k]
                             \subseteq Finished(t) \cup (IF k < i + 1 THEN {t.path[k + 1]} ELSE {})
        OBVIOUS
      <3>1. CASE k = i + 1
        BY <1>3, <1>4, <3>1
      <3>2. CASE k \in 1..i /\ k = i
        <4>1. Successors(s.path[i]) \ s.left[i] \subseteq Finished(s)
          BY <2>2, <3>2
        <4>2. Successors(s.path[i]) \ t.left[i] \subseteq Finished(s) \cup {n}
          BY <1>1, <3>2, <4>1
        <4> QED
          BY <1>3, <1>4, <1>5, <1>9, <3>2, <4>2
      <3>3. CASE k \in 1..i /\ k # i
        <4>1. k < i /\ k < i + 1 /\ k + 1 \in 1..i
          BY <1>5, <3>3
        <4>2. Successors(s.path[k]) \ s.left[k] \subseteq Finished(s) \cup {s.path[k + 1]}
          BY <2>2, <3>3, <4>1
        <4> QED
          BY <1>3, <1>4, <1>9, <3>3, <4>1, <4>2
      <3> QED
        BY <1>5, <3>1, <3>2, <3>3
    <2>4. /\ \A m \in Finished(t) : Successors(m) \subseteq Finished(t)
          /\ \A S \in SUBSET Finished(t) : S # {} => \E m \in S : Successors(m) \cap S = {}
      BY <1>9, <2>1
    <2>5. Len(t.path) = i + 1
      BY <1>3
    <2> QED
      BY <2>3, <2>4, <2>5 DEF Acyclic
  <1>11. \A c \in t.found : c \in Seq(Nodes) /\ ClosedWalk(c)
    BY DEF CyclesHold
  <1> QED
    BY <1>2, <1>3, <1>4, <1>6, <1>7, <1>8, <1>10, <1>11 DEF CyclesHold, Acyclic

(* A node followed leaves the list of the one it follows.                  *)
LEMMA PassedHolds ==
  ASSUME NEW s, CyclesHold(s), s.path # <<>>, NEW n, NEW i, i = Len(s.path),
         NEW t, t.seen = s.seen, t.path = s.path, t.left = [s.left EXCEPT ![i] = s.left[i] \ {n}],
         \A c \in t.found : c \in Seq(Nodes) /\ ClosedWalk(c),
         t.found = {} => s.found = {} /\ n \in Finished(s)
  PROVE  CyclesHold(t)
  <1>1. /\ i \in Nat /\ DOMAIN s.left = 1..i /\ \A k \in 1..i : s.left[k] \subseteq Nodes
    BY PathIs
  <1>2. /\ s.left \in Seq(SUBSET Nodes) /\ Len(s.left) = i /\ s.path \in Seq(s.seen)
    BY DEF CyclesHold
  <1>3. i \in 1..i
    <2>1. i # 0
      BY <1>2, EmptySeq
    <2> QED
      BY <1>1, <2>1
  <1>4. /\ t.left[i] = s.left[i] \ {n} /\ \A k \in 1..i : k # i => t.left[k] = s.left[k]
        /\ DOMAIN t.left = 1..i
    BY <1>1, <1>3
  <1>5. t.left \in Seq(SUBSET Nodes) /\ Len(t.left) = i
    <2>1. s.left[i] \ {n} \in SUBSET Nodes
      BY <1>1, <1>3
    <2> QED
      BY <1>2, <1>3, <2>1, ExceptSeq
  <1>6. \A k \in 1..i : t.left[k] \subseteq s.left[k]
    BY <1>4
  <1>7. \A k \in 1..Len(t.path) : t.left[k] \subseteq Successors(t.path[k])
    BY <1>6 DEF CyclesHold
  <1>8. Finished(t) = Finished(s)
    BY DEF Finished
  <1>9. ASSUME t.found = {}  PROVE Acyclic(t)
    <2>1. /\ s.found = {} /\ n \in Finished(s)
      BY <1>9
    <2>2. \A k \in 1..i : Successors(s.path[k]) \ s.left[k]
                             \subseteq Finished(s) \cup (IF k < i THEN {s.path[k + 1]} ELSE {})
      BY <2>1 DEF CyclesHold
    <2>3. \A k \in 1..i : Successors(s.path[k]) \ t.left[k]
                             \subseteq Finished(s) \cup (IF k < i THEN {s.path[k + 1]} ELSE {})
      <3> SUFFICES ASSUME NEW k \in 1..i
                   PROVE  Successors(s.path[k]) \ t.left[k]
                             \subseteq Finished(s) \cup (IF k < i THEN {s.path[k + 1]} ELSE {})
        OBVIOUS
      <3>1. Successors(s.path[k]) \ t.left[k] \subseteq (Successors(s.path[k]) \ s.left[k]) \cup {n}
        BY <1>4
      <3> HIDE DEF Finished
      <3> QED
        BY <2>1, <2>2, <3>1
    <2> QED
      BY <1>8, <2>1, <2>3 DEF CyclesHold, Acyclic
  <1> QED
    BY <1>5, <1>7, <1>9 DEF CyclesHold, Acyclic

LEMMA StartAtHolds ==
  ASSUME edges \subseteq Pairs, NEW s, CyclesHold(s), s.path = <<>>,
         NEW n \in Nodes, n \notin s.seen,
         NEW t, t.seen = s.seen \cup {n}, t.path = Append(s.path, n), t.found = s.found,
         t.left = Append(s.left, Successors(n))
  PROVE  CyclesHold(t)
  <1>1. Len(s.path) = 0 /\ Len(s.left) = 0 /\ s.left \in Seq(SUBSET Nodes)
    BY DEF CyclesHold
  <1>2. Successors(n) \in SUBSET Nodes
    BY SuccessorIs
  <1>3. t.left \in Seq(SUBSET Nodes) /\ Len(t.left) = 0 + 1 /\ t.left[0 + 1] = Successors(n)
    BY <1>1, <1>2, AppendProperties
  <1>4. \A k \in 1..0 : FALSE
    OBVIOUS
  <1>5. Enters(s, t, n, 0)
    BY <1>3, <1>4 DEF Enters
  <1> QED
    BY <1>1, <1>5, EnterHolds

(* A node that is followed.                                                *)
LEMMA FollowedIs ==
  ASSUME edges \subseteq Pairs, NEW s, CyclesHold(s), s.path # <<>>, NEW n \in Last(s.left),
         NEW i, i = Len(s.path)
  PROVE  /\ i \in Nat /\ i \in 1..i /\ n \in s.left[i] /\ n \in Nodes
         /\ n \in Successors(s.path[i]) /\ <<s.path[i], n>> \in edges
         /\ s.left \in Seq(SUBSET Nodes) /\ Len(s.left) = i /\ s.left[i] \ {n} \in SUBSET Nodes
  <1>1. s.left \in Seq(SUBSET Nodes) /\ Len(s.left) = i /\ s.path \in Seq(s.seen)
    BY DEF CyclesHold
  <1>2. i \in Nat /\ i \in 1..i
    <2>1. i \in Nat \ {0}
      BY <1>1, EmptySeq
    <2> QED
      BY <2>1
  <1>3. n \in s.left[i]
    BY <1>1 DEF Last
  <1>4. s.left[i] \subseteq Nodes /\ n \in Successors(s.path[i])
    BY <1>2, <1>3, PathIs DEF CyclesHold
  <1> QED
    BY <1>1, <1>2, <1>3, <1>4, SuccessorIs

(* From its place on the path to the end, and back to it: a cycle.         *)
LEMMA PathCloses ==
  ASSUME NEW path, NEW i \in Nat, \A k \in 1..i : path[k] \in Nodes,
         \A k \in 1..(i - 1) : <<path[k], path[k + 1]>> \in edges,
         NEW n \in Nodes, <<path[i], n>> \in edges, NEW j \in 1..i, path[j] = n
  PROVE  /\ Append(SubSeq(path, j, i), n) \in Seq(Nodes)
         /\ ClosedWalk(Append(SubSeq(path, j, i), n))
  <1> DEFINE f == SubSeq(path, j, i)
             c == Append(f, n)
             m == (i - j) + 1
  <1>1. j \in Int /\ i \in Int /\ j <= i /\ 1 <= j /\ m \in Nat \ {0} /\ \A k \in j..i : k \in 1..i
    OBVIOUS
  <1>2. \A k \in j..i : path[k] \in Nodes
    BY <1>1
  <1>3. /\ f \in Seq(Nodes) /\ Len(f) = m
        /\ \A k \in 1..m : f[k] = path[j + (k - 1)]
    BY <1>1, <1>2, SubSeqProperties
  <1> HIDE DEF f
  <1>4. m \in Nat \ {0} /\ m \in 1..m /\ 1 \in 1..m /\ j + (m - 1) = i /\ j + (1 - 1) = j
        /\ (m + 1) - 1 = m /\ m + 1 > 1
    BY <1>1
  <1>5. \A k \in 1..m : k = m \/ (k + 1 \in 1..m /\ j + (k - 1) \in 1..(i - 1)
                                  /\ j + ((k + 1) - 1) = (j + (k - 1)) + 1)
    BY <1>1
  <1> HIDE DEF m
  <1>6. /\ c \in Seq(Nodes) /\ Len(c) = m + 1 /\ c[m + 1] = n
        /\ \A k \in 1..m : c[k] = f[k]
    BY <1>3, AppendProperties
  <1> HIDE DEF c
  <1>7. \A k \in 1..m : c[k] = path[j + (k - 1)]
    BY <1>3, <1>6
  <1>8. c[1] = n /\ Last(c) = n /\ Len(c) > 1 /\ Len(c) - 1 = m
    BY <1>4, <1>6, <1>7 DEF Last
  <1>9. ASSUME NEW k \in 1..m  PROVE <<c[k], c[k + 1]>> \in edges
    <2>1. CASE k = m
      <3>1. c[k] = path[i] /\ c[k + 1] = n
        BY <1>4, <1>6, <1>7, <2>1
      <3> QED
        BY <3>1
    <2>2. CASE k # m
      <3> DEFINE h == j + (k - 1)
      <3>1. k + 1 \in 1..m /\ h \in 1..(i - 1) /\ j + ((k + 1) - 1) = h + 1
        BY <1>5, <2>2
      <3>2. c[k] = path[h]
        BY <1>7
      <3>3. c[k + 1] = path[j + ((k + 1) - 1)]
        BY <1>7, <3>1
      <3>4. c[k + 1] = path[h + 1]
        BY <3>1, <3>3
      <3> HIDE DEF h
      <3> QED
        BY <3>1, <3>2, <3>4
    <2> QED
      BY <2>1, <2>2
  <1>10. ClosedWalk(c)
    BY <1>8, <1>9 DEF ClosedWalk
  <1> QED
    BY <1>6, <1>10 DEF c, f

Closes(s, n, i, j, t) ==
    /\ i = Len(s.path) /\ j \in 1..i /\ s.path[j] = n
    /\ t.seen = s.seen /\ t.path = s.path /\ t.left = [s.left EXCEPT ![i] = s.left[i] \ {n}]
    /\ t.found = s.found \cup {Append(SubSeq(s.path, j, i), n)}

LEMMA CycleFoundHolds ==
  ASSUME edges \subseteq Pairs, NEW s, CyclesHold(s), s.path # <<>>, NEW n \in Last(s.left),
         NEW i, NEW j, NEW t, Closes(s, n, i, j, t)
  PROVE  CyclesHold(t)
  <1> USE DEF Closes
  <1>1. i \in Nat /\ n \in Nodes /\ <<s.path[i], n>> \in edges
    BY FollowedIs
  <1>2. \A k \in 1..i : s.path[k] \in Nodes
    BY PathIs DEF CyclesHold
  <1>3. \A k \in 1..(i - 1) : <<s.path[k], s.path[k + 1]>> \in edges
    BY DEF CyclesHold
  <1> DEFINE c == Append(SubSeq(s.path, j, i), n)
  <1>4. c \in Seq(Nodes) /\ ClosedWalk(c)
    BY <1>1, <1>2, <1>3, PathCloses
  <1>5. t.found = s.found \cup {c}
    OBVIOUS
  <1> HIDE DEF c
  <1>6. \A d \in t.found : d \in Seq(Nodes) /\ ClosedWalk(d)
    BY <1>4, <1>5 DEF CyclesHold
  <1>7. t.found # {}
    BY <1>5
  <1>8. /\ i = Len(s.path) /\ t.seen = s.seen /\ t.path = s.path
        /\ t.left = [s.left EXCEPT ![i] = s.left[i] \ {n}]
    OBVIOUS
  <1> HIDE DEF Closes
  <1> QED
    BY <1>6, <1>7, <1>8, PassedHolds

GoesInto(s, n, i, left, t) ==
    /\ n \notin s.seen /\ i = Len(s.path) /\ left = Append(s.left, Successors(n))
    /\ t.seen = s.seen \cup {n} /\ t.path = Append(s.path, n) /\ t.found = s.found
    /\ t.left = [left EXCEPT ![i] = left[i] \ {n}]

LEMMA NodeEnteredHolds ==
  ASSUME edges \subseteq Pairs, NEW s, CyclesHold(s), s.path # <<>>, NEW n \in Last(s.left),
         NEW i, NEW left, NEW t, GoesInto(s, n, i, left, t)
  PROVE  CyclesHold(t)
  <1> USE DEF GoesInto
  <1>1. /\ i \in Nat /\ i \in 1..i /\ n \in Nodes /\ n \in Successors(s.path[i])
        /\ s.left \in Seq(SUBSET Nodes) /\ Len(s.left) = i /\ s.left[i] \ {n} \in SUBSET Nodes
    BY FollowedIs
  <1>2. Successors(n) \in SUBSET Nodes
    BY SuccessorIs
  <1>3. /\ left \in Seq(SUBSET Nodes) /\ Len(left) = i + 1 /\ left[i + 1] = Successors(n)
        /\ \A k \in 1..i : left[k] = s.left[k]
    BY <1>1, <1>2, AppendProperties
  <1>4. i \in 1..Len(left) /\ left[i] \ {n} \in SUBSET Nodes /\ i # i + 1 /\ i + 1 \in 1..(i + 1)
        /\ \A k \in 1..i : k \in 1..(i + 1)
    BY <1>1, <1>3
  <1>5. DOMAIN left = 1..(i + 1)
    BY <1>3, LenProperties
  <1>6. t.left[i] = left[i] \ {n} /\ \A k \in 1..(i + 1) : k # i => t.left[k] = left[k]
    BY <1>4, <1>5, <1>3
  <1>7. t.left \in Seq(SUBSET Nodes) /\ Len(t.left) = i + 1
    BY <1>3, <1>4, ExceptSeq
  <1>8. t.left[i + 1] = Successors(n)
    BY <1>3, <1>4, <1>6
  <1>9. \A k \in 1..i : t.left[k] \subseteq s.left[k] /\ (k # i => t.left[k] = s.left[k])
    BY <1>1, <1>3, <1>4, <1>6
  <1>10. i # 0 => n \in Successors(s.path[i]) /\ s.left[i] \ t.left[i] \subseteq {n}
    BY <1>1, <1>3, <1>6
  <1>11. t.left \in Seq(SUBSET Nodes)
    BY <1>7
  <1>12. Len(t.left) = i + 1
    BY <1>7
  <1>13. n \in Nodes
    BY <1>1
  <1>14. Enters(s, t, n, i)
    BY <1>8, <1>9, <1>10, <1>11, <1>12 DEF Enters
  <1> QED
    BY <1>13, <1>14, EnterHolds

GoesPast(s, n, i, t) ==
    /\ n \in s.seen \ ToSet(s.path) /\ i = Len(s.path)
    /\ t.seen = s.seen /\ t.path = s.path /\ t.left = [s.left EXCEPT ![i] = s.left[i] \ {n}]
    /\ t.found = s.found

LEMMA NodePassedHolds ==
  ASSUME NEW s, CyclesHold(s), s.path # <<>>, NEW n, NEW i, NEW t, GoesPast(s, n, i, t)
  PROVE  CyclesHold(t)
  <1> USE DEF GoesPast
  <1>1. n \in Finished(s)
    BY DEF Finished, ToSet
  <1>2. \A c \in t.found : c \in Seq(Nodes) /\ ClosedWalk(c)
    BY DEF CyclesHold
  <1> QED
    BY <1>1, <1>2, PassedHolds

(* All but the last of a sequence.                                         *)
LEMMA FrontIs ==
  ASSUME NEW S, NEW q \in Seq(S), q # <<>>, NEW i, i = Len(q)
  PROVE  /\ Front(q) \in Seq(S) /\ Len(Front(q)) = i - 1 /\ i - 1 \in Nat
         /\ \A k \in 1..(i - 1) : Front(q)[k] = q[k]
         /\ Last(q) = q[i]
  <1>1. i \in Nat \ {0} /\ \A k \in 1..i : q[k] \in S
    <2>1. i \in Nat /\ i # 0
      BY EmptySeq
    <2>2. \A k \in 1..i : q[k] \in S
      BY ElementOfSeq
    <2> QED
      BY <2>1, <2>2
  <1> DEFINE n == i - 1
  <1>2. /\ 1 \in Int /\ n \in Int /\ n \in Nat
        /\ (IF 1 <= n THEN n - 1 + 1 ELSE 0) = n /\ n - 1 + 1 = n
        /\ \A k \in 1..n : k \in 1..i /\ 1 + k - 1 = k
    <2>1. n \in Nat /\ n + 1 = i
      BY <1>1
    <2> HIDE DEF n
    <2> QED
      BY <1>1, <2>1
  <1>3. \A k \in 1..n : q[k] \in S
    BY <1>1, <1>2
  <1>4. Front(q) = SubSeq(q, 1, n) /\ Last(q) = q[i]
    BY DEF Front, Last
  <1> HIDE DEF n
  <1>5. /\ SubSeq(q, 1, n) \in Seq(S)
        /\ Len(SubSeq(q, 1, n)) = (IF 1 <= n THEN n - 1 + 1 ELSE 0)
        /\ \A k \in 1..(n - 1 + 1) : SubSeq(q, 1, n)[k] = q[1 + k - 1]
    BY <1>2, <1>3, SubSeqProperties
  <1>6. /\ Front(q) \in Seq(S) /\ Len(Front(q)) = n /\ n \in Nat
        /\ \A k \in 1..n : Front(q)[k] = q[k]
    BY <1>2, <1>4, <1>5
  <1> QED
    BY <1>4, <1>6 DEF n

(* A node that has nothing left is finished.                               *)
LEMMA BacktrackHolds ==
  ASSUME NEW s, CyclesHold(s), s.path # <<>>, Last(s.left) = {},
         NEW t, t.seen = s.seen, t.path = Front(s.path), t.left = Front(s.left), t.found = s.found
  PROVE  CyclesHold(t)
  <1> DEFINE i == Len(s.path)
             p == s.path[i]
  <1>1. /\ s.left \in Seq(SUBSET Nodes) /\ Len(s.left) = i /\ s.path \in Seq(s.seen) /\ s.seen \subseteq Nodes
    BY DEF CyclesHold
  <1>2. i \in Nat \ {0} /\ s.left # <<>>
    BY <1>1, EmptySeq
  <1>4. /\ \A k \in 1..i : s.path[k] \in s.seen /\ s.left[k] \in SUBSET Nodes
        /\ \A m : m \in Finished(s) <=> m \in s.seen /\ \A k \in 1..i : s.path[k] # m
    BY PathIs
  <1> HIDE DEF i
  <1>5. /\ i - 1 \in Nat
        /\ \A k \in 1..(i - 1) : k \in 1..i /\ k # i
        /\ \A k \in 1..i : k \in 1..(i - 1) \/ k = i
        /\ i \in 1..i
    BY <1>2
  <1>6. /\ t.path \in Seq(s.seen) /\ Len(t.path) = i - 1
        /\ \A k \in 1..(i - 1) : t.path[k] = s.path[k]
    <2>1. /\ Front(s.path) \in Seq(s.seen) /\ Len(Front(s.path)) = i - 1
          /\ \A k \in 1..(i - 1) : Front(s.path)[k] = s.path[k]
      <3>1. PICK q \in Seq(s.seen) : q = s.path /\ q # <<>> /\ i = Len(q)
        BY <1>1 DEF i
      <3>2. /\ Front(q) \in Seq(s.seen) /\ Len(Front(q)) = i - 1
            /\ \A k \in 1..(i - 1) : Front(q)[k] = q[k]
        BY <3>1, FrontIs
      <3> QED
        BY <3>1, <3>2
    <2> QED
      BY <2>1
  <1>7. /\ t.left \in Seq(SUBSET Nodes) /\ Len(t.left) = i - 1
        /\ \A k \in 1..(i - 1) : t.left[k] = s.left[k]
        /\ s.left[i] = {}
    <2> DEFINE T == SUBSET Nodes
               q == s.left
    <2>1. q \in Seq(T) /\ q # <<>> /\ i = Len(q)
      BY <1>1, <1>2
    <2> HIDE DEF T, q
    <2>2. /\ Front(q) \in Seq(T) /\ Len(Front(q)) = i - 1
          /\ \A k \in 1..(i - 1) : Front(q)[k] = q[k]
          /\ Last(q) = q[i]
      BY <2>1, FrontIs
    <2>3. q = s.left /\ T = SUBSET Nodes
      BY DEF q, T
    <2> QED
      BY <2>2, <2>3
  <1>8. /\ Len(t.path) = i - 1 /\ Len(t.left) = i - 1
        /\ \A k \in 1..(i - 1) : t.path[k] = s.path[k] /\ t.left[k] = s.left[k]
    BY <1>6, <1>7
  <1>9. \A m : m \in Finished(t) <=> m \in Finished(s) \/ m = p
    <2>1. DOMAIN t.path = 1..(i - 1)
      BY <1>6, LenProperties
    <2>2. \A m : m \in Finished(t) <=> m \in s.seen /\ \A k \in 1..(i - 1) : s.path[k] # m
      <3>1. Finished(t) = s.seen \ {t.path[k] : k \in 1..(i - 1)}
        BY <2>1 DEF Finished
      <3> QED
        BY <1>8, <3>1
    <2>3. \A k \in 1..(i - 1) : s.path[k] # p
      BY <1>5 DEF CyclesHold, i
    <2>4. p \in s.seen
      BY <1>4, <1>5
    <2> HIDE DEF p
    <2>5. p = s.path[i]
      BY DEF p
    <2> QED
      BY <1>4, <1>5, <2>2, <2>3, <2>4, <2>5
  <1>10. /\ \A k \in 1..i : s.left[k] \subseteq Successors(s.path[k])
         /\ \A j, k \in 1..i : s.path[j] = s.path[k] => j = k
         /\ \A k \in 1..(i - 1) : <<s.path[k], s.path[k + 1]>> \in edges
    BY DEF CyclesHold, i
  <1>11. /\ \A k \in 1..(i - 1) : t.left[k] \subseteq Successors(t.path[k])
         /\ \A j, k \in 1..(i - 1) : t.path[j] = t.path[k] => j = k
         /\ \A k \in 1..((i - 1) - 1) : <<t.path[k], t.path[k + 1]>> \in edges
    <2>1. \A k \in 1..((i - 1) - 1) : k \in 1..(i - 1) /\ k + 1 \in 1..(i - 1)
      BY <1>2
    <2> QED
      BY <1>5, <1>8, <1>10, <2>1
  <1>12. ASSUME t.found = {}  PROVE Acyclic(t)
    <2>1. /\ \A n \in Finished(s) : Successors(n) \subseteq Finished(s)
          /\ \A S \in SUBSET Finished(s) : S # {} => \E n \in S : Successors(n) \cap S = {}
          /\ \A k \in 1..i : Successors(s.path[k]) \ s.left[k]
                                \subseteq Finished(s) \cup (IF k < i THEN {s.path[k + 1]} ELSE {})
      BY <1>12 DEF CyclesHold, i
    <2>2. Successors(p) \subseteq Finished(s)
      <3>1. ~(i < i)
        BY <1>2
      <3> QED
        BY <1>5, <1>7, <2>1, <3>1
    <2>3. p \notin Finished(s)
      BY <1>4, <1>5
    <2>4. \A n \in Finished(t) : Successors(n) \subseteq Finished(t)
      BY <1>9, <2>1, <2>2
    <2>5. ASSUME NEW S \in SUBSET Finished(t), S # {}  PROVE \E n \in S : Successors(n) \cap S = {}
      <3> DEFINE R == S \cap Finished(s)
      <3>1. S \subseteq R \cup {p}
        BY <1>9, <2>5
      <3>2. CASE R = {}
        <4>1. p \in S /\ Successors(p) \cap S = {}
          BY <2>2, <2>5, <3>1, <3>2
        <4> QED
          BY <4>1
      <3>3. CASE R # {}
        <4>1. PICK n \in R : Successors(n) \cap R = {}
          BY <2>1, <3>3
        <4>2. Successors(n) \subseteq Finished(s)
          BY <2>1, <4>1
        <4> QED
          BY <4>1, <4>2
      <3> QED
        BY <3>2, <3>3
    <2>6. ASSUME NEW k \in 1..(i - 1)
          PROVE  Successors(t.path[k]) \ t.left[k]
                    \subseteq Finished(t) \cup (IF k < i - 1 THEN {t.path[k + 1]} ELSE {})
      <3>1. k \in 1..i /\ k < i /\ (k < i - 1 \/ k + 1 = i) /\ (k < i - 1 => k + 1 \in 1..(i - 1))
        BY <1>2
      <3>2. Successors(s.path[k]) \ s.left[k] \subseteq Finished(s) \cup {s.path[k + 1]}
        BY <2>1, <3>1
      <3>3. CASE k < i - 1
        BY <1>8, <1>9, <3>1, <3>2, <3>3
      <3>4. CASE k + 1 = i /\ ~(k < i - 1)
        <4>1. s.path[k + 1] = p
          BY <3>4
        <4> QED
          BY <1>8, <1>9, <3>2, <3>4, <4>1
      <3> QED
        BY <3>1, <3>3, <3>4
    <2> QED
      BY <1>8, <2>4, <2>5, <2>6 DEF Acyclic
  <1>13. \A c \in t.found : c \in Seq(Nodes) /\ ClosedWalk(c)
    BY DEF CyclesHold
  <1>14. t.path \in Seq(t.seen) /\ t.left \in Seq(SUBSET Nodes) /\ t.seen \subseteq Nodes
    <2>1. t.seen = s.seen
      OBVIOUS
    <2> QED
      BY <1>1, <1>6, <1>7, <2>1
  <1> HIDE DEF p
  <1> QED
    BY <1>8, <1>11, <1>12, <1>13, <1>14 DEF CyclesHold, Acyclic

(* What a search for cycles that ended has found.                          *)
LEMMA CycleSearchEnds ==
  ASSUME edges \subseteq Pairs, NEW s, CyclesHold(s), s.path = <<>>,
         \A n \in Nodes \ s.seen : Successors(n) = {}
  PROVE  (s.found # {} <=> Cyclic) /\ \A c \in s.found : ClosedWalk(c)
  <1>1. \A c \in s.found : c \in Seq(Nodes) /\ ClosedWalk(c)
    BY DEF CyclesHold
  <1>2. ASSUME NEW c \in s.found  PROVE Cyclic
    <2> DEFINE S == {c[k] : k \in 1..Len(c)}
    <2>1. /\ c \in Seq(Nodes) /\ Len(c) > 1 /\ c[1] = c[Len(c)]
          /\ \A k \in 1..(Len(c) - 1) : <<c[k], c[k + 1]>> \in edges
      BY <1>1 DEF ClosedWalk, Last
    <2>2. Len(c) \in Nat /\ \A k \in 1..Len(c) : c[k] \in Nodes
      BY <2>1, LenProperties, ElementOfSeq
    <2>3. /\ 1 \in 1..Len(c) /\ 1 \in 1..(Len(c) - 1)
          /\ \A k \in 1..(Len(c) - 1) : k + 1 \in 1..Len(c)
          /\ \A k \in 1..Len(c) : k \in 1..(Len(c) - 1) \/ k = Len(c)
      BY <2>1, <2>2
    <2>4. S \in (SUBSET Nodes) \ {{}}
      BY <2>2, <2>3
    <2>5. \A k \in 1..(Len(c) - 1) : c[k + 1] \in Successors(c[k]) \cap S
      BY <2>1, <2>3, SuccessorIs
    <2>6. \A k \in 1..Len(c) : \E h \in 1..(Len(c) - 1) : c[h] = c[k]
      BY <2>1, <2>3
    <2>7. \A n \in S : \E h \in 1..(Len(c) - 1) : c[h] = n
      BY <2>6
    <2> HIDE DEF S
    <2>8. \A n \in S : Successors(n) \cap S # {}
      BY <2>5, <2>7
    <2> QED
      BY <2>4, <2>8 DEF Cyclic
  <1>3. ASSUME s.found = {}, Cyclic  PROVE FALSE
    <2>1. PICK S \in (SUBSET Nodes) \ {{}} : \A n \in S : Successors(n) \cap S # {}
      BY <1>3 DEF Cyclic
    <2>2. Finished(s) = s.seen
      BY DEF Finished
    <2>3. S \in SUBSET Finished(s) /\ S # {}
      BY <2>1, <2>2
    <2> QED
      BY <1>3, <2>1, <2>3 DEF CyclesHold
  <1> QED
    BY <1>1, <1>2, <1>3

(* A search does not change the graph, and what a state of it says of the  *)
(* graph stays so.                                                         *)
LEMMA SameGraph ==
  ASSUME edges' = edges, NEW s, GraphHolds(s)
  PROVE  GraphHolds(s)'
  <1>1. /\ \A n : Entries(n)' = Entries(n)
        /\ \A n : Successors(n)' = Successors(n)
    BY DEF Entries, Successors
  <1>2. \A n : Neighbours(n)' = Neighbours(n)
    BY <1>1 DEF Neighbours
  <1>3. \A k : WalksOf(k)' = WalksOf(k)
    BY <1>2 DEF WalksOf
  <1>4. \A k : Within(k)' = Within(k)
    BY <1>3 DEF Within
  <1>5. \A k : PathsOf(k)' = PathsOf(k)
    BY DEF PathsOf
  <1>6. \A k : SimplePaths(k)' = SimplePaths(k)
    BY <1>5 DEF SimplePaths
  <1>7. /\ \A w, k : Simple(w, k)' <=> Simple(w, k)
        /\ \A k : Records(k)' = Records(k)
        /\ \A c : ClosedWalk(c)' <=> ClosedWalk(c)
    BY DEF Simple, Records, ClosedWalk
  <1>8. /\ Ball(s)' = Ball(s)
        /\ {e \in edges : \E n \in Within(s.depth - 1) : n \in {e[1], e[2]}}'
              = {e \in edges : \E n \in Within(s.depth - 1) : n \in {e[1], e[2]}}
    BY <1>4 DEF Ball
  <1>9. TraverseTypes(s) => TraverseTypes(s)'
    BY <1>1, <1>4, <1>8 DEF TraverseTypes
  <1>10. TraverseComplete(s) => TraverseComplete(s)'
    BY <1>1, <1>4 DEF TraverseComplete
  <1>11. Roomy(s)' <=> Roomy(s)
    BY <1>8 DEF Roomy
  <1>12. TraverseHolds(s) => TraverseHolds(s)'
    BY <1>9, <1>10, <1>11 DEF TraverseHolds
  <1>13. PathsHold(s) => PathsHold(s)'
    BY <1>6, <1>7 DEF PathsHold
  <1>14. CyclesHold(s) => CyclesHold(s)'
    BY <1>1, <1>7 DEF CyclesHold
  <1> QED
    BY <1>12, <1>13, <1>14 DEF GraphHolds

LEMMA SearchBegins ==
  edges \subseteq Pairs =>
     \A of \in {"traverse", "paths", "cycles"}, depth \in Depths, limit \in Limits :
        GraphHolds(Searching(of, depth, limit))
  <1> SUFFICES ASSUME edges \subseteq Pairs, NEW of \in {"traverse", "paths", "cycles"},
                      NEW depth \in Depths, NEW limit \in Limits
               PROVE  GraphHolds(Searching(of, depth, limit))
    OBVIOUS
  <1> DEFINE s == Searching(of, depth, limit)
  <1>1. Shaped(s) /\ s.of = of
    BY DEF Searching, Shaped
  <1>2. of = "traverse" => TraverseHolds(s)
    BY TraversalBegins
  <1>3. of = "paths" => PathsHold(s)
    BY PathSearchBegins
  <1>4. of = "cycles" => CyclesHold(s)
    BY CycleSearchBegins
  <1> HIDE DEF s
  <1>5. GraphHolds(s)
    BY <1>1, <1>2, <1>3, <1>4 DEF GraphHolds
  <1> QED
    BY <1>5 DEF s

LEMMA SearchBeginsNext ==
  (edges \subseteq Pairs =>
     \A of \in {"traverse", "paths", "cycles"}, depth \in Depths, limit \in Limits :
        GraphHolds(Searching(of, depth, limit)))'
  BY SearchBegins, PTL

(* The search is a state that holds in the graph there is.                 *)
GraphInv == edges \subseteq Pairs /\ \A s : s = search => GraphHolds(s)

LEMMA SearchGoesOn ==
  ASSUME GraphInv, NEW s, s = search, NEW t, SearchGoes(t), GraphHolds(s) => GraphHolds(t)
  PROVE  GraphInv'
  <1>1. edges' = edges /\ search' = t /\ edges \subseteq Pairs /\ GraphHolds(t)
    BY DEF GraphInv, SearchGoes
  <1>2. GraphHolds(t)'
    BY <1>1, SameGraph
  <1> QED
    BY <1>1, <1>2 DEF GraphInv

LEMMA GraphInvBegins == GraphInit => GraphInv
  <1> SUFFICES ASSUME GraphInit, NEW s, s = search  PROVE edges \subseteq Pairs /\ GraphHolds(s)
    BY DEF GraphInv
  <1>1. edges = {} /\ s = Searching("none", 0, 0)
    BY DEF GraphInit
  <1>2. Shaped(s) /\ s.of = "none"
    BY <1>1 DEF Searching, Shaped
  <1> QED
    BY <1>1, <1>2 DEF GraphHolds

LEMMA GraphInvStep == GraphInv /\ [GraphNext]_graphVars => GraphInv'
  <1> SUFFICES ASSUME GraphInv, [GraphNext]_graphVars  PROVE GraphInv'
    OBVIOUS
  <1> PICK s : s = search
    OBVIOUS
  <1>1. edges \subseteq Pairs /\ GraphHolds(s) /\ Shaped(s)
    BY DEF GraphInv, GraphHolds
  <1>2. CASE UNCHANGED graphVars
    <2>1. SearchGoes(s)
      BY <1>2 DEF graphVars, SearchGoes
    <2> QED
      BY <2>1, SearchGoesOn
  <1>3. CASE BeginSearch
    <2>1. edges' \subseteq Pairs
      BY <1>3 DEF BeginSearch
    <2>2. PICK of \in {"traverse", "paths", "cycles"}, depth \in Depths, limit \in Limits :
             search' = Searching(of, depth, limit)
      BY <1>3 DEF BeginSearch
    <2>3. GraphHolds(Searching(of, depth, limit))'
      BY <2>1, SearchBeginsNext
    <2> DEFINE t == Searching(of, depth, limit)
    <2>4. GraphHolds(t)' /\ search' = t
      BY <2>2, <2>3
    <2> HIDE DEF t
    <2> QED
      BY <2>1, <2>4 DEF GraphInv
  <1>4. CASE TakeNode
    <2>1. s.of = "traverse" /\ Idle(s) /\ TraverseHolds(s)
      BY <1>1, <1>4 DEF TakeNode, Idle, GraphHolds
    <2>2. PICK q \in s.queue :
             /\ \A r \in s.queue : q[2] <= r[2]
             /\ SearchGoes([s EXCEPT !.queue = @ \ {q},
                              !.path = IF q[2] >= s.depth THEN <<>> ELSE q,
                              !.left = IF q[2] >= s.depth THEN <<>> ELSE <<Entries(q[1])>>])
      BY <1>4 DEF TakeNode
    <2> PICK t : Takes(s, q, t)
      BY DEF Takes
    <2>3. TraverseHolds(t) /\ Shaped(t) /\ t.of = s.of
      BY <1>1, <2>1, <2>2, TakeNodeHolds
    <2>4. SearchGoes(t)
      BY <2>2 DEF Takes
    <2>5. GraphHolds(t)
      BY <2>1, <2>3 DEF GraphHolds
    <2> QED
      BY <2>4, <2>5, SearchGoesOn
  <1>5. CASE NodeDone
    <2>1. s.of = "traverse" /\ ~Idle(s) /\ TraverseHolds(s) /\ s.left = <<{}>>
      BY <1>1, <1>5 DEF NodeDone, Idle, GraphHolds
    <2> PICK t : t = [s EXCEPT !.path = <<>>, !.left = <<>>]
      OBVIOUS
    <2>2. SearchGoes(t)
      BY <1>5 DEF NodeDone
    <2>3. TraverseHolds(t) /\ Shaped(t) /\ t.of = s.of
      BY <1>1, <2>1, NodeDoneHolds
    <2>4. GraphHolds(t)
      BY <2>1, <2>3 DEF GraphHolds
    <2> QED
      BY <2>2, <2>4, SearchGoesOn
  <1>6. CASE TakeWalk
    <2>1. s.of = "paths" /\ PathsHold(s) /\ Cardinality(s.found) < s.limit
      BY <1>1, <1>6 DEF TakeWalk, GraphHolds
    <2>2. PICK w \in s.walks :
             /\ \A v \in s.walks : Len(w.edges) <= Len(v.edges)
             /\ \/ /\ Last(w.nodes) = Target /\ w.edges # <<>>
                   /\ SearchGoes([s EXCEPT !.walks = s.walks \ {w}, !.found = @ \cup {w.edges}])
                \/ /\ Last(w.nodes) # Target \/ w.edges = <<>>
                   /\ SearchGoes([s EXCEPT !.walks = (s.walks \ {w}) \cup
                        IF Len(w.edges) >= s.depth THEN {}
                        ELSE {[nodes |-> Append(w.nodes, x[1]), edges |-> Append(w.edges, x[2])] :
                                x \in {y \in Entries(Last(w.nodes)) : y[1] \notin ToSet(w.nodes)}}])
      BY <1>6 DEF TakeWalk
    <2>3. CASE /\ Last(w.nodes) = Target /\ w.edges # <<>>
               /\ SearchGoes([s EXCEPT !.walks = s.walks \ {w}, !.found = @ \cup {w.edges}])
      <3> PICK t : t = [s EXCEPT !.walks = s.walks \ {w}, !.found = @ \cup {w.edges}]
        OBVIOUS
      <3>1. PathsHold(t) /\ Shaped(t) /\ t.of = s.of
        BY <1>1, <2>1, <2>2, <2>3, PathFoundHolds
      <3>2. SearchGoes(t)
        BY <2>3
      <3>3. GraphHolds(t)
        BY <2>1, <3>1 DEF GraphHolds
      <3> QED
        BY <3>2, <3>3, SearchGoesOn
    <2> PICK longer, u : GoesOn(s, w, longer, u)
      BY DEF GoesOn
    <2>4. CASE (Last(w.nodes) # Target \/ w.edges = <<>>) /\ SearchGoes(u)
      <3>1. PathsHold(u) /\ Shaped(u) /\ u.of = s.of
        BY <1>1, <2>1, <2>2, <2>4, WalkGoesOnHolds
      <3>2. GraphHolds(u)
        BY <2>1, <3>1 DEF GraphHolds
      <3> QED
        BY <2>4, <3>2, SearchGoesOn
    <2> QED
      BY <2>2, <2>3, <2>4 DEF GoesOn
  <1>7. CASE Backtrack
    <2>1. s.of = "cycles" /\ CyclesHold(s) /\ s.path # <<>> /\ Last(s.left) = {}
      BY <1>1, <1>7 DEF Backtrack, GraphHolds
    <2> PICK t : t = [s EXCEPT !.path = Front(@), !.left = Front(@)]
      OBVIOUS
    <2>2. SearchGoes(t)
      BY <1>7 DEF Backtrack
    <2>3. /\ t.seen = s.seen /\ t.path = Front(s.path) /\ t.left = Front(s.left) /\ t.found = s.found
          /\ Shaped(t) /\ t.of = s.of
      BY <1>1 DEF Shaped
    <2>4. CyclesHold(t)
      BY <2>1, <2>3, BacktrackHolds
    <2>5. GraphHolds(t)
      BY <2>1, <2>3, <2>4 DEF GraphHolds
    <2> QED
      BY <2>2, <2>5, SearchGoesOn
  <1>8. ASSUME NEW n \in Nodes, StartAt(n)  PROVE GraphInv'
    <2>1. s.of = "cycles" /\ CyclesHold(s) /\ s.path = <<>> /\ n \notin s.seen
      BY <1>1, <1>8 DEF StartAt, GraphHolds
    <2> PICK t : t = [s EXCEPT !.seen = @ \cup {n}, !.path = Append(@, n),
                                !.left = Append(@, Successors(n))]
      OBVIOUS
    <2>2. SearchGoes(t)
      BY <1>8 DEF StartAt, Enter
    <2>3. /\ t.seen = s.seen \cup {n} /\ t.path = Append(s.path, n) /\ t.found = s.found
          /\ t.left = Append(s.left, Successors(n)) /\ Shaped(t) /\ t.of = s.of
      BY <1>1 DEF Shaped
    <2>4. CyclesHold(t)
      BY <1>1, <2>1, <2>3, StartAtHolds
    <2>5. GraphHolds(t)
      BY <2>1, <2>3, <2>4 DEF GraphHolds
    <2> QED
      BY <2>2, <2>5, SearchGoesOn
  <1>9. ASSUME NEW n \in Nodes, Follow(n)  PROVE GraphInv'
    <2> PICK i : i = Len(s.path)
      OBVIOUS
    <2> DEFINE on == {j \in 1..i : s.path[j] = n}
               close == Append(SubSeq(s.path, CHOOSE j \in on : TRUE, i), n)
    <2> PICK t : t = [s EXCEPT !.left[i] = @ \ {n}, !.found = @ \cup {close}]
      OBVIOUS
    <2> PICK r : r = [s EXCEPT !.seen = @ \cup {n}, !.path = Append(@, n),
                               !.left = Append(@, Successors(n))]
      OBVIOUS
    <2> PICK u : u = [r EXCEPT !.left[i] = @ \ {n}]
      OBVIOUS
    <2> PICK v : v = [s EXCEPT !.left[i] = @ \ {n}]
      OBVIOUS
    <2>1. s.of = "cycles" /\ CyclesHold(s) /\ s.path # <<>> /\ n \in Last(s.left)
      BY <1>1, <1>9 DEF Follow, GraphHolds
    <2>2. \/ n \in ToSet(s.path) /\ SearchGoes(t)
          \/ n \notin s.seen /\ SearchGoes(u)
          \/ n \in s.seen \ ToSet(s.path) /\ SearchGoes(v)
      BY <1>9 DEF Follow, Enter
    <2>3. CASE n \in ToSet(s.path) /\ SearchGoes(t)
      <3>1. PICK j \in on : j = CHOOSE h \in on : TRUE
        BY <2>3, PathIs, <2>1 DEF ToSet
      <3>2. /\ t.seen = s.seen /\ t.path = s.path /\ t.left = [s.left EXCEPT ![i] = s.left[i] \ {n}]
            /\ t.found = s.found \cup {Append(SubSeq(s.path, j, i), n)}
            /\ Shaped(t) /\ t.of = s.of
        BY <1>1, <3>1 DEF Shaped
      <3>3. j \in 1..i /\ s.path[j] = n
        BY <3>1
      <3> HIDE DEF on
      <3>4. CyclesHold(t)
        <4>1. Closes(s, n, i, j, t)
          BY <3>2, <3>3 DEF Closes
        <4> QED
          BY <1>1, <2>1, <4>1, CycleFoundHolds
      <3>5. GraphHolds(t)
        BY <2>1, <3>2, <3>4 DEF GraphHolds
      <3> QED
        BY <2>3, <3>5, SearchGoesOn
    <2>4. CASE n \notin s.seen /\ SearchGoes(u)
      <3> DEFINE left == Append(s.left, Successors(n))
      <3>1. /\ u.seen = s.seen \cup {n} /\ u.path = Append(s.path, n) /\ u.found = s.found
            /\ u.left = [left EXCEPT ![i] = left[i] \ {n}]
            /\ Shaped(u) /\ u.of = s.of
        <4>1. /\ r.seen = s.seen \cup {n} /\ r.path = Append(s.path, n) /\ r.found = s.found
              /\ r.left = left /\ Shaped(r) /\ r.of = s.of
          BY <1>1 DEF Shaped
        <4> HIDE DEF left
        <4> QED
          BY <4>1 DEF Shaped
      <3>2. left = Append(s.left, Successors(n))
        OBVIOUS
      <3> HIDE DEF left
      <3>3. CyclesHold(u)
        <4>1. GoesInto(s, n, i, left, u)
          BY <2>4, <3>1, <3>2 DEF GoesInto
        <4> QED
          BY <1>1, <2>1, <4>1, NodeEnteredHolds
      <3>4. GraphHolds(u)
        BY <2>1, <3>1, <3>3 DEF GraphHolds
      <3> QED
        BY <2>4, <3>4, SearchGoesOn
    <2>5. CASE n \in s.seen \ ToSet(s.path) /\ SearchGoes(v)
      <3>1. /\ v.seen = s.seen /\ v.path = s.path /\ v.left = [s.left EXCEPT ![i] = s.left[i] \ {n}]
            /\ v.found = s.found /\ Shaped(v) /\ v.of = s.of
        BY <1>1 DEF Shaped
      <3>2. CyclesHold(v)
        <4>1. GoesPast(s, n, i, v)
          BY <2>5, <3>1 DEF GoesPast
        <4> QED
          BY <2>1, <4>1, NodePassedHolds
      <3>3. GraphHolds(v)
        BY <2>1, <3>1, <3>2 DEF GraphHolds
      <3> QED
        BY <2>5, <3>3, SearchGoesOn
    <2> QED
      BY <2>2, <2>3, <2>4, <2>5
  <1>10. ASSUME NEW n \in Nodes, NEW e \in edges, LookAtNeighbour(n, e)  PROVE GraphInv'
    <2>1. s.of = "traverse" /\ ~Idle(s) /\ TraverseHolds(s) /\ <<n, e>> \in s.left[1]
      BY <1>1, <1>10 DEF LookAtNeighbour, Idle, GraphHolds
    <2> PICK t : Looks(s, n, e, t)
      BY DEF Looks
    <2>2. SearchGoes(t)
      BY <1>10 DEF LookAtNeighbour, Full, Looks
    <2>3. TraverseHolds(t) /\ Shaped(t) /\ t.of = s.of
      BY <1>1, <2>1, LookHolds
    <2>4. GraphHolds(t)
      BY <2>1, <2>3 DEF GraphHolds
    <2> QED
      BY <2>2, <2>4, SearchGoesOn
  <1> QED
    BY <1>2, <1>3, <1>4, <1>5, <1>6, <1>7, <1>8, <1>9, <1>10 DEF GraphNext

(* A search that ended has found exactly what it was to find.              *)
LEMMA GraphInvIsExact == GraphInv => SearchesAreExact
  <1> SUFFICES ASSUME GraphInv, SearchEnded  PROVE SearchesAreExact
    BY DEF SearchesAreExact
  <1>1. edges \subseteq Pairs /\ GraphHolds(search)
    BY DEF GraphInv
  <1>2. search.of \in {"traverse", "paths", "cycles"}
    BY <1>1 DEF GraphHolds, SearchEnded
  <1>3. CASE search.of = "traverse"
    <2>1. TraverseHolds(search) /\ Idle(search) /\ search.queue = {}
      BY <1>1, <1>3 DEF GraphHolds, SearchEnded, Idle
    <2> QED
      BY <1>1, <1>3, <2>1, TraversalEnds DEF SearchesAreExact
  <1>4. CASE search.of = "paths"
    <2>1. PathsHold(search) /\ (search.walks = {} \/ Cardinality(search.found) >= search.limit)
      BY <1>1, <1>4 DEF GraphHolds, SearchEnded
    <2> QED
      BY <1>1, <1>4, <2>1, PathSearchEnds DEF SearchesAreExact
  <1>5. CASE search.of = "cycles"
    <2>1. CyclesHold(search) /\ search.path = <<>> /\ \A n \in Nodes \ search.seen : Successors(n) = {}
      BY <1>1, <1>5 DEF GraphHolds, SearchEnded
    <2> QED
      BY <1>1, <1>5, <2>1, CycleSearchEnds DEF SearchesAreExact
  <1> QED
    BY <1>2, <1>3, <1>4, <1>5

(* AdjacencyEngine (adjacency.py): a traversal that ended has reached      *)
(* every node within its depth and every edge on the way, or as many nodes *)
(* within it as its limit; a search for paths has found every simple path  *)
(* of at most its depth, or as many of the shortest as its limit; and      *)
(* cycles are reported exactly when there are any.                         *)
THEOREM SearchesStayExact == GraphSpec => []SearchesAreExact
  BY GraphInvBegins, GraphInvStep, GraphInvIsExact, PTL DEF GraphSpec
================================================================================
