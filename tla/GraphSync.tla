-------------------------------- MODULE GraphSync --------------------------------
(***************************************************************************)
(* GraphSyncService.sync_organization_graph                                *)
(* (backend/app/knowledge_graph/application/graph_sync_service.py): each   *)
(* request walks the catalog of an organization in one transaction and     *)
(* adds the nodes, edges and aliases it does not find.  Every node and     *)
(* edge bumps the version row of the organization, which is locked from    *)
(* then on until the transaction ends; nothing else keeps two walks apart. *)
(***************************************************************************)
EXTENDS Naturals, FiniteSets, Sequences

CONSTANTS Syncs,    \* requests to synchronise, of one organization
          Objects,  \* objects of the catalog
          Walk,     \* what a synchronisation visits, in order: nodes with the object
                    \* they belong to, links to another object, aliases
          NoObject

Kinds == {"node", "link", "alias"}
ASSUME SyncAssumption ==
    /\ NoObject \notin Objects
    /\ Walk \in Seq([kind : Kinds, object : Objects, other : Objects \cup {NoObject}])
    /\ \A i, j \in DOMAIN Walk :
          Walk[i].kind = "node" /\ Walk[j].kind = "node" /\ Walk[i].object = Walk[j].object => i = j
    /\ \A i \in DOMAIN Walk :
          /\ Walk[i].kind # "node" => \E j \in 1..(i - 1) : Walk[j].kind = "node" /\ Walk[j].object = Walk[i].object
          /\ Walk[i].other # NoObject => \E j \in 1..(i - 1) : Walk[j].kind = "node" /\ Walk[j].object = Walk[i].other
          /\ Walk[i].kind = "alias" => Walk[i].other = NoObject

VARIABLES graphRows,   \* the committed rows: nodes, edges, aliases, and the version, 0 before there is one
          sync,        \* each request: place, rows it has written, version it has read and written
          syncOverlap  \* some request began while another was under way (history)

syncVars == <<graphRows, sync, syncOverlap>>

(* A node is known by its object and the request that made it, an edge by  *)
(* its ends and the request, an alias by its node.                         *)
Node == Objects \X Syncs
NewSync ==
    [at |-> "new", task |-> 1, chosen |-> [o \in Objects |-> NoObject],
     nodes |-> {}, edges |-> {}, aliases |-> {}, seen |-> 0, version |-> 0]
Underway(s) == sync[s].at \in {"walking", "bumping", "writing", "aliasing"}

SyncTypeOK ==
    /\ graphRows.nodes \subseteq Node /\ graphRows.edges \subseteq Node \X Node \X Syncs
    /\ graphRows.aliases \subseteq graphRows.nodes /\ graphRows.version \in Nat
    /\ \A s \in Syncs :
          /\ sync[s].at \in {"new", "walking", "bumping", "writing", "aliasing", "done", "failed"}
          /\ sync[s].task \in 1..(Len(Walk) + 1)
          /\ sync[s].nodes \subseteq Objects \X {s}
    /\ Cardinality({s \in Syncs : Underway(s) /\ sync[s].version > 0}) <= 1

SyncInit ==
    /\ graphRows = [nodes |-> {}, edges |-> {}, aliases |-> {}, version |-> 0]
    /\ sync = [s \in Syncs |-> NewSync]
    /\ syncOverlap = FALSE

SyncIs(s, x) == sync' = [sync EXCEPT ![s] = x]
Keeps == UNCHANGED <<graphRows, syncOverlap>>
Failed(s) == [NewSync EXCEPT !.at = "failed"]

(* READ COMMITTED: what is committed by now, and the request's own rows.   *)
NodesOf(s, o) == {n \in graphRows.nodes \cup sync[s].nodes : n[1] = o}
Linked(s, from, to) == \E e \in graphRows.edges \cup sync[s].edges : e[1] = from /\ e[2] = to
Task(s) == Walk[sync[s].task]
OnTask(s, kind) == sync[s].at = "walking" /\ sync[s].task <= Len(Walk) /\ Task(s).kind = kind
Advance(x) == [x EXCEPT !.at = "walking", !.task = @ + 1]

(* The node of a column has its edge from the dataset in the same go.      *)
OwnEdge(s, x) ==
    IF Task(s).kind = "node" /\ Task(s).other # NoObject
    THEN {<<x.chosen[Task(s).other], <<Task(s).object, s>>, s>>} ELSE {}

(* Mutant: what is bumped is the version the request has read, each time.  *)
BumpedFromRead(s, x, v) ==
    Advance([x EXCEPT !.version = x.seen + 1 + Cardinality(OwnEdge(s, x)), !.edges = @ \cup OwnEdge(s, x)])

(* bump_graph_version, from the version v that the session holds: once for *)
(* what was inserted, once more for the edge of a column.                  *)
Bumped(s, x, v) ==
    Advance([x EXCEPT !.version = v + 1 + Cardinality(OwnEdge(s, x)), !.edges = @ \cup OwnEdge(s, x)])

(* After an insert: a request that holds the version row goes on at once.  *)
Inserted(s, x) == IF x.version > 0 THEN Bumped(s, x, x.version) ELSE [x EXCEPT !.at = "bumping"]
-----------------------------------------------------------------------------
BeginWalk(s) ==
    /\ sync[s].at = "new"
    /\ SyncIs(s, [NewSync EXCEPT !.at = "walking"])
    /\ syncOverlap' = (syncOverlap \/ \E t \in Syncs : Underway(t))
    /\ UNCHANGED graphRows

(* The first node found is taken, whichever that is, or one is inserted.   *)
VisitNode(s) ==
    /\ OnTask(s, "node")
    /\ LET o == Task(s).object IN
       IF NodesOf(s, o) # {}
       THEN \E n \in NodesOf(s, o) : SyncIs(s, Advance([sync[s] EXCEPT !.chosen[o] = n]))
       ELSE SyncIs(s, Inserted(s, [sync[s] EXCEPT !.chosen[o] = <<o, s>>, !.nodes = @ \cup {<<o, s>>}]))
    /\ Keeps

VisitLink(s) ==
    /\ OnTask(s, "link")
    /\ \E to \in NodesOf(s, Task(s).other) : LET from == sync[s].chosen[Task(s).object] IN
          SyncIs(s, IF Linked(s, from, to) THEN Advance(sync[s])
                    ELSE Inserted(s, [sync[s] EXCEPT !.edges = @ \cup {<<from, to, s>>}]))
    /\ Keeps

(* The version is read without a lock, and may be missing.                 *)
ReadVersion(s) ==
    /\ sync[s].at = "bumping"
    /\ SyncIs(s, [sync[s] EXCEPT !.at = "writing", !.seen = graphRows.version])
    /\ Keeps

(* The flush waits for the transaction that holds the row.  What it writes *)
(* follows the version read before; a second first row is refused.         *)
WriteVersion(s) ==
    /\ sync[s].at = "writing"
    /\ \A t \in Syncs : Underway(t) => sync[t].version = 0
    /\ SyncIs(s, IF sync[s].seen = 0 /\ graphRows.version > 0 THEN Failed(s)
                 ELSE Bumped(s, sync[s], IF sync[s].seen = 0 THEN 1 ELSE sync[s].seen))
    /\ Keeps

(* Aliases bump nothing; those of a node are unique.                       *)
VisitAlias(s) ==
    /\ OnTask(s, "alias")
    /\ \E n \in NodesOf(s, Task(s).object) :
          SyncIs(s, IF n \in graphRows.aliases \cup sync[s].aliases THEN Advance(sync[s])
                    ELSE [sync[s] EXCEPT !.at = "aliasing", !.chosen[Task(s).object] = n])
    /\ Keeps

InsertAlias(s) ==
    /\ sync[s].at = "aliasing"
    /\ LET n == sync[s].chosen[Task(s).object] IN
       /\ \A t \in Syncs \ {s} : n \notin sync[t].aliases
       /\ SyncIs(s, IF n \in graphRows.aliases THEN Failed(s)
                    ELSE Advance([sync[s] EXCEPT !.aliases = @ \cup {n}]))
    /\ Keeps

CommitSync(s) ==
    /\ sync[s].at = "walking" /\ sync[s].task > Len(Walk)
    /\ graphRows' = [nodes |-> graphRows.nodes \cup sync[s].nodes,
                     edges |-> graphRows.edges \cup sync[s].edges,
                     aliases |-> graphRows.aliases \cup sync[s].aliases,
                     version |-> IF sync[s].version > 0 THEN sync[s].version ELSE graphRows.version]
    /\ SyncIs(s, [NewSync EXCEPT !.at = "done"])
    /\ UNCHANGED syncOverlap

(* Whatever raises, or a connection lost, rolls the whole walk back.       *)
SyncFails(s) == Underway(s) /\ SyncIs(s, Failed(s)) /\ Keeps

SyncNext ==
    \E s \in Syncs :
       \/ BeginWalk(s) \/ VisitNode(s) \/ VisitLink(s) \/ ReadVersion(s) \/ WriteVersion(s)
       \/ VisitAlias(s) \/ InsertAlias(s) \/ CommitSync(s) \/ SyncFails(s)

SyncSpec == SyncInit /\ [][SyncNext]_syncVars
-----------------------------------------------------------------------------
(* Synchronisations one after another add every object and link once, and  *)
(* the version counts them.  Overlapping ones make doubles, of each pair   *)
(* of requests at most one: the first thing a request adds, before it has  *)
(* the version row.  Whoever overlapped, rows hang together, and one that  *)
(* has finished left nothing out.                                          *)
CatalogIsWalked ==
    /\ \A e \in graphRows.edges : {e[1], e[2]} \subseteq graphRows.nodes
    /\ ~syncOverlap =>
          /\ \A n, m \in graphRows.nodes : n[1] = m[1] => n = m
          /\ \A e, f \in graphRows.edges : e[1] = f[1] /\ e[2] = f[2] => e = f
          /\ graphRows.nodes # {} =>
                graphRows.version = 1 + Cardinality(graphRows.nodes) + Cardinality(graphRows.edges)
    /\ \A s, t \in Syncs : s # t =>
          Cardinality({n \in graphRows.nodes : n[2] = s /\ <<n[1], t>> \in graphRows.nodes})
            + Cardinality({e \in graphRows.edges : e[3] = s /\ <<e[1], e[2], t>> \in graphRows.edges}) <= 1
    /\ (\E s \in Syncs : sync[s].at = "done") =>
          \A i \in DOMAIN Walk :
             /\ \E n \in graphRows.nodes : n[1] = Walk[i].object
             /\ Walk[i].other # NoObject =>
                   \E e \in graphRows.edges : {e[1][1], e[2][1]} = {Walk[i].object, Walk[i].other}
             /\ Walk[i].kind = "alias" => \E n \in graphRows.aliases : n[1] = Walk[i].object
================================================================================
