------------------------------ MODULE GraphSearch ------------------------------
(***************************************************************************)
(* The searches of the knowledge graph, AdjacencyEngine                    *)
(* (backend/app/knowledge_graph/infrastructure/adjacency.py): traverse and *)
(* find_paths follow edges both ways, breadth first, and within limits;    *)
(* detect_cycles follows them forwards, depth first.  Adjacency lists are  *)
(* walked in any order, and an entry of the queue is taken before those    *)
(* further from the start.  Edges of types that are not asked for are left *)
(* out of the graph.                                                       *)
(***************************************************************************)
EXTENDS Naturals, FiniteSets, Sequences, SequencesExt

CONSTANTS Pairs,    \* bound: the edges a graph may have, pairs of nodes
          Depths,   \* bound: depth limits; the API accepts 1 to 4
          Limits,   \* bound: limits on nodes, or on paths
          Start,
          Target

ASSUME GraphAssumption ==
    /\ IsFiniteSet(Pairs) /\ \A p \in Pairs : p = <<p[1], p[2]>>
    /\ Depths \subseteq Nat \ {0} /\ Limits \subseteq Nat \ {0}

VARIABLES edges,   \* the graph
          search   \* what is searched, within which limits, and the locals of the search

graphVars == <<edges, search>>

Nodes == {p[1] : p \in Pairs} \cup {p[2] : p \in Pairs} \cup {Start, Target}

(* The entries of a node in the bidirectional adjacency lists.             *)
Entries(n) == {<<e[2], e>> : e \in {d \in edges : d[1] = n}}
              \cup {<<e[1], e>> : e \in {d \in edges : d[2] = n}}
Successors(n) == {e[2] : e \in {d \in edges : d[1] = n}}

(* queue: nodes with their depth; walks: the queue of a path search; seen: *)
(* nodes visited; found: edges, paths or cycles; path and left: the node   *)
(* in hand, or the nodes on the path, and what is left of their lists.     *)
Searching(of, depth, limit) ==
    [of |-> of, depth |-> depth, limit |-> limit,
     queue |-> IF of = "traverse" THEN {<<Start, 0>>} ELSE {},
     walks |-> IF of = "paths" THEN {[nodes |-> <<Start>>, edges |-> <<>>]} ELSE {},
     seen |-> IF of = "traverse" THEN {Start} ELSE {},
     found |-> {}, path |-> <<>>, left |-> <<>>]

GraphInit == edges = {} /\ search = Searching("none", 0, 0)
-----------------------------------------------------------------------------
(* A service loads the edges of an organization, at most as many as its    *)
(* budget, and starts a search.                                            *)
BeginSearch ==
    /\ search.of = "none"
    /\ edges' \in SUBSET Pairs
    /\ \E of \in {"traverse", "paths", "cycles"}, depth \in Depths, limit \in Limits :
          search' = Searching(of, depth, limit)

SearchGoes(s) == search' = s /\ UNCHANGED edges

(* traverse takes the next node; its neighbours are too deep, or looked at *)
(* one by one, until there is no room for a new one.                       *)
TakeNode ==
    /\ search.of = "traverse" /\ search.path = <<>>
    /\ \E q \in search.queue :
          /\ \A r \in search.queue : q[2] <= r[2]
          /\ SearchGoes([search EXCEPT !.queue = @ \ {q},
                     !.path = IF q[2] >= search.depth THEN <<>> ELSE q,
                     !.left = IF q[2] >= search.depth THEN <<>> ELSE <<Entries(q[1])>>])

(* Mutant: the limit lets one more node in.                                *)
FullLate == Cardinality(search.seen) > search.limit
Full == Cardinality(search.seen) >= search.limit

LookAtNeighbour(n, e) ==
    LET new == n \notin search.seen IN
    /\ search.of = "traverse" /\ search.path # <<>> /\ <<n, e>> \in search.left[1]
    /\ SearchGoes([search EXCEPT !.found = @ \cup {e},
               !.seen = IF new /\ ~Full THEN @ \cup {n} ELSE @,
               !.queue = IF new /\ ~Full THEN @ \cup {<<n, search.path[2] + 1>>} ELSE @,
               !.left = <<IF new /\ Full THEN {} ELSE @[1] \ {<<n, e>>}>>])

NodeDone ==
    /\ search.of = "traverse" /\ search.path # <<>> /\ search.left = <<{}>>
    /\ SearchGoes([search EXCEPT !.path = <<>>, !.left = <<>>])

(* find_paths takes the next walk, which ends at the target, is as long as *)
(* allowed, or is continued to the neighbours that it has not been to.     *)
TakeWalk ==
    /\ search.of = "paths" /\ Cardinality(search.found) < search.limit
    /\ \E w \in search.walks :
          LET at == Last(w.nodes)
              rest == search.walks \ {w} IN
          /\ \A v \in search.walks : Len(w.edges) <= Len(v.edges)
          /\ \/ /\ at = Target /\ w.edges # <<>>
                /\ SearchGoes([search EXCEPT !.walks = rest, !.found = @ \cup {w.edges}])
             \/ /\ at # Target \/ w.edges = <<>>
                /\ SearchGoes([search EXCEPT !.walks = rest \cup
                     IF Len(w.edges) >= search.depth THEN {}
                     ELSE {[nodes |-> Append(w.nodes, x[1]), edges |-> Append(w.edges, x[2])] :
                             x \in {y \in Entries(at) : y[1] \notin ToSet(w.nodes)}}])

(* detect_cycles starts at each node that has successors and was not seen. *)
Enter(n) == [search EXCEPT !.seen = @ \cup {n}, !.path = Append(@, n),
                           !.left = Append(@, Successors(n))]

StartAt(n) ==
    /\ search.of = "cycles" /\ search.path = <<>>
    /\ n \notin search.seen /\ Successors(n) # {}
    /\ SearchGoes(Enter(n))

(* A successor on the path closes a cycle; one not seen before is entered. *)
Follow(n) ==
    LET i == Len(search.path)
        on == {j \in 1..i : search.path[j] = n} IN
    /\ search.of = "cycles" /\ search.path # <<>> /\ n \in Last(search.left)
    /\ \/ /\ n \in ToSet(search.path)
          /\ SearchGoes([search EXCEPT !.left[i] = @ \ {n},
                     !.found = @ \cup {Append(SubSeq(search.path, CHOOSE j \in on : TRUE, i), n)}])
       \/ /\ n \notin search.seen
          /\ SearchGoes([Enter(n) EXCEPT !.left[i] = @ \ {n}])
       \/ /\ n \in search.seen \ ToSet(search.path)
          /\ SearchGoes([search EXCEPT !.left[i] = @ \ {n}])

Backtrack ==
    /\ search.of = "cycles" /\ search.path # <<>> /\ Last(search.left) = {}
    /\ SearchGoes([search EXCEPT !.path = Front(@), !.left = Front(@)])

GraphNext ==
    \/ BeginSearch \/ TakeNode \/ NodeDone \/ TakeWalk \/ Backtrack
    \/ \E n \in Nodes : StartAt(n) \/ Follow(n) \/ \E e \in edges : LookAtNeighbour(n, e)

GraphSpec == GraphInit /\ [][GraphNext]_graphVars
-----------------------------------------------------------------------------
(* The reference: the ends of walks of a length, simple paths, and cycles. *)
Neighbours(n) == {x[1] : x \in Entries(n)}
WalksOf(k) == {w \in [0..k -> Nodes] : w[0] = Start /\ \A i \in 1..k : w[i] \in Neighbours(w[i - 1])}
Within(depth) == UNION {{w[k] : w \in WalksOf(k)} : k \in 0..depth}
Joins(e, m, n) == e \in {<<m, n>>, <<n, m>>}
PathsOf(k) ==
    {es \in [1..k -> edges] : \E ns \in [1..(k + 1) -> Nodes] :
        /\ IsInjective(ns) /\ ns[1] = Start /\ ns[k + 1] = Target
        /\ \A i \in 1..k : Joins(es[i], ns[i], ns[i + 1])}
SimplePaths(depth) == UNION {PathsOf(k) : k \in 1..depth}
Cyclic == \E S \in (SUBSET Nodes) \ {{}} : \A n \in S : Successors(n) \cap S # {}
ClosedWalk(c) ==
    /\ Len(c) > 1 /\ c[1] = Last(c)
    /\ \A i \in 1..(Len(c) - 1) : <<c[i], c[i + 1]>> \in edges

SearchEnded ==
    CASE search.of = "none" -> FALSE
      [] search.of = "traverse" -> search.queue = {} /\ search.path = <<>>
      [] search.of = "paths" -> search.walks = {} \/ Cardinality(search.found) >= search.limit
      [] search.of = "cycles" -> search.path = <<>> /\ \A n \in Nodes \ search.seen : Successors(n) = {}

(* A traversal reaches every node and edge within its depth, or as many    *)
(* nodes within it as its limit; a path search finds every simple path of  *)
(* at most its depth, or as many of the shortest as its limit; cycles are  *)
(* reported exactly when there are any, and what is reported is a cycle.   *)
SearchesAreExact ==
    SearchEnded =>
       CASE search.of = "traverse" ->
              LET ball == Within(search.depth) IN
              IF Cardinality(ball) <= search.limit
              THEN /\ search.seen = ball
                   /\ search.found = {e \in edges : \E n \in Within(search.depth - 1) : n \in {e[1], e[2]}}
              ELSE search.seen \subseteq ball /\ Cardinality(search.seen) = search.limit
         [] search.of = "paths" ->
              LET all == SimplePaths(search.depth) IN
              /\ search.found \subseteq all
              /\ Cardinality(search.found) = IF Cardinality(all) < search.limit
                                             THEN Cardinality(all) ELSE search.limit
              /\ \A p \in search.found, q \in all \ search.found : Len(p) <= Len(q)
         [] search.of = "cycles" ->
              (search.found # {} <=> Cyclic) /\ \A c \in search.found : ClosedWalk(c)
================================================================================
