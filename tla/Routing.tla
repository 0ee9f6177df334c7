------------------------------ MODULE Routing ------------------------------
(***************************************************************************)
(* The routing half of graph.py: a weighted undirected graph, the single-  *)
(* pair Dijkstra search of GraphManager.get_route, and the forwarding      *)
(* tables build_forwarding_tables makes of its first hops.                 *)
(*                                                                         *)
(* A graph is a record with its nodes and a function giving the delay of   *)
(* every linked ordered pair of nodes.                                     *)
(***************************************************************************)
EXTENDS Integers, Sequences, FiniteSets, FiniteSetsExt

(* SimpleGraph.add_edge for each edge <<a, b, delay>> of a list, in order: *)
(* both directions share a payload and a later edge replaces an earlier.   *)
GraphOf(nodes, edges) ==
  LET joins(i, pair) == pair \in {<<edges[i][1], edges[i][2]>>, <<edges[i][2], edges[i][1]>>}
      linked == {pair \in nodes \X nodes : \E i \in DOMAIN edges : joins(i, pair)}
  IN  [nodes |-> nodes,
       delay |-> [pair \in linked |-> edges[Max({i \in DOMAIN edges : joins(i, pair)})][3]]]

Neighbors(graph, node) == {m \in graph.nodes : <<node, m>> \in DOMAIN graph.delay}

-----------------------------------------------------------------------------
(* get_route.  A search is a record: the distances that are not infinite,  *)
(* the predecessors, the heap of <<distance, node>> pairs, and whether the *)
(* destination was popped.  Pairs pushed for a node have ever smaller      *)
(* distances, so the heap is a set; the neighbours of a popped node are    *)
(* relaxed independently, so their order is immaterial.                    *)

StartSearch(src) ==
  [distances |-> [n \in {src} |-> 0], previous |-> <<>>, heap |-> {<<0, src>>}, found |-> FALSE]

Before(x, y) == x[1] < y[1] \/ (x[1] = y[1] /\ x[2] <= y[2])

\* Mutant: the smallest node is popped, not the nearest.
HeapTopByNode(heap) ==
  CHOOSE x \in heap : \A y \in heap : x[2] < y[2] \/ (x[2] = y[2] /\ x[1] <= y[1])

HeapTop(heap) == CHOOSE x \in heap : \A y \in heap : Before(x, y)

\* Mutant: the comparison turned around.
ImprovesLonger(distances, node, distance) ==
  node \notin DOMAIN distances \/ distance > distances[node]

(* `new_distance >= distances[neighbor]: continue', negated. *)
Improves(distances, node, distance) ==
  node \notin DOMAIN distances \/ distance < distances[node]

\* Mutant: the distance of a node is that of its link alone.
DistanceOfLink(distance, delay) == delay

DistanceOver(distance, delay) == distance + delay

(* A dictionary after the assignments of `new'. *)
Assigned(old, new) ==
  [n \in DOMAIN old \union DOMAIN new |-> IF n \in DOMAIN new THEN new[n] ELSE old[n]]

(* One iteration of the `while heap' loop. *)
SearchStep(graph, dst, s) ==
  LET top == HeapTop(s.heap)
      node == top[2]
      via(m) == DistanceOver(top[1], graph.delay[<<node, m>>])
      improved == {m \in Neighbors(graph, node) : Improves(s.distances, m, via(m))}
      popped == s.heap \ {top}
  IN  IF node = dst
      THEN [distances |-> s.distances, previous |-> s.previous, heap |-> popped, found |-> TRUE]
      ELSE IF top[1] > s.distances[node]
      THEN [distances |-> s.distances, previous |-> s.previous, heap |-> popped, found |-> s.found]
      ELSE [distances |-> Assigned(s.distances, [m \in improved |-> via(m)]),
            previous |-> Assigned(s.previous, [m \in improved |-> node]),
            heap |-> popped \union {<<via(m), m>> : m \in improved},
            found |-> s.found]

(* The whole loop: it stops when the destination is popped or the heap is  *)
(* empty.  A push improves a distance over a link, so the loop pops at     *)
(* most Cardinality(links) * Cardinality(nodes) + 1 pairs.                 *)
Search(graph, src, dst) ==
  LET bound == Cardinality(DOMAIN graph.delay) * Cardinality(graph.nodes) + 1
      after[k \in 0..bound] ==
        IF k = 0 THEN StartSearch(src)
        ELSE LET s == after[k - 1]
             IN  IF s.found \/ s.heap = {} THEN s ELSE SearchStep(graph, dst, s)
  IN  after[bound]

(* The route read back along the predecessors.  A missing one is the       *)
(* KeyError "No route": the route is then empty.                           *)
GetRoute(graph, src, dst) ==
  LET s == Search(graph, src, dst)
      back[k \in 0..Cardinality(graph.nodes)] ==
        IF k = 0 THEN <<dst>>
        ELSE LET route == back[k - 1]
             IN  IF Head(route) = src THEN route ELSE <<s.previous[Head(route)]>> \o route
  IN  IF dst \in DOMAIN s.distances THEN back[Cardinality(graph.nodes)] ELSE <<>>

(* build_forwarding_tables: the first hop of every route.  It raises       *)
(* KeyError unless every pair has one, so it is defined on such graphs.    *)
BuildForwardingTables(graph) ==
  [src \in graph.nodes |->
     [dst \in graph.nodes \ {src} |-> GetRoute(graph, src, dst)[2]]]
=============================================================================
