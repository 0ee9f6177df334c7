------------------------------ MODULE HopByHop ------------------------------
(***************************************************************************)
(* One packet forwarded hop by hop: every router looks the destination up  *)
(* in its own table (Router.next_hop), and the tables come from separate   *)
(* searches, one per pair of nodes, that break ties on their own.          *)
(* Checked for every connected graph over a few nodes and delays.          *)
(***************************************************************************)
EXTENDS Routing

CONSTANTS
  Size,     \* nodes 0 .. Size - 1
  Delays    \* delays a link can have

ASSUME HopAssumption ==
  /\ Size \in Nat \ {0, 1}
  /\ Delays \subseteq Nat \ {0} /\ Delays # {} /\ IsFiniteSet(Delays)

VARIABLES graph, table, at, dst, history

vars == <<graph, table, at, dst, history>>

NodeIds == 0..(Size - 1)

(* Reference: all-pairs shortest delays by admitting one more intermediate *)
(* node at a time.  Unreachable is larger than any route's delay.          *)
Unreachable == Size * Max(Delays) + 1

ShortestDelays(g) ==
  LET direct == [a \in NodeIds |-> [b \in NodeIds |->
        IF a = b THEN 0 ELSE IF <<a, b>> \in DOMAIN g.delay THEN g.delay[<<a, b>>] ELSE Unreachable]]
      through[k \in 0..Size] ==
        IF k = 0 THEN direct
        ELSE [a \in NodeIds |-> [b \in NodeIds |->
                Min({through[k - 1][a][b], through[k - 1][a][k - 1] + through[k - 1][k - 1][b]})]]
  IN  through[Size]

Links == {pair \in NodeIds \X NodeIds : pair[1] < pair[2]}

SymmetricGraph(delayOf) ==
  [nodes |-> NodeIds,
   delay |-> [pair \in {p \in NodeIds \X NodeIds : p \in DOMAIN delayOf \/ <<p[2], p[1]>> \in DOMAIN delayOf}
                |-> IF pair \in DOMAIN delayOf THEN delayOf[pair] ELSE delayOf[<<pair[2], pair[1]>>]]]

Connected(g) == \A a, b \in NodeIds : ShortestDelays(g)[a][b] < Unreachable

ConnectedGraphs ==
  {g \in {SymmetricGraph(f) : f \in UNION {[S -> Delays] : S \in SUBSET Links}} : Connected(g)}

Init ==
  /\ graph \in ConnectedGraphs
  /\ table = BuildForwardingTables(graph)
  /\ at \in NodeIds
  /\ dst \in NodeIds \ {at}
  /\ history = <<at>>

(* Router.next_hop, and the link to it. *)
NextHop(router, destination) == table[router][destination]

Forward ==
  /\ at # dst
  /\ at' = NextHop(at, dst)
  /\ history' = Append(history, at')
  /\ UNCHANGED <<graph, table, dst>>

Delivered == at = dst /\ UNCHANGED vars

Next == Forward \/ Delivered

Spec == Init /\ [][Next]_vars

DelaySoFar == LET hops[i \in 1..Len(history)] ==
                    IF i = 1 THEN 0 ELSE hops[i - 1] + graph.delay[<<history[i - 1], history[i]>>]
              IN  hops[Len(history)]

(* However the separate searches broke their ties, the hops made so far    *)
(* and the shortest way left add up to the shortest way from the start     *)
(* (graph.py:195-237, router.py:23-27).                                    *)
OnShortestRoute ==
  DelaySoFar + ShortestDelays(graph)[at][dst] = ShortestDelays(graph)[history[1]][dst]

(* route_history never holds a router twice, so a packet is forwarded at   *)
(* most Size - 1 times: the simulator has no hop limit (packet.py:21).     *)
NoRoutingLoop == \A i, j \in 1..Len(history) : history[i] = history[j] => i = j
=============================================================================
