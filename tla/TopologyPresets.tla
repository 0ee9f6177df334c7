-------------------------- MODULE TopologyPresets --------------------------
(***************************************************************************)
(* TOPOLOGY_PRESETS of graph.py, with the firewall node simulation.py      *)
(* gives each name and the forwarding tables the engine installs for it.   *)
(* Delays are in ticks of TickMs milliseconds.                             *)
(***************************************************************************)
EXTENDS Routing

TickMs == 5
PresetNodes == 0..5

CampusEdges ==
  << <<0, 1, 260>>, <<0, 2, 180>>, <<1, 2, 200>>, <<1, 3, 220>>, <<2, 3, 170>>,
     <<2, 4, 230>>, <<3, 4, 180>>, <<3, 5, 260>>, <<4, 5, 190>> >>

BottleneckEdges ==
  << <<0, 1, 180>>, <<1, 2, 220>>, <<2, 3, 360>>, <<3, 4, 220>>, <<4, 5, 180>>,
     <<1, 3, 420>>, <<2, 4, 420>> >>

RingEdges ==
  << <<0, 1, 170>>, <<1, 2, 190>>, <<2, 3, 170>>, <<3, 4, 190>>, <<4, 5, 170>>,
     <<5, 0, 190>>, <<0, 2, 240>>, <<2, 4, 240>>, <<4, 0, 240>> >>

Preset(edges, src, dst, firewallNode) ==
  LET graph == GraphOf(PresetNodes, edges)
  IN  [source |-> src, destination |-> dst, firewall |-> firewallNode,
       delay |-> [link \in DOMAIN graph.delay |-> graph.delay[link] \div TickMs],
       table |-> BuildForwardingTables(graph)]

CampusBackbone == Preset(CampusEdges, 0, 5, 3)
BottleneckPath == Preset(BottleneckEdges, 0, 5, 2)
RedundantRing == Preset(RingEdges, 5, 2, 4)

TopologyPresetList == <<CampusBackbone, BottleneckPath, RedundantRing>>
=============================================================================
