------------------------- MODULE MCSimulationEngine -------------------------
(***************************************************************************)
(* Small instances of SimulationEngine: one or two hops, times of a few    *)
(* ticks in the proportions of the code (a frame is shorter than a link    *)
(* delay, the round trip is longer than the retransmission timeout or      *)
(* shorter, depending on the run).                                         *)
(***************************************************************************)
EXTENDS SimulationEngine

Routes == INSTANCE Routing

SmallPreset(nodes, edges, src, dst, firewallNode) ==
  LET graph == Routes!GraphOf(nodes, edges)
  IN  [source |-> src, destination |-> dst, firewall |-> firewallNode,
       delay |-> graph.delay, table |-> Routes!BuildForwardingTables(graph)]

(* One link; two hops with the firewall in the middle; a triangle whose    *)
(* direct link is the slower route and whose endpoints are reversed.       *)
TwoNodes == {0, 1}
ThreeNodes == {0, 1, 2}

OneLink == SmallPreset(TwoNodes, <<<<0, 1, 2>>>>, 0, 1, 0)
Chain == SmallPreset(ThreeNodes, <<<<0, 1, 2>>, <<1, 2, 2>>>>, 0, 2, 1)
Detour == SmallPreset(ThreeNodes, <<<<0, 1, 2>>, <<1, 2, 2>>, <<0, 2, 5>>>>, 2, 0, 1)

OneLinkOnly == <<OneLink>>
ChainOnly == <<Chain>>
ChainThenDetour == <<Chain, Detour>>

(* In both the firewall router is on every way of the transfer: what       *)
(* FirewallStopsWhatPassesIt (NetworkProofs) asks.                         *)
ASSUME FirewallIsOnEveryWay ==
  \A i \in 1..Len(ChainThenDetour) :
    LET p == ChainThenDetour[i]
    IN  \E U \in SUBSET ThreeNodes : Cut(U, Chain.source, Chain.destination, p.table, p.firewall)

Setting(m, p, sdn, loss, dup, chaos) ==
  [mode |-> m, port |-> p, sdn |-> sdn,
   conditions |-> [loss |-> loss, dup |-> dup, delay |-> 10, chaos |-> chaos]]

TcpLossy == {Setting("TCP", 443, FALSE, 4, 4, FALSE)}
TcpLossless == {Setting("TCP", 443, FALSE, 0, 4, FALSE)}
UdpLossless == {Setting("UDP", 443, FALSE, 0, 0, FALSE)}
UdpLossy == {Setting("UDP", 443, FALSE, 4, 4, FALSE)}
TcpLossyOrNot == TcpLossy \union TcpLossless
UdpLossyOrNot == UdpLossy \union UdpLossless

(* Bounds of engine_keys: there are runs without losses and with chaos, and *)
(* lossy, duplicating ones with the first settings; other conditions are   *)
(* explored before the first run, and frames of two ticks in UDP mode only. *)
FirstSettings == topology = 1 /\ mode = "UDP" /\ traffic_port = 443 /\ ~use_sdn

AdjustedBeforeRuns ==
  \/ conditions \in [loss: {0}, dup: {0}, delay: {10}, chaos: BOOLEAN]
  \/ conditions = [loss |-> 4, dup |-> 4, delay |-> 10, chaos |-> FALSE] /\ FirstSettings
  \/ ~running /\ stats = NewStats /\ FirstSettings

LongFramesInUdp == frame = 2 => mode = "UDP"
=============================================================================
