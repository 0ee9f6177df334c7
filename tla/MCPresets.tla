----------------------------- MODULE MCPresets -----------------------------
(***************************************************************************)
(* SimulationEngine with the topologies and the times of the program, in   *)
(* ticks of 5 ms: a frame of 15 ms, and a jitter of 0 or of 80 ms.         *)
(***************************************************************************)
EXTENDS SimulationEngine

Named == INSTANCE TopologyPresets

PresetNodes == Named!PresetNodes
TopologyPresetList == Named!TopologyPresetList

(* Of the three topologies only Bottleneck Path (2) has its firewall router *)
(* on every way from 0 to 5, the endpoints every run has (simulation.py:37, *)
(* 131-134): there blocked data is stopped (NetworkProofs).                *)
ASSUME FirewallOfBottleneckOnly ==
  {i \in 1..Len(TopologyPresetList) :
     LET p == TopologyPresetList[i]
     IN  \E U \in SUBSET PresetNodes :
           Cut(U, TopologyPresetList[1].source, TopologyPresetList[1].destination, p.table, p.firewall)}
    = {2}

(* The longest delays the program can draw, in ticks: a jitter of 80 ms, the *)
(* largest multiplier and a chaos spike of 850 ms.  Even with them there is *)
(* a timetable for a UDP run on each topology, which proves it finishes in  *)
(* time (NetworkProofs).                                                    *)
LongestDelays(p) == [link \in DOMAIN p.delay |-> ((p.delay[link] + 16) * MaxDelay) \div 10 + 170]

TravelTimes(p, step) ==
  LET within[hops \in 0..Cardinality(PresetNodes)] ==
        [r \in PresetNodes |-> [d \in PresetNodes |->
           IF r = d \/ hops = 0 THEN 0
           ELSE LET next == p.table[r][d]
                IN  Wait(step) + LongestDelays(p)[<<r, next>>] + step + within[hops - 1][next][d]]]
  IN  within[Cardinality(PresetNodes)]

ASSUME UdpTimetables ==
  \A i \in 1..Len(TopologyPresetList) :
    LET p == TopologyPresetList[i]
    IN  IsTimetable(p, TopologyPresetList[1].source, TopologyPresetList[1].destination,
                    LongestDelays(p), TravelTimes(p, 3), 3)

PresetSetting(p, sdn) ==
  [mode |-> "UDP", port |-> p, sdn |-> sdn,
   conditions |-> [loss |-> 0, dup |-> 0, delay |-> 10, chaos |-> FALSE]]

(* Bound of presets_lossless: links duplicate packets at the first delay   *)
(* multiplier only.                                                        *)
DuplicatesAtFirstDelay == conditions.dup > 0 => conditions.delay = 10

WithoutLosses == {PresetSetting(443, FALSE)}
Firewalled == {PresetSetting(80, TRUE)}
=============================================================================
