----------------------- MODULE SimulationEngineProofs -----------------------
(***************************************************************************)
(* Theorems about SimulationEngine, for every value of its constants.      *)
(***************************************************************************)
EXTENDS SimulationEngine, SequenceTheorems, TLAPS

-----------------------------------------------------------------------------
(* Sequences. *)

(* Removing an element keeps the others: each element left was there.      *)
LEMMA RemoveAtProperties ==
  ASSUME NEW S, NEW s \in Seq(S), NEW i \in 1..Len(s)
  PROVE  /\ RemoveAt(s, i) \in Seq(S)
         /\ \A j \in 1..Len(RemoveAt(s, i)) : \E k \in 1..Len(s) : RemoveAt(s, i)[j] = s[k]
<1> DEFINE left == SubSeq(s, 1, i - 1)
           right == SubSeq(s, i + 1, Len(s))
<1>1. left \in Seq(S) /\ Len(left) = i - 1 /\ \A j \in 1..(i - 1) : left[j] = s[j]
  OBVIOUS
<1>2. right \in Seq(S) /\ Len(right) = Len(s) - i /\ \A j \in 1..(Len(s) - i) : right[j] = s[i + j]
  OBVIOUS
<1>3. RemoveAt(s, i) = left \o right
  BY DEF RemoveAt
<1> HIDE DEF left, right
<1>4. /\ left \o right \in Seq(S)
      /\ Len(left \o right) = Len(s) - 1
      /\ \A j \in 1..(Len(s) - 1) :
           (left \o right)[j] = IF j < i THEN left[j] ELSE right[j - (i - 1)]
  BY <1>1, <1>2
<1>5. ASSUME NEW j \in 1..(Len(s) - 1)
      PROVE  \E k \in 1..Len(s) : (left \o right)[j] = s[k]
  <2>1. CASE j < i
    BY <1>1, <1>4, <2>1
  <2>2. CASE ~(j < i)
    <3>1. (left \o right)[j] = s[j + 1]
      BY <1>2, <1>4, <2>2
    <3> QED BY <3>1
  <2> QED BY <2>1, <2>2
<1> QED BY <1>3, <1>4, <1>5

-----------------------------------------------------------------------------
(* Type correctness.  The types alone are not inductive: the router a      *)
(* packet is sent on to is read from the table, so the proof needs that    *)
(* the table is that of the current topology and that no queued packet is  *)
(* already where it goes.                                                  *)

TypeInv == TypeOK /\ TableInstalled /\ AwayFromDestination

USE DEF Sequences, Modes, Ports, Phases, NoAck, NoRouter

(* A router with a packet that is not at its destination has a link for it. *)
LEMMA NextHopIsLinked ==
  ASSUME TypeOK, TableInstalled, NEW r \in Nodes, NEW d \in Nodes \ {r}
  PROVE  /\ table[r][d] \in Nodes
         /\ <<r, table[r][d]>> \in DOMAIN Topology.delay
         /\ Topology.delay[<<r, table[r][d]>>] \in Nat
<1>1. PresetOK(Topology)
  BY PresetsAssumption DEF TypeOK, SettingTypes, Topology
<1> QED BY <1>1 DEF PresetOK, TableInstalled

(* Adding a packet to a queue it does not end at. *)
LEMMA EnqueueTypes ==
  ASSUME TypeInv, NEW node \in Nodes, NEW packet \in Packet, packet.dst # node,
         Enqueue(node, packet)
  PROVE  queue' \in [Nodes -> Seq(Packet)] /\ AwayFromDestination'
<1>1. queue \in [Nodes -> Seq(Packet)]
  BY DEF TypeInv, TypeOK, NetworkTypes
<1>2. queue' = [queue EXCEPT ![node] = Append(queue[node], packet)]
  BY DEF Enqueue
<1>3. queue' \in [Nodes -> Seq(Packet)]
  BY <1>1, <1>2
<1>4. ASSUME NEW r \in Nodes, NEW i \in 1..Len(queue'[r])
      PROVE  queue'[r][i].dst # r
  <2>1. CASE r = node
    <3>1. queue'[r] = Append(queue[r], packet)
      BY <1>1, <1>2, <2>1
    <3>2. \/ i \in 1..Len(queue[r]) /\ queue'[r][i] = queue[r][i]
          \/ queue'[r][i] = packet
      BY <1>1, <3>1
    <3> QED BY <2>1, <3>2 DEF TypeInv, AwayFromDestination
  <2>2. CASE r # node
    BY <1>1, <1>2, <2>2 DEF TypeInv, AwayFromDestination
  <2> QED BY <2>1, <2>2
<1> QED BY <1>3, <1>4 DEF AwayFromDestination

(* What _make_packet builds is a packet. *)
LEMMA MakePacketType ==
  ASSUME SettingTypes, NEW type \in {"data", "ack"}, NEW from \in Nodes, NEW to \in Nodes,
         NEW seq \in Sequences
  PROVE  /\ MakePacket(type, from, to, seq) \in Packet
         /\ MakePacket(type, from, to, seq).dst = to
         /\ MakePacket(type, from, to, seq).type = type
         /\ MakePacket(type, from, to, seq).seq = seq
BY DEF SettingTypes, MakePacket, Packet

(* The delay of a link and the state of the loss burst. *)
LEMMA DrawTypes ==
  ASSUME SettingTypes, NEW base \in Nat, NEW burst \in 0..2
  PROVE  /\ LinkDelays(base) \subseteq Int
         /\ DropOutcomes(burst) \subseteq [lost: BOOLEAN, left: 0..2]
<1>1. conditions.delay \in Nat
  <2>1. conditions.delay \in MinDelay..MaxDelay
    BY DEF SettingTypes, Conditions
  <2> QED BY <2>1 DEF MinDelay, MaxDelay
<1>2. ASSUME NEW j \in Jitter, NEW s \in Spikes \union {0}
      PROVE  ((base + j) * conditions.delay) \div 10 + s \in Int
  BY <1>1, TimingAssumption
<1>3. LinkDelays(base) \subseteq Int
  BY <1>2 DEF LinkDelays
<1>4. DropOutcomes(burst) \subseteq [lost: BOOLEAN, left: 0..2]
  <2>1. \A lost \in BOOLEAN : \A left \in 0..2 : Outcome(lost, left) \in [lost: BOOLEAN, left: 0..2]
    BY DEF Outcome
  <2>2. CASE conditions.chaos /\ burst > 0
    <3>1. DropOutcomes(burst) = {Outcome(TRUE, burst - 1)}
      BY <2>2 DEF DropOutcomes
    <3>2. burst - 1 \in 0..2
      BY <2>2
    <3> QED BY <2>1, <3>1, <3>2, Zenon
  <2>3. CASE ~(conditions.chaos /\ burst > 0)
    <3>1. DropOutcomes(burst) \subseteq
            {Outcome(FALSE, burst), Outcome(TRUE, burst), Outcome(TRUE, 1), Outcome(TRUE, 2)}
      BY <2>3, Zenon DEF DropOutcomes
    <3>2. 1 \in 0..2 /\ 2 \in 0..2
      OBVIOUS
    <3>3. {Outcome(FALSE, burst), Outcome(TRUE, burst), Outcome(TRUE, 1), Outcome(TRUE, 2)}
            \subseteq [lost: BOOLEAN, left: 0..2]
      BY <2>1, <3>2
    <3> QED BY <3>1, <3>3
  <2> QED BY <2>2, <2>3
<1> QED BY <1>3, <1>4

(* The counters stay natural numbers. *)
LEMMA CounterTypes ==
  ASSUME NEW s \in Counters
  PROVE  /\ CountInjected(s, TRUE) \in Counters
         /\ CountInjected(s, FALSE) \in Counters
         /\ [s EXCEPT !.acks = @ + 1] \in Counters
         /\ CountDuplicate(s) \in Counters
         /\ CountDrop(s) \in Counters
         /\ \A seq : CountDelivery(s, seq) \in Counters
<1>1. CountSent(s) \in Counters
  BY DEF Counters, CountSent
<1>2. CountInjected(s, TRUE) \in Counters
  BY <1>1 DEF Counters, CountInjected
<1>3. CountInjected(s, FALSE) \in Counters
  BY <1>1 DEF CountInjected
<1>4. [s EXCEPT !.acks = @ + 1] \in Counters
  BY DEF Counters
<1>5. CountDuplicate(s) \in Counters
  BY <1>1 DEF Counters, CountDuplicate
<1>6. CountDrop(s) \in Counters
  BY DEF Counters, CountDrop
<1>7. [s EXCEPT !.delivered = @ + 1] \in Counters
  BY DEF Counters
<1>8. ASSUME NEW seq PROVE CountDelivery(s, seq) \in Counters
  BY <1>7 DEF CountDelivery
<1> QED BY <1>2, <1>3, <1>4, <1>5, <1>6, <1>8

(* _launch_link: one flight or two are added, for the packet launched. *)
Launched(packet, to) ==
  \E new \in Seq(Flight) :
    /\ in_flight' = in_flight \o new
    /\ \A i \in 1..Len(new) : new[i].packet = packet /\ new[i].end = to

LEMMA LaunchAppends ==
  ASSUME TypeInv, NEW packet \in Packet, NEW from \in Nodes, NEW to \in Nodes,
         Topology.delay[<<from, to>>] \in Nat, LaunchLink(packet, from, to)
  PROVE  /\ chaos_drop_remaining' \in 0..2
         /\ Launched(packet, to)
         /\ next_packet_id' \in Nat /\ stats' \in Counters
<1> DEFINE base == Topology.delay[<<from, to>>]
           flight(d, lost) ==
             [packet |-> packet, start |-> from, end |-> to, remaining |-> d, dropped |-> lost]
<1>1. in_flight \in Seq(Flight) /\ chaos_drop_remaining \in 0..2
  BY DEF TypeInv, TypeOK, NetworkTypes
<1>2. SettingTypes /\ next_packet_id \in Nat /\ stats \in Counters
  BY DEF TypeInv, TypeOK, CountTypes
<1>3. \A d \in Int : \A lost \in BOOLEAN :
        flight(d, lost) \in Flight /\ flight(d, lost).packet = packet /\ flight(d, lost).end = to
  BY DEF Flight
<1>4. PICK d1 \in LinkDelays(base), o1 \in DropOutcomes(chaos_drop_remaining) :
        \/ /\ in_flight' = Append(in_flight, flight(d1, o1.lost))
           /\ chaos_drop_remaining' = o1.left
           /\ UNCHANGED <<next_packet_id, stats>>
        \/ /\ conditions.dup > 0
           /\ stats.duplicates < MaxDuplicates
           /\ \E d2 \in LinkDelays(base), o2 \in DropOutcomes(o1.left) :
                /\ in_flight' = in_flight \o <<flight(d1, o1.lost), flight(d2, o2.lost)>>
                /\ chaos_drop_remaining' = o2.left
           /\ next_packet_id' = next_packet_id + 1
           /\ stats' = CountDuplicate(stats)
  BY DEF LaunchLink
<1>5. d1 \in Int /\ o1.lost \in BOOLEAN /\ o1.left \in 0..2
  BY <1>1, <1>2, <1>4, DrawTypes
<1> HIDE DEF flight
<1>6. CASE /\ in_flight' = Append(in_flight, flight(d1, o1.lost))
           /\ chaos_drop_remaining' = o1.left
           /\ UNCHANGED <<next_packet_id, stats>>
  <2> DEFINE new == <<flight(d1, o1.lost)>>
  <2>1. flight(d1, o1.lost) \in Flight /\ flight(d1, o1.lost).packet = packet /\ flight(d1, o1.lost).end = to
    BY <1>3, <1>5
  <2>2. new \in Seq(Flight) /\ \A i \in 1..Len(new) : new[i].packet = packet /\ new[i].end = to
    BY <2>1
  <2>3. in_flight' = in_flight \o new
    BY <1>1, <1>6, <2>1
  <2> QED BY <1>2, <1>5, <1>6, <2>2, <2>3 DEF Launched
<1>7. CASE /\ \E d2 \in LinkDelays(base), o2 \in DropOutcomes(o1.left) :
                /\ in_flight' = in_flight \o <<flight(d1, o1.lost), flight(d2, o2.lost)>>
                /\ chaos_drop_remaining' = o2.left
           /\ next_packet_id' = next_packet_id + 1
           /\ stats' = CountDuplicate(stats)
  <2>1. PICK d2 \in LinkDelays(base), o2 \in DropOutcomes(o1.left) :
                /\ in_flight' = in_flight \o <<flight(d1, o1.lost), flight(d2, o2.lost)>>
                /\ chaos_drop_remaining' = o2.left
    BY <1>7
  <2>2. d2 \in Int /\ o2.lost \in BOOLEAN /\ o2.left \in 0..2
    BY <1>2, <1>5, <2>1, DrawTypes
  <2> DEFINE new == <<flight(d1, o1.lost), flight(d2, o2.lost)>>
  <2>3. /\ flight(d1, o1.lost) \in Flight /\ flight(d1, o1.lost).packet = packet /\ flight(d1, o1.lost).end = to
        /\ flight(d2, o2.lost) \in Flight /\ flight(d2, o2.lost).packet = packet /\ flight(d2, o2.lost).end = to
    BY <1>3, <1>5, <2>2
  <2>4. new \in Seq(Flight) /\ \A i \in 1..Len(new) : new[i].packet = packet /\ new[i].end = to
    BY <2>3
  <2>5. stats' \in Counters /\ next_packet_id' \in Nat
    <3>1. CountDuplicate(stats) \in Counters
      BY <1>2, CounterTypes
    <3> QED BY <1>2, <1>7, <3>1
  <2> QED BY <2>1, <2>2, <2>4, <2>5 DEF Launched
<1> QED BY <1>4, <1>6, <1>7

(* _send_data, of a callback for a sequence number below the goal. *)
LEMMA SendDataTypes ==
  ASSUME TypeInv, NEW e \in events, NEW retransmission \in BOOLEAN, SendData(e, retransmission)
  PROVE  /\ queue' \in [Nodes -> Seq(Packet)] /\ AwayFromDestination'
         /\ next_packet_id' \in Nat /\ stats' \in Counters
         /\ awaiting_ack' \in Sequences \union {NoAck}
         /\ timeout_token' \in Nat
         /\ events' \subseteq Event /\ next_event_id' \in Nat
<1>1. SettingTypes /\ TransferTypes /\ EventTypes /\ CountTypes /\ current_time \in Nat
  BY DEF TypeInv, TypeOK, ClockTypes
<1>2. e \in Event /\ e.seq \in Sequences
  BY <1>1 DEF EventTypes, Event
<1> DEFINE packet == MakePacket("data", source, destination, e.seq)
<1>3. packet \in Packet /\ packet.dst = destination
  BY <1>1, <1>2, MakePacketType DEF SettingTypes
<1>4. queue' \in [Nodes -> Seq(Packet)] /\ AwayFromDestination'
  BY <1>1, <1>3, EnqueueTypes DEF SendData, SettingTypes
<1>5. next_packet_id' \in Nat /\ stats' \in Counters
  <2>1. next_packet_id' = next_packet_id + 1 /\ stats' = CountInjected(stats, retransmission)
    BY DEF SendData
  <2>2. CountInjected(stats, TRUE) \in Counters /\ CountInjected(stats, FALSE) \in Counters
    BY <1>1, CounterTypes DEF CountTypes
  <2>3. stats' \in Counters
    BY <2>1, <2>2, Zenon
  <2> QED BY <1>1, <2>1, <2>3 DEF CountTypes
<1>6. Scheduled("timeout", RetransmissionTimeout, e.seq, timeout_token + 1) \in Event
  BY <1>1, <1>2, TimingAssumption DEF Scheduled, Event, EventTypes, TransferTypes
<1>7. /\ awaiting_ack' \in Sequences \union {NoAck}
      /\ timeout_token' \in Nat
      /\ events' \subseteq Event /\ next_event_id' \in Nat
  BY <1>1, <1>2, <1>6 DEF SendData, EventTypes, TransferTypes
<1> QED BY <1>4, <1>5, <1>7

(* _on_data_received. *)
LEMMA OnDataReceivedTypes ==
  ASSUME TypeInv, NEW packet \in Packet, OnDataReceived(packet)
  PROVE  /\ delivered_sequences' \subseteq Sequences
         /\ queue' \in [Nodes -> Seq(Packet)] /\ AwayFromDestination'
         /\ next_packet_id' \in Nat /\ stats' \in Counters
<1>1. SettingTypes /\ TransferTypes /\ NetworkTypes /\ CountTypes
  BY DEF TypeInv, TypeOK
<1>2. packet.seq \in Sequences
  BY DEF Packet
<1>3. delivered_sequences' \subseteq Sequences
  BY <1>1, <1>2 DEF OnDataReceived, TransferTypes
<1>4. CASE mode = "TCP"
  <2> DEFINE ack == MakePacket("ack", destination, source, packet.seq)
  <2>1. ack \in Packet /\ ack.dst = source
    BY <1>1, <1>2, MakePacketType DEF SettingTypes
  <2>2. queue' \in [Nodes -> Seq(Packet)] /\ AwayFromDestination'
    BY <1>1, <1>4, <2>1, EnqueueTypes DEF OnDataReceived, SettingTypes
  <2>3. CountDelivery(stats, packet.seq) \in Counters
    BY <1>1, CounterTypes DEF CountTypes
  <2>4. CountInjected(CountDelivery(stats, packet.seq), FALSE) \in Counters
    BY <2>3, CounterTypes
  <2>5. [CountInjected(CountDelivery(stats, packet.seq), FALSE) EXCEPT !.acks = @ + 1] \in Counters
    BY <2>4, CounterTypes
  <2>6. next_packet_id' \in Nat /\ stats' \in Counters
    <3>1. /\ next_packet_id' = next_packet_id + 1
          /\ stats' = [CountInjected(CountDelivery(stats, packet.seq), FALSE) EXCEPT !.acks = @ + 1]
      BY <1>4 DEF OnDataReceived
    <3>2. stats' \in Counters
      BY <2>5, <3>1, Zenon
    <3> QED BY <1>1, <3>1, <3>2 DEF CountTypes
  <2> QED BY <1>3, <2>2, <2>6
<1>5. CASE mode # "TCP"
  <2>1. UNCHANGED <<queue, next_packet_id>> /\ stats' = CountDelivery(stats, packet.seq)
    BY <1>5 DEF OnDataReceived
  <2>2. stats' \in Counters
    BY <1>1, <2>1, CounterTypes DEF CountTypes
  <2> QED BY <1>1, <1>3, <2>1, <2>2 DEF NetworkTypes, CountTypes, TypeInv, AwayFromDestination
<1> QED BY <1>4, <1>5

(* _on_ack_received: the next sequence number is below the goal. *)
LEMMA OnAckReceivedTypes ==
  ASSUME TypeInv, NEW packet \in Packet, OnAckReceived(packet)
  PROVE  /\ awaiting_ack' \in Sequences \union {NoAck}
         /\ completed' \in BOOLEAN
         /\ next_sequence_to_send' \in Sequences
         /\ events' \subseteq Event /\ next_event_id' \in Nat
<1>1. TransferTypes /\ EventTypes /\ current_time \in Nat /\ completed \in BOOLEAN
  BY DEF TypeInv, TypeOK, ClockTypes
<1>2. packet.seq \in Sequences
  BY DEF Packet
<1>3. ~IsLast(packet.seq) => packet.seq + 1 \in Sequences
  BY <1>2, TimingAssumption DEF IsLast
<1>4. ~IsLast(packet.seq) => Scheduled("send", AckGap, packet.seq + 1, 0) \in Event
  BY <1>1, <1>3, TimingAssumption DEF Scheduled, Event, EventTypes
<1>5. CASE AnswersAwaited(packet) /\ IsLast(packet.seq)
  BY <1>1, <1>5 DEF OnAckReceived, TransferTypes, EventTypes
<1>6. CASE AnswersAwaited(packet) /\ ~IsLast(packet.seq)
  <2>1. /\ awaiting_ack' = NoAck
        /\ UNCHANGED completed
        /\ next_sequence_to_send' = packet.seq + 1
        /\ events' = events \union {Scheduled("send", AckGap, packet.seq + 1, 0)}
        /\ next_event_id' = next_event_id + 1
    BY <1>6 DEF OnAckReceived
  <2> QED BY <1>1, <1>3, <1>4, <1>6, <2>1 DEF EventTypes
<1>7. CASE ~AnswersAwaited(packet)
  BY <1>1, <1>7 DEF OnAckReceived, TransferTypes, EventTypes
<1> QED BY <1>5, <1>6, <1>7

LEMMA ZeroIsASequence == 0 \in Sequences
<1>1. PacketGoal \in Nat /\ PacketGoal # 0
  BY TimingAssumption
<1> QED BY <1>1

(* reset_run_state and start_run clear everything but the settings. *)
LEMMA ClearRunTypes ==
  ASSUME TypeInv, ClearRun
  PROVE  /\ NetworkTypes' /\ AwayFromDestination' /\ CountTypes'
         /\ current_time' \in Nat /\ completed' \in BOOLEAN /\ UNCHANGED <<phase, frame>>
         /\ next_sequence_to_send' \in Sequences /\ awaiting_ack' = NoAck
         /\ timeout_token' \in Nat /\ delivered_sequences' \subseteq Sequences
<1>1. NetworkTypes' /\ AwayFromDestination'
  BY DEF ClearRun, ClearNetwork, NetworkTypes, AwayFromDestination
<1>2. NewStats \in Counters
  BY DEF NewStats, Counters
<1>3. CountTypes'
  BY <1>2 DEF ClearRun, CountTypes
<1> QED BY <1>1, <1>3, ZeroIsASequence DEF ClearRun, ClearTransfer

LEMMA ResetTypes ==
  ASSUME TypeInv, ResetRunState
  PROVE  ClockTypes' /\ TransferTypes' /\ EventTypes' /\ NetworkTypes' /\ CountTypes' /\ AwayFromDestination'
<1>1. ClearRun /\ ClockTypes
  BY DEF ResetRunState, TypeInv, TypeOK
<1> QED BY <1>1, ClearRunTypes DEF ResetRunState, ClockTypes, TransferTypes, EventTypes

(* The routers built for the preset a key selects. *)
LEMMA PresetTypes ==
  ASSUME NEW name \in 1..Len(Presets)
  PROVE  Presets[name].firewall \in Nodes
BY PresetsAssumption DEF PresetOK

LEMMA InitType == Init => TypeInv
<1> SUFFICES ASSUME Init PROVE TypeInv
  OBVIOUS
<1>1. 1 \in 1..Len(Presets) /\ PresetOK(Presets[1])
  BY PresetsAssumption
<1>2. SettingTypes
  <2>1. PICK s \in InitialSettings :
          /\ mode = s.mode /\ traffic_port = s.port /\ use_sdn = s.sdn /\ conditions = s.conditions
          /\ firewall = IF s.sdn THEN Presets[1].firewall ELSE NoRouter
    BY DEF Init
  <2>2. s \in Settings
    BY SettingsAssumption
  <2>3. mode \in Modes /\ traffic_port \in Ports /\ use_sdn \in BOOLEAN /\ conditions \in Conditions
    BY <2>1, <2>2 DEF Settings
  <2>4. firewall \in Nodes \union {NoRouter}
    BY <1>1, <2>1, PresetTypes
  <2> QED BY <1>1, <2>3, <2>4 DEF Init, SettingTypes, PresetOK
<1>3. ClockTypes /\ EventTypes
  BY DEF Init, ClockTypes, EventTypes
<1>4. TransferTypes
  BY ZeroIsASequence DEF Init, TransferTypes
<1>5. NetworkTypes /\ AwayFromDestination
  BY DEF Init, NetworkTypes, AwayFromDestination
<1>6. CountTypes
  BY DEF Init, CountTypes, NewStats, Counters
<1>7. TableInstalled
  BY DEF Init, TableInstalled, Topology
<1> QED BY <1>2, <1>3, <1>4, <1>5, <1>6, <1>7 DEF TypeInv, TypeOK

(* Only the key handlers write the settings and the routers. *)
LEMMA SettingsKept ==
  ASSUME SettingTypes, TableInstalled, UNCHANGED settingVars
  PROVE  SettingTypes' /\ TableInstalled'
BY DEF settingVars, SettingTypes, TableInstalled, Topology

(* Each step of a frame keeps the invariant. *)
LEMMA UpdateType == TypeInv /\ Update => TypeInv'
<1> SUFFICES ASSUME TypeInv, Update PROVE TypeInv'
  OBVIOUS
<1> USE DEF TypeInv, TypeOK
<1>1. CASE \E dt \in FrameTimes : BeginFrame(dt)
  <2>1. PICK dt \in FrameTimes : BeginFrame(dt)
    BY <1>1
  <2>2. dt \in Nat
    BY TimingAssumption
  <2>3. ClockTypes'
    BY <2>1, <2>2 DEF BeginFrame, ClockTypes
  <2>4. SettingTypes' /\ TableInstalled'
    BY <2>1, SettingsKept DEF BeginFrame
  <2>5. TransferTypes' /\ EventTypes'
    BY <2>1 DEF BeginFrame, transferVars, eventVars, TransferTypes, EventTypes
  <2>6. NetworkTypes' /\ CountTypes' /\ AwayFromDestination'
    BY <2>1 DEF BeginFrame, networkVars, countVars, NetworkTypes, CountTypes, AwayFromDestination
  <2> QED BY <2>3, <2>4, <2>5, <2>6
<1>2. CASE RunSend
  <2>1. PICK e \in events : SendData(e, FALSE)
    BY <1>2 DEF RunSend
  <2>2. /\ queue' \in [Nodes -> Seq(Packet)] /\ AwayFromDestination'
        /\ next_packet_id' \in Nat /\ stats' \in Counters
        /\ awaiting_ack' \in Sequences \union {NoAck}
        /\ timeout_token' \in Nat
        /\ events' \subseteq Event /\ next_event_id' \in Nat
    BY <2>1, SendDataTypes
  <2>3. SettingTypes' /\ TableInstalled'
    BY <1>2, SettingsKept DEF RunSend
  <2>4. ClockTypes' /\ TransferTypes' /\ EventTypes'
    BY <1>2, <2>2 DEF RunSend, clockVars, ClockTypes, TransferTypes, EventTypes
  <2>5. NetworkTypes' /\ CountTypes'
    BY <1>2, <2>2 DEF RunSend, NetworkTypes, CountTypes
  <2> QED BY <2>2, <2>3, <2>4, <2>5
<1>3. CASE RunTimeout
  <2>1. PICK e \in events :
          IF TimerIsStale(e)
          THEN /\ events' = events \ {e}
               /\ UNCHANGED <<queue, next_packet_id, stats, awaiting_ack, timeout_token, next_event_id>>
          ELSE SendData(e, TRUE)
    BY <1>3 DEF RunTimeout
  <2>2. /\ queue' \in [Nodes -> Seq(Packet)] /\ AwayFromDestination'
        /\ next_packet_id' \in Nat /\ stats' \in Counters
        /\ awaiting_ack' \in Sequences \union {NoAck}
        /\ timeout_token' \in Nat
        /\ events' \subseteq Event /\ next_event_id' \in Nat
    <3>1. CASE TimerIsStale(e)
      BY <2>1, <3>1 DEF NetworkTypes, CountTypes, TransferTypes, EventTypes, AwayFromDestination
    <3>2. CASE ~TimerIsStale(e)
      BY <2>1, <3>2, SendDataTypes
    <3> QED BY <3>1, <3>2
  <2>3. SettingTypes' /\ TableInstalled'
    BY <1>3, SettingsKept DEF RunTimeout
  <2>4. ClockTypes' /\ TransferTypes' /\ EventTypes'
    BY <1>3, <2>2 DEF RunTimeout, clockVars, ClockTypes, TransferTypes, EventTypes
  <2>5. NetworkTypes' /\ CountTypes'
    BY <1>3, <2>2 DEF RunTimeout, NetworkTypes, CountTypes
  <2> QED BY <2>2, <2>3, <2>4, <2>5
<1>4. CASE EventsDone
  BY <1>4 DEF EventsDone, settingVars, clockVars, transferVars, eventVars, networkVars, countVars,
        SettingTypes, ClockTypes, TransferTypes, EventTypes, NetworkTypes, CountTypes, TableInstalled,
        Topology, AwayFromDestination
<1>5. CASE \E r \in Nodes : Dispatch(r)
  <2>1. PICK r \in Nodes : Dispatch(r)
    BY <1>5
  <2> DEFINE packet == Head(queue[r])
  <2>2. queue \in [Nodes -> Seq(Packet)] /\ queue[r] # <<>>
    BY <2>1 DEF Dispatch, FirstReady, Ready, NetworkTypes
  <2>3. queue[r] \in Seq(Packet) /\ packet = queue[r][1] /\ 1 \in 1..Len(queue[r]) /\ packet \in Packet
    BY <2>2
  <2>4. packet.dst \in Nodes \ {r}
    BY <2>3 DEF Packet, AwayFromDestination
  <2>5. queue' \in [Nodes -> Seq(Packet)] /\ AwayFromDestination'
    <3>1. queue' = [queue EXCEPT ![r] = Tail(queue[r])]
      BY <2>1 DEF Dispatch
    <3>2. Tail(queue[r]) \in Seq(Packet)
          /\ \A i \in 1..Len(Tail(queue[r])) : Tail(queue[r])[i] = queue[r][i + 1] /\ i + 1 \in 1..Len(queue[r])
      BY <2>2, <2>3
    <3>3. queue' \in [Nodes -> Seq(Packet)]
      BY <2>2, <3>1, <3>2
    <3>4. ASSUME NEW q \in Nodes, NEW i \in 1..Len(queue'[q]) PROVE queue'[q][i].dst # q
      <4>1. CASE q = r
        BY <2>2, <3>1, <3>2, <4>1 DEF AwayFromDestination
      <4>2. CASE q # r
        BY <2>2, <3>1, <4>2 DEF AwayFromDestination
      <4> QED BY <4>1, <4>2
    <3> QED BY <3>3, <3>4 DEF AwayFromDestination
  <2>6. next_available' \in [Nodes -> Nat]
    BY <2>1, TimingAssumption DEF Dispatch, NetworkTypes, ClockTypes
  <2>7. in_flight' \in Seq(Flight) /\ chaos_drop_remaining' \in 0..2 /\ next_packet_id' \in Nat
        /\ stats' \in Counters
    <3>1. CASE Blocked(r, packet)
      <4>1. stats' = CountDrop(stats) /\ UNCHANGED <<in_flight, chaos_drop_remaining, next_packet_id>>
        BY <2>1, <3>1 DEF Dispatch
      <4> QED BY <4>1, CounterTypes DEF NetworkTypes, CountTypes
    <3>2. CASE ~Blocked(r, packet)
      <4>1. LaunchLink(packet, r, table[r][packet.dst])
        BY <2>1, <3>2 DEF Dispatch
      <4> DEFINE to == table[r][packet.dst]
      <4>2. to \in Nodes /\ Topology.delay[<<r, to>>] \in Nat
        BY <2>4, NextHopIsLinked
      <4> HIDE DEF to, packet
      <4>3. /\ chaos_drop_remaining' \in 0..2 /\ next_packet_id' \in Nat /\ stats' \in Counters
            /\ Launched(packet, to)
        BY <2>3, <4>1, <4>2, LaunchAppends DEF to
      <4>4. in_flight' \in Seq(Flight)
        BY <4>3 DEF Launched, NetworkTypes
      <4> QED BY <4>3, <4>4
    <3> QED BY <3>1, <3>2
  <2>8. SettingTypes' /\ TableInstalled'
    BY <2>1, SettingsKept DEF Dispatch
  <2>9. ClockTypes' /\ TransferTypes' /\ EventTypes'
    BY <2>1 DEF Dispatch, clockVars, transferVars, eventVars, ClockTypes, TransferTypes, EventTypes
  <2>10. NetworkTypes' /\ CountTypes'
    BY <2>1, <2>5, <2>6, <2>7 DEF Dispatch, NetworkTypes, CountTypes
  <2> QED BY <2>5, <2>8, <2>9, <2>10
<1>6. CASE DispatchDone
  <2>1. in_flight' \in Seq(Flight)
    <3>1. in_flight' = [i \in 1..Len(in_flight) |-> [in_flight[i] EXCEPT !.remaining = @ - frame]]
      BY <1>6 DEF DispatchDone
    <3>2. \A i \in 1..Len(in_flight) : [in_flight[i] EXCEPT !.remaining = @ - frame] \in Flight
      <4>1. ASSUME NEW f \in Flight PROVE [f EXCEPT !.remaining = @ - frame] \in Flight
        BY DEF ClockTypes, Flight
      <4>2. \A i \in 1..Len(in_flight) : in_flight[i] \in Flight
        BY DEF NetworkTypes
      <4> QED BY <4>1, <4>2
    <3>3. Len(in_flight) \in Nat
      BY DEF NetworkTypes
    <3> QED BY <3>1, <3>2, <3>3, IsASeq
  <2>2. SettingTypes' /\ ClockTypes' /\ TableInstalled'
    BY <1>6 DEF DispatchDone, settingVars, clockVars, SettingTypes, ClockTypes, TableInstalled, Topology
  <2>3. TransferTypes' /\ EventTypes' /\ CountTypes'
    BY <1>6 DEF DispatchDone, transferVars, eventVars, countVars, TransferTypes, EventTypes, CountTypes
  <2>4. NetworkTypes' /\ AwayFromDestination'
    BY <1>6, <2>1 DEF DispatchDone, NetworkTypes, AwayFromDestination
  <2> QED BY <2>2, <2>3, <2>4
<1>7. CASE LoseFlight
  <2>1. PICK i \in 1..Len(in_flight) : in_flight' = RemoveAt(in_flight, i)
    BY <1>7 DEF LoseFlight
  <2>2. in_flight' \in Seq(Flight)
    BY <2>1, RemoveAtProperties DEF NetworkTypes
  <2>3. stats' \in Counters
    BY <1>7, CounterTypes DEF LoseFlight, CountTypes
  <2>4. SettingTypes' /\ ClockTypes' /\ TableInstalled'
    BY <1>7 DEF LoseFlight, settingVars, clockVars, SettingTypes, ClockTypes, TableInstalled, Topology
  <2>5. TransferTypes' /\ EventTypes' /\ CountTypes'
    BY <1>7, <2>3 DEF LoseFlight, transferVars, eventVars, TransferTypes, EventTypes, CountTypes
  <2>6. NetworkTypes' /\ AwayFromDestination'
    BY <1>7, <2>2 DEF LoseFlight, NetworkTypes, AwayFromDestination
  <2> QED BY <2>4, <2>5, <2>6
<1>8. CASE ArriveAtRouter
  <2>1. PICK i \in 1..Len(in_flight) :
          /\ ~AtDestination(in_flight[i])
          /\ in_flight' = RemoveAt(in_flight, i)
          /\ Enqueue(in_flight[i].end, in_flight[i].packet)
    BY <1>8 DEF ArriveAtRouter
  <2>2. in_flight[i] \in Flight
    BY DEF NetworkTypes
  <2>3. in_flight' \in Seq(Flight)
    BY <2>1, RemoveAtProperties DEF NetworkTypes
  <2>4. queue' \in [Nodes -> Seq(Packet)] /\ AwayFromDestination'
    BY <2>1, <2>2, EnqueueTypes DEF AtDestination, Flight
  <2>5. SettingTypes' /\ ClockTypes' /\ TableInstalled'
    BY <1>8 DEF ArriveAtRouter, settingVars, clockVars, SettingTypes, ClockTypes, TableInstalled, Topology
  <2>6. TransferTypes' /\ EventTypes' /\ CountTypes'
    BY <1>8 DEF ArriveAtRouter, transferVars, eventVars, countVars, TransferTypes, EventTypes, CountTypes
  <2>7. NetworkTypes'
    BY <1>8, <2>3, <2>4 DEF ArriveAtRouter, NetworkTypes
  <2> QED BY <2>4, <2>5, <2>6, <2>7
<1>9. CASE ArriveData
  <2>1. PICK i \in 1..Len(in_flight) :
          /\ in_flight' = RemoveAt(in_flight, i)
          /\ OnDataReceived(in_flight[i].packet)
    BY <1>9 DEF ArriveData
  <2>2. in_flight[i].packet \in Packet
    <3>1. in_flight[i] \in Flight
      BY DEF NetworkTypes
    <3> QED BY <3>1 DEF Flight
  <2>3. in_flight' \in Seq(Flight)
    BY <2>1, RemoveAtProperties DEF NetworkTypes
  <2>4. /\ delivered_sequences' \subseteq Sequences
        /\ queue' \in [Nodes -> Seq(Packet)] /\ AwayFromDestination'
        /\ next_packet_id' \in Nat /\ stats' \in Counters
    BY <2>1, <2>2, OnDataReceivedTypes
  <2>5. SettingTypes' /\ ClockTypes' /\ TableInstalled'
    BY <1>9 DEF ArriveData, settingVars, clockVars, SettingTypes, ClockTypes, TableInstalled, Topology
  <2>6. TransferTypes' /\ EventTypes' /\ CountTypes'
    BY <1>9, <2>4 DEF ArriveData, eventVars, TransferTypes, EventTypes, CountTypes
  <2>7. NetworkTypes'
    BY <1>9, <2>3, <2>4 DEF ArriveData, NetworkTypes
  <2> QED BY <2>4, <2>5, <2>6, <2>7
<1>10. CASE ArriveAck
  <2>1. PICK i \in 1..Len(in_flight) :
          /\ in_flight' = RemoveAt(in_flight, i)
          /\ OnAckReceived(in_flight[i].packet)
    BY <1>10 DEF ArriveAck
  <2>2. in_flight[i].packet \in Packet
    <3>1. in_flight[i] \in Flight
      BY DEF NetworkTypes
    <3> QED BY <3>1 DEF Flight
  <2>3. in_flight' \in Seq(Flight)
    BY <2>1, RemoveAtProperties DEF NetworkTypes
  <2>4. /\ awaiting_ack' \in Sequences \union {NoAck}
        /\ completed' \in BOOLEAN
        /\ next_sequence_to_send' \in Sequences
        /\ events' \subseteq Event /\ next_event_id' \in Nat
    BY <2>1, <2>2, OnAckReceivedTypes
  <2>5. SettingTypes' /\ ClockTypes' /\ TableInstalled'
    BY <1>10, <2>4 DEF ArriveAck, settingVars, SettingTypes, ClockTypes, TableInstalled, Topology
  <2>6. TransferTypes' /\ EventTypes' /\ CountTypes'
    BY <1>10, <2>4 DEF ArriveAck, TransferTypes, EventTypes, CountTypes
  <2>7. NetworkTypes' /\ AwayFromDestination'
    BY <1>10, <2>3 DEF ArriveAck, NetworkTypes, AwayFromDestination
  <2> QED BY <2>5, <2>6, <2>7
<1>11. CASE EndFrame
  <2>1. SettingTypes' /\ ClockTypes' /\ TableInstalled'
    BY <1>11 DEF EndFrame, settingVars, SettingTypes, ClockTypes, TableInstalled, Topology
  <2>2. TransferTypes' /\ EventTypes' /\ CountTypes'
    BY <1>11 DEF EndFrame, transferVars, eventVars, countVars, TransferTypes, EventTypes, CountTypes
  <2>3. NetworkTypes' /\ AwayFromDestination'
    BY <1>11 DEF EndFrame, networkVars, NetworkTypes, AwayFromDestination
  <2> QED BY <2>1, <2>2, <2>3
<1> QED BY <1>1, <1>2, <1>3, <1>4, <1>5, <1>6, <1>7, <1>8, <1>9, <1>10, <1>11 DEF Update

(* Each key keeps the invariant. *)
LEMMA UserKeyType == TypeInv /\ UserKey => TypeInv'
<1> SUFFICES ASSUME TypeInv, UserKey PROVE TypeInv'
  OBVIOUS
<1> USE DEF TypeInv, TypeOK
<1>1. CASE StartRun
  <2>1. ClearRun /\ UNCHANGED settingVars
    BY <1>1 DEF StartRun
  <2>2. SettingTypes' /\ TableInstalled'
    BY <2>1 DEF settingVars, SettingTypes, TableInstalled, Topology
  <2>3. ClockTypes' /\ TransferTypes'
    BY <1>1, <2>1, ClearRunTypes DEF StartRun, ClockTypes, TransferTypes
  <2>4. \A seq \in Sequences : FirstSend(seq) \in Event
    BY TimingAssumption DEF FirstSend, Event
  <2>5. FirstSequences \subseteq Sequences
    BY ZeroIsASequence DEF FirstSequences
  <2>6. EventTypes'
    BY <1>1, <2>4, <2>5, TimingAssumption DEF StartRun, EventTypes
  <2> QED BY <2>1, <2>2, <2>3, <2>6, ClearRunTypes
<1>2. ASSUME ResetRunState, SettingTypes', TableInstalled'
      PROVE  TypeInv'
  BY <1>2, ResetTypes
<1>3. ASSUME ResetRunState, SettingTypes', UNCHANGED <<table, topology>>
      PROVE  TypeInv'
  BY <1>2, <1>3 DEF TableInstalled, Topology
<1>4. CASE PressReset
  BY <1>3, <1>4 DEF PressReset, settingVars, SettingTypes
<1>5. CASE ToggleMode
  BY <1>3, <1>5 DEF ToggleMode, SettingTypes
<1>6. CASE CycleTopology
  <2>1. topology' \in 1..Len(Presets)
    BY <1>6, PresetsAssumption DEF CycleTopology, SettingTypes
  <2>2. SettingTypes' /\ TableInstalled'
    BY <1>6, <2>1, PresetTypes DEF CycleTopology, RebuildRouters, SettingTypes, TableInstalled, Topology
  <2> QED BY <1>2, <1>6, <2>2 DEF CycleTopology
<1>7. CASE ToggleSdn
  <2>1. SettingTypes' /\ TableInstalled'
    BY <1>7, PresetTypes DEF ToggleSdn, RebuildRouters, SettingTypes, TableInstalled, Topology
  <2> QED BY <1>2, <1>7, <2>1 DEF ToggleSdn
<1>8. CASE ToggleTrafficProfile
  BY <1>3, <1>8 DEF ToggleTrafficProfile, SettingTypes
<1>9. ASSUME NEW new \in Conditions, SetConditions(new)
      PROVE  TypeInv'
  BY <1>3, <1>9 DEF SetConditions, SettingTypes
<1>10. conditions \in Conditions
  BY DEF SettingTypes
<1>11. CASE ToggleChaos
  <2>1. [conditions EXCEPT !.chaos = ~@] \in Conditions
    BY <1>10 DEF Conditions
  <2> QED BY <1>9, <1>11, <2>1 DEF ToggleChaos
<1>12. CASE ToggleDuplicates
  <2>1. [conditions EXCEPT !.dup = IF @ = 0 THEN 5 ELSE 0] \in Conditions
    BY <1>10 DEF Conditions
  <2> QED BY <1>9, <1>12, <2>1 DEF ToggleDuplicates
<1>13. ASSUME NEW low \in Int, NEW high \in Int, low <= high, NEW x \in Int
       PROVE  Clamp(low, high, x) \in low..high
  BY <1>13 DEF Clamp
<1>14. CASE AdjustLossRate
  <2>1. /\ Clamp(0, MaxLoss, conditions.loss - 1) \in 0..MaxLoss
        /\ Clamp(0, MaxLoss, conditions.loss + 1) \in 0..MaxLoss
    <3>1. conditions.loss \in Int
      BY <1>10 DEF Conditions
    <3>2. conditions.loss - 1 \in Int /\ conditions.loss + 1 \in Int
      BY <3>1
    <3>3. 0 \in Int /\ MaxLoss \in Int /\ 0 <= MaxLoss
      BY DEF MaxLoss
    <3> QED BY <1>13, <3>2, <3>3
  <2>2. \A loss \in 0..MaxLoss : [conditions EXCEPT !.loss = loss] \in Conditions
    BY <1>10 DEF Conditions
  <2> QED BY <1>9, <1>14, <2>1, <2>2 DEF AdjustLossRate
<1>15. CASE AdjustDelayMultiplier
  <2>1. /\ Clamp(MinDelay, MaxDelay, conditions.delay - 1) \in MinDelay..MaxDelay
        /\ Clamp(MinDelay, MaxDelay, conditions.delay + 1) \in MinDelay..MaxDelay
    <3>1. conditions.delay \in Int
      BY <1>10 DEF Conditions, MinDelay, MaxDelay
    <3>2. conditions.delay - 1 \in Int /\ conditions.delay + 1 \in Int
      BY <3>1
    <3>3. MinDelay \in Int /\ MaxDelay \in Int /\ MinDelay <= MaxDelay
      BY DEF MinDelay, MaxDelay
    <3> QED BY <1>13, <3>2, <3>3
  <2>2. \A delay \in MinDelay..MaxDelay : [conditions EXCEPT !.delay = delay] \in Conditions
    BY <1>10 DEF Conditions
  <2> QED BY <1>9, <1>15, <2>1, <2>2 DEF AdjustDelayMultiplier
<1> QED BY <1>1, <1>4, <1>5, <1>6, <1>7, <1>8, <1>11, <1>12, <1>14, <1>15 DEF UserKey

THEOREM TypeInvariant == Spec => []TypeInv
<1>1. TypeInv /\ UNCHANGED vars => TypeInv'
  BY DEF TypeInv, TypeOK, vars, settingVars, clockVars, transferVars, eventVars, networkVars, countVars,
     SettingTypes, ClockTypes, TransferTypes, EventTypes, NetworkTypes, CountTypes, TableInstalled,
     Topology, AwayFromDestination
<1>2. TypeInv /\ [Next]_vars => TypeInv'
  BY <1>1, UpdateType, UserKeyType DEF Next
<1> QED BY InitType, <1>2, PTL DEF Spec

(* No operation is applied outside its domain: the types of every variable. *)
THEOREM TypeCorrectness == Spec => []TypeOK
<1>1. TypeInv => TypeOK
  BY DEF TypeInv
<1> QED BY <1>1, TypeInvariant, PTL

(* No KeyError: every queued packet has a next hop, over a link of the     *)
(* graph, whatever keys changed the topology or the routers.               *)
THEOREM RoutesExist == Spec => []RouteExists
<1>1. TypeInv => RouteExists
  <2> SUFFICES ASSUME TypeInv, NEW r \in Nodes, NEW p \in QueuedAt(r)
               PROVE  <<r, table[r][p.dst]>> \in DOMAIN Topology.delay
    BY DEF RouteExists, TypeInv
  <2>1. PICK i \in 1..Len(queue[r]) : p = queue[r][i]
    BY DEF QueuedAt
  <2>2. p \in Packet
    BY <2>1 DEF TypeInv, TypeOK, NetworkTypes
  <2>3. p.dst \in Nodes \ {r}
    BY <2>1, <2>2 DEF TypeInv, AwayFromDestination, Packet
  <2> QED BY <2>3, NextHopIsLinked DEF TypeInv
<1> QED BY <1>1, TypeInvariant, PTL

-----------------------------------------------------------------------------
(* Which packets are in the network after a step. *)

LEMMA PacketsInNetwork ==
  /\ \A i \in 1..Len(in_flight) : in_flight[i].packet \in NetworkPackets
  /\ \A r \in Nodes : \A i \in 1..Len(queue[r]) : queue[r][i] \in NetworkPackets
<1>1. ASSUME NEW i \in 1..Len(in_flight) PROVE in_flight[i].packet \in NetworkPackets
  BY DEF NetworkPackets, Flying
<1>2. ASSUME NEW r \in Nodes, NEW i \in 1..Len(queue[r]) PROVE queue[r][i] \in NetworkPackets
  <2>1. queue[r][i] \in QueuedAt(r)
    BY DEF QueuedAt
  <2> QED BY <2>1 DEF NetworkPackets
<1> QED BY <1>1, <1>2

LEMMA PacketsOfNetwork ==
  ASSUME NEW P,
         \A i \in 1..Len(in_flight') : in_flight'[i].packet \in P,
         \A r \in Nodes : \A i \in 1..Len(queue'[r]) : queue'[r][i] \in P
  PROVE  NetworkPackets' \subseteq P
<1>1. Flying' \subseteq P
  BY DEF Flying
<1>2. \A r \in Nodes : QueuedAt(r)' \subseteq P
  BY DEF QueuedAt
<1> QED BY <1>1, <1>2 DEF NetworkPackets

LEMMA NetworkPacketTypes ==
  ASSUME TypeInv
  PROVE  \A p \in NetworkPackets : p \in Packet /\ p.seq \in Int
<1>1. ASSUME NEW i \in 1..Len(in_flight) PROVE in_flight[i].packet \in Packet
  <2>1. in_flight[i] \in Flight
    BY DEF TypeInv, TypeOK, NetworkTypes
  <2> QED BY <2>1 DEF Flight
<1>2. ASSUME NEW r \in Nodes, NEW i \in 1..Len(queue[r]) PROVE queue[r][i] \in Packet
  BY DEF TypeInv, TypeOK, NetworkTypes
<1>3. \A p \in NetworkPackets : p \in Packet
  BY <1>1, <1>2 DEF NetworkPackets, Flying, QueuedAt
<1>4. \A p \in Packet : p.seq \in Int
  <2>1. PacketGoal \in Int
    BY TimingAssumption
  <2> QED BY <2>1 DEF Packet
<1> QED BY <1>3, <1>4

LEMMA EnqueuePackets ==
  ASSUME TypeInv, NEW node \in Nodes, NEW packet, Enqueue(node, packet)
  PROVE  \A r \in Nodes : \A i \in 1..Len(queue'[r]) : queue'[r][i] \in NetworkPackets \union {packet}
<1> SUFFICES ASSUME NEW r \in Nodes, NEW i \in 1..Len(queue'[r])
             PROVE  queue'[r][i] \in NetworkPackets \union {packet}
  OBVIOUS
<1>1. queue[r] \in Seq(Packet) /\ queue \in [Nodes -> Seq(Packet)]
  BY DEF TypeInv, TypeOK, NetworkTypes
<1>2. CASE r = node
  <2>1. queue'[r] = Append(queue[r], packet)
    BY <1>1, <1>2 DEF Enqueue
  <2>2. \/ i \in 1..Len(queue[r]) /\ queue'[r][i] = queue[r][i]
        \/ queue'[r][i] = packet
    BY <1>1, <2>1
  <2> QED BY <2>2, PacketsInNetwork
<1>3. CASE r # node
  BY <1>1, <1>3, PacketsInNetwork DEF Enqueue
<1> QED BY <1>2, <1>3

LEMMA RemovedPackets ==
  ASSUME TypeInv, NEW i \in 1..Len(in_flight), in_flight' = RemoveAt(in_flight, i)
  PROVE  \A j \in 1..Len(in_flight') : in_flight'[j].packet \in NetworkPackets
<1>1. in_flight \in Seq(Flight)
  BY DEF TypeInv, TypeOK, NetworkTypes
<1> QED BY <1>1, RemoveAtProperties, PacketsInNetwork

(* A router that dispatches, and the links, put no new packet in the       *)
(* network: a duplicate is a copy of the packet launched.                  *)
LEMMA DispatchPackets ==
  ASSUME TypeInv, NEW r \in Nodes, Dispatch(r)
  PROVE  NetworkPackets' \subseteq NetworkPackets
<1> DEFINE packet == Head(queue[r])
           to == table[r][packet.dst]
<1>1. queue \in [Nodes -> Seq(Packet)] /\ queue[r] # <<>> /\ in_flight \in Seq(Flight)
  BY DEF Dispatch, FirstReady, Ready, TypeInv, TypeOK, NetworkTypes
<1>2. queue[r] \in Seq(Packet) /\ packet = queue[r][1] /\ 1 \in 1..Len(queue[r]) /\ packet \in Packet
  BY <1>1
<1>3. packet \in NetworkPackets
  BY <1>2, PacketsInNetwork
<1>4. \A q \in Nodes : \A i \in 1..Len(queue'[q]) : queue'[q][i] \in NetworkPackets
  <2>1. queue' = [queue EXCEPT ![r] = Tail(queue[r])]
    BY DEF Dispatch
  <2>2. \A i \in 1..Len(Tail(queue[r])) : Tail(queue[r])[i] = queue[r][i + 1] /\ i + 1 \in 1..Len(queue[r])
    BY <1>1, <1>2
  <2>3. ASSUME NEW q \in Nodes, NEW i \in 1..Len(queue'[q]) PROVE queue'[q][i] \in NetworkPackets
    <3>1. CASE q = r
      BY <1>1, <2>1, <2>2, <3>1, PacketsInNetwork
    <3>2. CASE q # r
      BY <1>1, <2>1, <3>2, PacketsInNetwork
    <3> QED BY <3>1, <3>2
  <2> QED BY <2>3
<1>5. \A i \in 1..Len(in_flight') : in_flight'[i].packet \in NetworkPackets
  <2>1. CASE Blocked(r, packet)
    BY <2>1, PacketsInNetwork DEF Dispatch
  <2>2. CASE ~Blocked(r, packet)
    <3>1. LaunchLink(packet, r, to)
      BY <2>2 DEF Dispatch
    <3>2. packet.dst \in Nodes \ {r}
      BY <1>2 DEF Packet, TypeInv, AwayFromDestination
    <3>3. to \in Nodes /\ Topology.delay[<<r, to>>] \in Nat
      BY <3>2, NextHopIsLinked DEF TypeInv
    <3> HIDE DEF to, packet
    <3>4. PICK new \in Seq(Flight) :
            /\ in_flight' = in_flight \o new
            /\ \A i \in 1..Len(new) : new[i].packet = packet /\ new[i].end = to
      <4>1. Launched(packet, to)
        BY <1>2, <3>1, <3>3, LaunchAppends
      <4> QED BY <4>1 DEF Launched
    <3>5. ASSUME NEW i \in 1..Len(in_flight') PROVE in_flight'[i].packet \in NetworkPackets
      <4>1. CASE i <= Len(in_flight)
        <5>1. i \in 1..Len(in_flight) /\ in_flight'[i] = in_flight[i]
          BY <1>1, <3>4, <4>1
        <5> QED BY <5>1, PacketsInNetwork
      <4>2. CASE ~(i <= Len(in_flight))
        <5>1. i - Len(in_flight) \in 1..Len(new) /\ in_flight'[i] = new[i - Len(in_flight)]
          BY <1>1, <3>4, <4>2
        <5> QED BY <1>3, <3>4, <5>1
      <4> QED BY <4>1, <4>2
    <3> QED BY <3>5
  <2> QED BY <2>1, <2>2
<1> QED BY <1>4, <1>5, PacketsOfNetwork

LEMMA DispatchDonePackets ==
  ASSUME TypeInv, DispatchDone
  PROVE  NetworkPackets' \subseteq NetworkPackets
<1>1. in_flight' = [i \in 1..Len(in_flight) |-> [in_flight[i] EXCEPT !.remaining = @ - frame]]
      /\ UNCHANGED queue
  BY DEF DispatchDone
<1>2. Len(in_flight) \in Nat /\ \A i \in 1..Len(in_flight) : in_flight[i] \in Flight
  BY DEF TypeInv, TypeOK, NetworkTypes
<1>3. Len(in_flight') = Len(in_flight)
  BY <1>1, <1>2
<1>4. \A i \in 1..Len(in_flight') : in_flight'[i].packet = in_flight[i].packet
  BY <1>1, <1>2, <1>3 DEF Flight
<1> QED BY <1>1, <1>3, <1>4, PacketsInNetwork, PacketsOfNetwork

-----------------------------------------------------------------------------
(* The transfer.  StopAndWait is not inductive: that no second send is     *)
(* scheduled has to be known when an acknowledgement schedules one, and    *)
(* CompletionMeansDelivered is kept by what StopAndWait says of the last   *)
(* acknowledgement.                                                        *)

SingleSend == \A e, f \in PendingSends : e = f

TransferInv ==
  /\ TypeInv
  /\ StopAndWait
  /\ CompletionMeansDelivered
  /\ mode = "TCP" => SingleSend

(* Steps that touch neither end of the transfer nor add a packet.          *)
LEMMA TransferUntouched ==
  ASSUME TransferInv, TypeInv', UNCHANGED mode,
         UNCHANGED <<next_sequence_to_send, awaiting_ack, delivered_sequences>>,
         PendingSends' \subseteq PendingSends, NetworkPackets' \subseteq NetworkPackets,
         running' /\ completed' => running /\ completed
  PROVE  TransferInv'
<1>1. StopAndWait'
  BY DEF TransferInv, StopAndWait
<1>2. CompletionMeansDelivered'
  BY DEF TransferInv, CompletionMeansDelivered
<1>3. (mode = "TCP" => SingleSend)'
  BY DEF TransferInv, SingleSend
<1> QED BY <1>1, <1>2, <1>3 DEF TransferInv

(* _send_data sends the packet being transferred: it is called for the one *)
(* scheduled send, or for the timer of the awaited packet.                 *)
LEMMA SendDataTransfer ==
  ASSUME TransferInv, TypeInv', NEW e \in events, NEW retransmission \in BOOLEAN,
         SendData(e, retransmission),
         mode = "TCP" => e.seq = next_sequence_to_send,
         mode = "TCP" => PendingSends \subseteq {e},
         UNCHANGED <<mode, next_sequence_to_send, delivered_sequences, running, completed, in_flight>>
  PROVE  TransferInv'
<1> SUFFICES ASSUME mode = "TCP" PROVE StopAndWait' /\ CompletionMeansDelivered' /\ SingleSend'
  BY DEF TransferInv, StopAndWait, CompletionMeansDelivered
<1> DEFINE packet == MakePacket("data", source, destination, e.seq)
           timer == Scheduled("timeout", RetransmissionTimeout, e.seq, timeout_token + 1)
<1>1. SettingTypes /\ TransferTypes /\ e.seq \in Sequences
  BY DEF TransferInv, TypeInv, TypeOK, EventTypes, Event
<1>2. packet.type = "data" /\ packet.seq = next_sequence_to_send
  BY <1>1, MakePacketType DEF SettingTypes
<1>3. awaiting_ack' = next_sequence_to_send /\ events' = (events \ {e}) \union {timer}
  BY DEF SendData
<1>4. timer.kind = "timeout"
  BY DEF Scheduled
<1>5. PendingSends' = {}
  BY <1>3, <1>4 DEF PendingSends
<1>6. NetworkPackets' \subseteq NetworkPackets \union {packet}
  <2>1. \A r \in Nodes : \A i \in 1..Len(queue'[r]) : queue'[r][i] \in NetworkPackets \union {packet}
    BY <1>1, EnqueuePackets DEF SendData, SettingTypes, TransferInv
  <2>2. \A i \in 1..Len(in_flight') : in_flight'[i].packet \in NetworkPackets \union {packet}
    BY PacketsInNetwork
  <2> QED BY <2>1, <2>2, PacketsOfNetwork
<1>7. \A p \in NetworkPackets' :
        p.seq <= next_sequence_to_send /\ (p.type = "ack" => p.seq \in delivered_sequences)
  <2>1. next_sequence_to_send <= next_sequence_to_send
    BY <1>1 DEF TransferTypes
  <2> QED BY <1>2, <1>6, <2>1 DEF TransferInv, StopAndWait
<1>8. StopAndWait'
  BY <1>3, <1>5, <1>7 DEF TransferInv, StopAndWait
<1>9. CompletionMeansDelivered' /\ SingleSend'
  BY <1>5 DEF TransferInv, CompletionMeansDelivered, SingleSend
<1> QED BY <1>8, <1>9

(* Data is received in order: its sequence number is at most the one being *)
(* transferred; its acknowledgement is for what is now delivered.          *)
LEMMA DataTransfer ==
  ASSUME TransferInv, TypeInv', ArriveData
  PROVE  TransferInv'
<1>1. PICK i \in 1..Len(in_flight) :
        in_flight' = RemoveAt(in_flight, i) /\ OnDataReceived(in_flight[i].packet)
  BY DEF ArriveData
<1> DEFINE packet == in_flight[i].packet
           ack == MakePacket("ack", destination, source, packet.seq)
<1>2. /\ UNCHANGED <<mode, next_sequence_to_send, awaiting_ack, events, running, completed>>
      /\ delivered_sequences' = delivered_sequences \union {packet.seq}
  BY <1>1 DEF ArriveData, OnDataReceived, settingVars, clockVars, eventVars
<1> SUFFICES ASSUME mode = "TCP" PROVE StopAndWait' /\ CompletionMeansDelivered' /\ SingleSend'
  BY <1>2 DEF TransferInv, StopAndWait, CompletionMeansDelivered
<1>3. SettingTypes /\ TransferTypes /\ in_flight \in Seq(Flight) /\ packet \in Packet
  <2>1. SettingTypes /\ TransferTypes /\ in_flight \in Seq(Flight)
    BY DEF TransferInv, TypeInv, TypeOK, NetworkTypes
  <2>2. in_flight[i] \in Flight
    BY <2>1
  <2> QED BY <2>1, <2>2 DEF Flight
<1>4. packet \in NetworkPackets /\ packet.seq \in Sequences
  BY <1>3, PacketsInNetwork DEF Packet
<1>5. packet.seq \in 0..next_sequence_to_send
  BY <1>3, <1>4 DEF TransferInv, StopAndWait, TransferTypes
<1>6. ack.type = "ack" /\ ack.seq = packet.seq
  BY <1>3, <1>4, MakePacketType DEF SettingTypes
<1>7. NetworkPackets' \subseteq NetworkPackets \union {ack}
  <2>1. \A r \in Nodes : \A j \in 1..Len(queue'[r]) : queue'[r][j] \in NetworkPackets \union {ack}
    BY <1>1, <1>3, EnqueuePackets DEF OnDataReceived, SettingTypes, TransferInv
  <2>2. \A j \in 1..Len(in_flight') : in_flight'[j].packet \in NetworkPackets \union {ack}
    BY <1>1, RemovedPackets DEF TransferInv
  <2> QED BY <2>1, <2>2, PacketsOfNetwork
<1>8. \A p \in NetworkPackets' :
        p.seq <= next_sequence_to_send /\ (p.type = "ack" => p.seq \in delivered_sequences')
  <2>1. packet.seq <= next_sequence_to_send
    BY <1>5
  <2> QED BY <1>2, <1>6, <1>7, <2>1 DEF TransferInv, StopAndWait
<1>9. StopAndWait'
  <2>1. 0..(next_sequence_to_send - 1) \subseteq delivered_sequences'
    BY <1>2 DEF TransferInv, StopAndWait
  <2>2. delivered_sequences' \subseteq 0..next_sequence_to_send
    BY <1>2, <1>5 DEF TransferInv, StopAndWait
  <2>3. PendingSends' = PendingSends
    BY <1>2 DEF PendingSends
  <2> QED BY <1>2, <1>8, <2>1, <2>2, <2>3 DEF TransferInv, StopAndWait
<1>10. CompletionMeansDelivered'
  BY <1>2, <1>4 DEF TransferInv, CompletionMeansDelivered
<1>11. SingleSend'
  BY <1>2 DEF TransferInv, SingleSend, PendingSends
<1> QED BY <1>9, <1>10, <1>11

(* The awaited acknowledgement is for the packet being transferred, which  *)
(* is delivered; when it is the last one, so is everything else.           *)
LEMMA AckTransfer ==
  ASSUME TransferInv, TypeInv', ArriveAck
  PROVE  TransferInv'
<1>1. PICK i \in 1..Len(in_flight) :
        /\ in_flight[i].packet.type = "ack"
        /\ in_flight' = RemoveAt(in_flight, i)
        /\ OnAckReceived(in_flight[i].packet)
  BY DEF ArriveAck
<1> DEFINE packet == in_flight[i].packet
           n == next_sequence_to_send
<1>2. UNCHANGED <<mode, delivered_sequences, running, queue>>
  BY DEF ArriveAck, settingVars
<1>3. NetworkPackets' \subseteq NetworkPackets
  <2>1. \A j \in 1..Len(in_flight') : in_flight'[j].packet \in NetworkPackets
    BY <1>1, RemovedPackets DEF TransferInv
  <2> QED BY <1>2, <2>1, PacketsInNetwork, PacketsOfNetwork
<1>4. CASE ~AnswersAwaited(packet)
  <2>1. UNCHANGED <<awaiting_ack, completed, next_sequence_to_send, events>>
    BY <1>1, <1>4 DEF OnAckReceived
  <2>2. PendingSends' = PendingSends
    BY <2>1 DEF PendingSends
  <2> QED BY <1>2, <1>3, <2>1, <2>2, TransferUntouched
<1>5. CASE AnswersAwaited(packet)
  <2> SUFFICES ASSUME mode = "TCP" PROVE StopAndWait' /\ CompletionMeansDelivered' /\ SingleSend'
    BY <1>2 DEF TransferInv, StopAndWait, CompletionMeansDelivered
  <2>1. TransferTypes /\ in_flight \in Seq(Flight) /\ packet \in Packet
    <3>1. TransferTypes /\ in_flight \in Seq(Flight)
      BY DEF TransferInv, TypeInv, TypeOK, NetworkTypes
    <3>2. in_flight[i] \in Flight
      BY <3>1
    <3> QED BY <3>1, <3>2 DEF Flight
  <2>2. n \in Sequences /\ packet.seq \in Sequences
    BY <2>1 DEF TransferTypes, Packet
  <2>3. packet.seq = n /\ awaiting_ack # NoAck
    BY <1>5, <2>2 DEF AnswersAwaited, TransferInv, StopAndWait
  <2>4. n \in delivered_sequences
    BY <1>1, <2>3, PacketsInNetwork DEF TransferInv, StopAndWait
  <2>5. PendingSends = {}
    BY <2>3 DEF TransferInv, StopAndWait
  <2>6. awaiting_ack' = NoAck
    BY <1>1, <1>5 DEF OnAckReceived
  <2>7. 0..n \subseteq delivered_sequences /\ delivered_sequences \subseteq 0..n
    BY <2>2, <2>4 DEF TransferInv, StopAndWait
  <2>8. CASE IsLast(n)
    <3>1. completed' = TRUE /\ UNCHANGED <<next_sequence_to_send, events>>
      BY <1>1, <1>5, <2>3, <2>8 DEF OnAckReceived
    <3>2. PendingSends' = {}
      BY <2>5, <3>1 DEF PendingSends
    <3>3. Sequences = 0..n
      BY <2>2, <2>8, TimingAssumption DEF IsLast
    <3>4. CompletionMeansDelivered'
      BY <1>2, <2>7, <3>3 DEF CompletionMeansDelivered
    <3>5. StopAndWait'
      BY <1>2, <1>3, <2>6, <3>1, <3>2 DEF TransferInv, StopAndWait
    <3> QED BY <3>2, <3>4, <3>5 DEF SingleSend
  <2>9. CASE ~IsLast(n)
    <3> DEFINE next == Scheduled("send", AckGap, n + 1, 0)
    <3>1. /\ next_sequence_to_send' = n + 1
          /\ events' = events \union {next}
          /\ UNCHANGED completed
      BY <1>1, <1>5, <2>3, <2>9 DEF OnAckReceived
    <3>2. next.kind = "send" /\ next.seq = n + 1
      BY DEF Scheduled
    <3>3. PendingSends' = {next}
      BY <2>5, <3>1, <3>2 DEF PendingSends
    <3>4. \A p \in NetworkPackets' : p.seq <= n + 1 /\ (p.type = "ack" => p.seq \in delivered_sequences')
      <4>1. ASSUME NEW p \in NetworkPackets' PROVE p.seq <= n + 1
        <5>1. p.seq <= n /\ p.seq \in Int
          BY <1>3, NetworkPacketTypes DEF TransferInv, StopAndWait
        <5> QED BY <2>2, <5>1
      <4> QED BY <1>2, <1>3, <4>1 DEF TransferInv, StopAndWait
    <3>5. 0..((n + 1) - 1) \subseteq delivered_sequences' /\ delivered_sequences' \subseteq 0..(n + 1)
      BY <1>2, <2>2, <2>7
    <3>6. StopAndWait'
      BY <2>6, <3>1, <3>2, <3>3, <3>4, <3>5 DEF StopAndWait
    <3>7. CompletionMeansDelivered'
      BY <1>2, <3>1 DEF TransferInv, CompletionMeansDelivered
    <3> QED BY <3>3, <3>6, <3>7 DEF SingleSend
  <2> QED BY <2>8, <2>9
<1> QED BY <1>4, <1>5

LEMMA ClearedTransfer ==
  ASSUME TypeInv', ClearRun, PendingSends' \subseteq {FirstSend(0)} \/ mode' = "UDP"
  PROVE  TransferInv'
<1>1. NetworkPackets' = {}
  <2>1. in_flight' = <<>> /\ \A r \in Nodes : queue'[r] = <<>>
    BY DEF ClearRun, ClearNetwork
  <2> QED BY <2>1, PacketsOfNetwork
<1>2. next_sequence_to_send' = 0 /\ awaiting_ack' = NoAck /\ delivered_sequences' = {} /\ completed' = FALSE
  BY DEF ClearRun, ClearTransfer
<1>3. FirstSend(0).seq = 0
  BY DEF FirstSend
<1>4. mode' # "UDP" => \A e \in PendingSends' : e = FirstSend(0)
  OBVIOUS
<1>5. StopAndWait'
  BY <1>1, <1>2, <1>3, <1>4 DEF StopAndWait
<1>6. CompletionMeansDelivered'
  BY <1>2 DEF CompletionMeansDelivered
<1>7. (mode = "TCP" => SingleSend)'
  BY <1>4 DEF SingleSend
<1> QED BY <1>5, <1>6, <1>7 DEF TransferInv

LEMMA InitTransfer == Init => TransferInv
<1> SUFFICES ASSUME Init PROVE TransferInv
  OBVIOUS
<1>1. \A i \in 1..Len(in_flight) : FALSE
  BY DEF Init
<1>2. \A r \in Nodes : QueuedAt(r) = {}
  BY DEF Init, QueuedAt
<1>3. NetworkPackets = {}
  BY <1>1, <1>2 DEF NetworkPackets, Flying
<1>4. PendingSends = {}
  BY DEF Init, PendingSends
<1> QED BY <1>3, <1>4, InitType DEF Init, TransferInv, StopAndWait, CompletionMeansDelivered, SingleSend

LEMMA UpdateTransfer == TransferInv /\ Update => TransferInv'
<1> SUFFICES ASSUME TransferInv, Update PROVE TransferInv'
  OBVIOUS
<1>1. TypeInv /\ TypeInv'
  BY UpdateType DEF TransferInv
<1>2. ASSUME UNCHANGED <<mode, running, completed, events, queue, in_flight>>,
             UNCHANGED transferVars
      PROVE  TransferInv'
  <2>1. PendingSends' = PendingSends
    BY <1>2 DEF PendingSends
  <2>2. NetworkPackets' \subseteq NetworkPackets
    BY <1>2, PacketsInNetwork, PacketsOfNetwork
  <2> QED BY <1>1, <1>2, <2>1, <2>2, TransferUntouched DEF transferVars
<1>3. CASE \E dt \in FrameTimes : BeginFrame(dt)
  BY <1>2, <1>3 DEF BeginFrame, settingVars, eventVars, networkVars
<1>4. CASE RunSend
  <2>1. PICK e \in events : e.kind = "send" /\ SendData(e, FALSE)
    BY <1>4 DEF RunSend
  <2>2. mode = "TCP" => e.seq = next_sequence_to_send /\ PendingSends \subseteq {e}
    BY <2>1 DEF TransferInv, StopAndWait, SingleSend, PendingSends
  <2>3. UNCHANGED <<mode, next_sequence_to_send, delivered_sequences, running, completed, in_flight>>
    BY <1>4 DEF RunSend, settingVars, clockVars
  <2> QED BY <1>1, <2>1, <2>2, <2>3, SendDataTransfer
<1>5. CASE RunTimeout
  <2>1. PICK e \in events :
          IF TimerIsStale(e)
          THEN /\ events' = events \ {e}
               /\ UNCHANGED <<queue, next_packet_id, stats, awaiting_ack, timeout_token, next_event_id>>
          ELSE SendData(e, TRUE)
    BY <1>5 DEF RunTimeout
  <2>2. UNCHANGED <<mode, next_sequence_to_send, delivered_sequences, running, completed, in_flight>>
    BY <1>5 DEF RunTimeout, settingVars, clockVars
  <2>3. CASE TimerIsStale(e)
    <3>1. UNCHANGED <<queue, awaiting_ack>> /\ PendingSends' \subseteq PendingSends
      BY <2>1, <2>3 DEF PendingSends
    <3>2. NetworkPackets' \subseteq NetworkPackets
      BY <2>2, <3>1, PacketsInNetwork, PacketsOfNetwork
    <3> QED BY <1>1, <2>2, <3>1, <3>2, TransferUntouched
  <2>4. CASE ~TimerIsStale(e)
    <3>1. awaiting_ack = e.seq /\ SendData(e, TRUE)
      BY <2>1, <2>4 DEF TimerIsStale
    <3>2. e.seq \in Sequences /\ e.seq # NoAck
      BY <1>1, TimingAssumption DEF TypeInv, TypeOK, EventTypes, Event
    <3>3. mode = "TCP" => e.seq = next_sequence_to_send /\ PendingSends \subseteq {e}
      BY <3>1, <3>2 DEF TransferInv, StopAndWait
    <3> QED BY <1>1, <2>2, <3>1, <3>3, SendDataTransfer
  <2> QED BY <2>3, <2>4
<1>6. CASE EventsDone
  BY <1>2, <1>6 DEF EventsDone, settingVars, clockVars, eventVars, networkVars
<1>7. CASE \E r \in Nodes : Dispatch(r)
  <2>1. PICK r \in Nodes : Dispatch(r)
    BY <1>7
  <2>2. UNCHANGED <<mode, running, completed, events>> /\ UNCHANGED transferVars
    BY <2>1 DEF Dispatch, settingVars, clockVars, eventVars
  <2>3. PendingSends' = PendingSends
    BY <2>2 DEF PendingSends
  <2> QED BY <1>1, <2>1, <2>2, <2>3, DispatchPackets, TransferUntouched DEF transferVars
<1>8. CASE DispatchDone
  <2>1. UNCHANGED <<mode, running, completed, events>> /\ UNCHANGED transferVars
    BY <1>8 DEF DispatchDone, settingVars, clockVars, eventVars
  <2>2. PendingSends' = PendingSends
    BY <2>1 DEF PendingSends
  <2> QED BY <1>1, <1>8, <2>1, <2>2, DispatchDonePackets, TransferUntouched DEF transferVars
<1>9. CASE LoseFlight
  <2>1. PICK i \in 1..Len(in_flight) : in_flight' = RemoveAt(in_flight, i)
    BY <1>9 DEF LoseFlight
  <2>2. UNCHANGED <<mode, running, completed, events, queue>> /\ UNCHANGED transferVars
    BY <1>9 DEF LoseFlight, settingVars, clockVars, eventVars
  <2>3. PendingSends' = PendingSends
    BY <2>2 DEF PendingSends
  <2>4. NetworkPackets' \subseteq NetworkPackets
    BY <1>1, <2>1, <2>2, RemovedPackets, PacketsInNetwork, PacketsOfNetwork
  <2> QED BY <1>1, <2>2, <2>3, <2>4, TransferUntouched DEF transferVars
<1>10. CASE ArriveAtRouter
  <2>1. PICK i \in 1..Len(in_flight) :
          in_flight' = RemoveAt(in_flight, i) /\ Enqueue(in_flight[i].end, in_flight[i].packet)
    BY <1>10 DEF ArriveAtRouter
  <2>2. UNCHANGED <<mode, running, completed, events>> /\ UNCHANGED transferVars
    BY <1>10 DEF ArriveAtRouter, settingVars, clockVars, eventVars
  <2>3. PendingSends' = PendingSends
    BY <2>2 DEF PendingSends
  <2>4. in_flight[i].end \in Nodes /\ in_flight[i].packet \in NetworkPackets
    <3>1. in_flight[i] \in Flight
      BY <1>1 DEF TypeInv, TypeOK, NetworkTypes
    <3> QED BY <3>1, PacketsInNetwork DEF Flight
  <2>5. \A r \in Nodes : \A j \in 1..Len(queue'[r]) : queue'[r][j] \in NetworkPackets
    BY <1>1, <2>1, <2>4, EnqueuePackets
  <2>6. NetworkPackets' \subseteq NetworkPackets
    BY <1>1, <2>1, <2>5, RemovedPackets, PacketsOfNetwork
  <2> QED BY <1>1, <2>2, <2>3, <2>6, TransferUntouched DEF transferVars
<1>11. CASE EndFrame
  <2>1. UNCHANGED <<mode, events, queue, in_flight>> /\ UNCHANGED transferVars
    BY <1>11 DEF EndFrame, settingVars, eventVars, networkVars
  <2>2. running' /\ completed' => running /\ completed
    BY <1>11 DEF EndFrame
  <2>3. PendingSends' = PendingSends
    BY <2>1 DEF PendingSends
  <2>4. NetworkPackets' \subseteq NetworkPackets
    BY <2>1, PacketsInNetwork, PacketsOfNetwork
  <2> QED BY <1>1, <2>1, <2>2, <2>3, <2>4, TransferUntouched DEF transferVars
<1> QED BY <1>1, <1>3, <1>4, <1>5, <1>6, <1>7, <1>8, <1>9, <1>10, <1>11, DataTransfer, AckTransfer DEF Update

LEMMA UserKeyTransfer == TransferInv /\ UserKey => TransferInv'
<1> SUFFICES ASSUME TransferInv, UserKey PROVE TransferInv'
  OBVIOUS
<1>1. TypeInv'
  BY UserKeyType DEF TransferInv
<1>2. CASE StartRun
  <2>1. ClearRun /\ UNCHANGED mode /\ events' = {FirstSend(seq) : seq \in FirstSequences}
    BY <1>2 DEF StartRun, settingVars
  <2>2. PendingSends' \subseteq {FirstSend(0)} \/ mode' = "UDP"
    BY <2>1 DEF PendingSends, FirstSequences
  <2> QED BY <1>1, <2>1, <2>2, ClearedTransfer
<1>3. CASE ResetRunState
  <2>1. ClearRun /\ PendingSends' = {}
    BY <1>3 DEF ResetRunState, PendingSends
  <2> QED BY <1>1, <2>1, ClearedTransfer
<1>4. UserKey => StartRun \/ ResetRunState
  BY DEF UserKey, PressReset, ToggleMode, CycleTopology, ToggleSdn, ToggleTrafficProfile, ToggleChaos,
     ToggleDuplicates, AdjustLossRate, AdjustDelayMultiplier, SetConditions
<1> QED BY <1>2, <1>3, <1>4

LEMMA NextTransfer ==
  ASSUME TransferInv, [Next]_vars
  PROVE  TransferInv'
<1>1. CASE UNCHANGED vars
  <2>1. UNCHANGED <<settingVars, phase, clockVars, transferVars, eventVars, networkVars, countVars>>
    BY <1>1 DEF vars
  <2>2. TypeInv'
    BY <2>1 DEF TransferInv, TypeInv, TypeOK, settingVars, clockVars, transferVars, eventVars, networkVars,
       countVars, SettingTypes, ClockTypes, TransferTypes, EventTypes, NetworkTypes, CountTypes,
       TableInstalled, Topology, AwayFromDestination
  <2>3. PendingSends' = PendingSends
    BY <2>1 DEF PendingSends, eventVars
  <2>4. NetworkPackets' \subseteq NetworkPackets
    BY <2>1, PacketsInNetwork, PacketsOfNetwork DEF networkVars
  <2> QED BY <2>1, <2>2, <2>3, <2>4, TransferUntouched DEF settingVars, clockVars, transferVars
<1> QED BY <1>1, UpdateTransfer, UserKeyTransfer DEF Next

THEOREM TransferInvariant == Spec => []TransferInv
<1>1. TransferInv /\ [Next]_vars => TransferInv'
  BY NextTransfer
<1> QED BY InitTransfer, <1>1, PTL DEF Spec

(* Stop-and-wait holds for every goal, topology, timing and condition.     *)
THEOREM StopAndWaitHolds == Spec => []StopAndWait
<1>1. TransferInv => StopAndWait
  BY DEF TransferInv
<1> QED BY <1>1, TransferInvariant, PTL

(* A TCP transfer that declares itself complete has delivered everything.  *)
THEOREM CompletionHolds == Spec => []CompletionMeansDelivered
<1>1. TransferInv => CompletionMeansDelivered
  BY DEF TransferInv
<1> QED BY <1>1, TransferInvariant, PTL
=============================================================================
