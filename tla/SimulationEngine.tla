-------------------------- MODULE SimulationEngine --------------------------
(***************************************************************************)
(* The discrete-event network simulator of simulation.py, with the router  *)
(* queues of router.py, the firewall router of sdn_router.py and the       *)
(* keyboard loop of main.py.                                               *)
(*                                                                         *)
(* The program is single-threaded: main() polls the keyboard, draws, and   *)
(* calls update(dt).  A key handler is one action, enabled between two     *)
(* frames.  update(dt) is a fixed sequence of loops; `phase' is the        *)
(* position in that sequence, and each action of a phase is one iteration  *)
(* of one of its loops, so nothing else can run until the frame is over.   *)
(*                                                                         *)
(* Time is counted in ticks (the code uses float milliseconds).  Every     *)
(* random draw of the code is a nondeterministic choice among the values   *)
(* the draw can produce under the current conditions.                      *)
(***************************************************************************)
EXTENDS Integers, Sequences, SequencesExt

CONSTANTS
  Nodes,                 \* router ids, the same in every preset topology
  Presets,               \* TOPOLOGY_PRESETS in key order, each with its forwarding tables and firewall node
  PacketGoal,            \* self.packet_goal
  SendInterval,          \* self.send_interval_ms
  RetransmissionTimeout, \* self.retransmission_timeout_ms
  AckGap,                \* the 150.0 of _on_ack_received
  ProcessingDelay,       \* self.processing_delay_ms
  MaxRuntime,            \* self.max_runtime_ms
  FrameTimes,            \* the values dt_ms can take
  Jitter,                \* samples of uniform(0, 80)
  Spikes,                \* samples of uniform(250, 850), drawn in chaos mode only
  InitialSettings,       \* settings reached with the keyboard before the first run
  Keys,                  \* the keys the user presses in this instance
  MaxDuplicates          \* bound of the model: link duplications in one run

NoAck == -1        \* awaiting_ack is None
NoRouter == -1     \* no router has firewall rules
Sequences == 0..(PacketGoal - 1)
Modes == {"UDP", "TCP"}
Ports == {80, 443}
Phases == {"idle", "events", "dispatch", "flights"}

(* Rates and multipliers are kept in the steps the keyboard moves them by: *)
(* loss in 2%, duplication in 1%, the delay multiplier in tenths.          *)
MaxLoss == 30
MinDelay == 4
MaxDelay == 25
Conditions == [loss: 0..MaxLoss, dup: {0, 4, 5}, delay: MinDelay..MaxDelay, chaos: BOOLEAN]

Settings == [mode: Modes, port: Ports, sdn: BOOLEAN, conditions: Conditions]

Packet == [type: {"data", "ack"}, seq: Sequences, src: Nodes, dst: Nodes,
           port: Ports, proto: Modes]
Flight == [packet: Packet, start: Nodes, end: Nodes, remaining: Int, dropped: BOOLEAN]
Event == [kind: {"send", "timeout"}, due: Nat, id: Nat, seq: Sequences, token: Nat]
Counters == [sent: Nat, delivered: Nat, dropped: Nat, retransmissions: Nat,
             duplicates: Nat, acks: Nat]

(* A preset is a TopologySpec together with what GraphManager and the      *)
(* engine derive from its name: link delays, forwarding tables, firewall.  *)
PresetOK(p) ==
  /\ p.source \in Nodes /\ p.destination \in Nodes /\ p.source # p.destination
  /\ p.firewall \in Nodes
  /\ p.delay \in [DOMAIN p.delay -> Nat]
  /\ \A r \in Nodes : \A d \in Nodes \ {r} :
        p.table[r][d] \in Nodes /\ <<r, p.table[r][d]>> \in DOMAIN p.delay

ASSUME PresetsAssumption ==
  /\ Nodes \subseteq Nat /\ IsFiniteSet(Nodes)
  /\ Presets = [i \in 1..Len(Presets) |-> Presets[i]]
  /\ Len(Presets) \in Nat \ {0}
  /\ \A i \in 1..Len(Presets) : PresetOK(Presets[i])

ASSUME TimingAssumption ==
  /\ PacketGoal \in Nat \ {0}
  /\ {SendInterval, RetransmissionTimeout, AckGap, ProcessingDelay, MaxRuntime} \subseteq Nat \ {0}
  /\ FrameTimes \subseteq Nat \ {0}
  /\ Jitter \subseteq Nat /\ Spikes \subseteq Nat

ASSUME SettingsAssumption ==
  /\ InitialSettings \subseteq Settings
  /\ MaxDuplicates \in Nat

VARIABLES
  \* settings, which survive a reset of the run
  mode, traffic_port, use_sdn, conditions, topology, source, destination,
  table, firewall,
  \* the frame loop
  phase, frame, current_time, running, completed,
  \* the sending and the receiving end of the transfer
  next_sequence_to_send, awaiting_ack, timeout_token, udp_sent_all, delivered_sequences,
  \* scheduled callbacks
  events, next_event_id,
  \* the network
  queue, next_available, in_flight, chaos_drop_remaining,
  \* accounting; `arrived' is a history variable counting _record_delivery calls
  next_packet_id, stats, arrived

settingVars == <<mode, traffic_port, use_sdn, conditions, topology, source, destination, table, firewall>>
clockVars == <<frame, current_time, running, completed>>
transferVars == <<next_sequence_to_send, awaiting_ack, timeout_token, udp_sent_all, delivered_sequences>>
eventVars == <<events, next_event_id>>
networkVars == <<queue, next_available, in_flight, chaos_drop_remaining>>
countVars == <<next_packet_id, stats, arrived>>
vars == <<settingVars, phase, clockVars, transferVars, eventVars, networkVars, countVars>>

Topology == Presets[topology]

-----------------------------------------------------------------------------
(* Packets *)

MakePacket(type, from, to, seq) ==
  [type |-> type, seq |-> seq, src |-> from, dst |-> to, port |-> traffic_port, proto |-> mode]

(* _inject_packet counts the packet and queues it at the router of its source. *)
CountSent(s) == [s EXCEPT !.sent = @ + 1]

CountInjected(s, retransmission) ==
  IF retransmission THEN [CountSent(s) EXCEPT !.retransmissions = @ + 1] ELSE CountSent(s)

Enqueue(node, packet) == queue' = [queue EXCEPT ![node] = Append(@, packet)]

(* _should_drop_packet: whether the packet is lost, and the burst left after it. *)
Outcome(lost, left) == [lost |-> lost, left |-> left]

DropOutcomes(burst) ==
  IF conditions.chaos /\ burst > 0
  THEN {Outcome(TRUE, burst - 1)}
  ELSE {Outcome(FALSE, burst)}
         \union (IF conditions.chaos THEN {Outcome(TRUE, 1), Outcome(TRUE, 2)} ELSE {})
         \union (IF conditions.loss > 0 THEN {Outcome(TRUE, burst)} ELSE {})

(* _sample_link_delay: base and jitter are scaled, a chaos spike is not. *)
LinkDelays(base) ==
  { ((base + j) * conditions.delay) \div 10 + s :
      j \in Jitter, s \in (IF conditions.chaos THEN Spikes ELSE {}) \union {0} }

\* Mutants: a duplicate missing from one of the two counters.
CountDuplicateNotSent(s) == [s EXCEPT !.duplicates = @ + 1]
CountDuplicateAsPlain(s) == CountSent(s)

CountDuplicate(s) == [CountSent(s) EXCEPT !.duplicates = @ + 1]

(* _launch_link and _inject_duplicate_flight.  A duplicate draws a delay   *)
(* and a loss of its own, after those of the original.                     *)
LaunchLink(packet, from, to) ==
  LET base == Topology.delay[<<from, to>>]
      flight(d, lost) == [packet |-> packet, start |-> from, end |-> to, remaining |-> d, dropped |-> lost]
  IN  \E d1 \in LinkDelays(base), o1 \in DropOutcomes(chaos_drop_remaining) :
        \/ /\ in_flight' = Append(in_flight, flight(d1, o1.lost))
           /\ chaos_drop_remaining' = o1.left
           /\ UNCHANGED <<next_packet_id, stats>>
        \/ /\ conditions.dup > 0
           /\ stats.duplicates < MaxDuplicates
           /\ \E d2 \in LinkDelays(base), o2 \in DropOutcomes(o1.left) :
                /\ in_flight' = in_flight \o <<flight(d1, o1.lost), flight(d2, o2.lost)>>
                /\ chaos_drop_remaining' = o2.left
           /\ next_packet_id' = next_packet_id + 1
           /\ stats' = CountDuplicate(stats)

-----------------------------------------------------------------------------
(* Callbacks.  The heap of (due, id, callback) triples is a set of events: *)
(* its pop order is the order of <<due, id>>.                              *)

\* Mutant: the delay taken for an absolute time.
ScheduledAbsolute(kind, delay, seq, token) ==
  [kind |-> kind, due |-> delay, id |-> next_event_id, seq |-> seq, token |-> token]

Scheduled(kind, delay, seq, token) ==
  [kind |-> kind, due |-> current_time + delay, id |-> next_event_id, seq |-> seq, token |-> token]

DueEvents == {e \in events : e.due <= current_time}

Precedes(e, f) == e.due < f.due \/ (e.due = f.due /\ e.id <= f.id)

(* _send_data, called by the callback e: inject the packet and, in TCP     *)
(* mode, await its acknowledgement under a fresh timeout token.  (Its early *)
(* return is for a sequence number no caller passes: see Event.)           *)
SendData(e, retransmission) ==
  /\ Enqueue(source, MakePacket("data", source, destination, e.seq))
  /\ next_packet_id' = next_packet_id + 1
  /\ stats' = CountInjected(stats, retransmission)
  /\ IF mode = "TCP"
     THEN /\ awaiting_ack' = e.seq
          /\ timeout_token' = timeout_token + 1
          /\ events' = (events \ {e})
               \union {Scheduled("timeout", RetransmissionTimeout, e.seq, timeout_token + 1)}
          /\ next_event_id' = next_event_id + 1
     ELSE /\ events' = events \ {e}
          /\ UNCHANGED <<awaiting_ack, timeout_token, next_event_id>>

\* Mutant: the timer of an acknowledged packet still fires.
TimerIsStaleByToken(e) == ~running \/ completed \/ e.token # timeout_token

(* _on_timeout, negated: the timer of an answered or resent packet is stale. *)
TimerIsStale(e) ==
  \/ ~running \/ completed
  \/ awaiting_ack # e.seq
  \/ e.token # timeout_token

-----------------------------------------------------------------------------
(* Receiving *)

\* Mutants: no deduplication; any acknowledgement, or none of a packet sent
\* again, taken for the awaited one; the end of the transfer off by one.
IsNewAlways(seq) == TRUE
AnswersAlways(packet) == TRUE
AnswersFirstSend(packet) == awaiting_ack = packet.seq /\ timeout_token = packet.seq + 1
IsLastTooEarly(seq) == seq + 2 >= PacketGoal
IsLastTooLate(seq) == seq + 1 > PacketGoal

IsNew(seq) == seq \notin delivered_sequences

AnswersAwaited(packet) == awaiting_ack = packet.seq

IsLast(seq) == seq + 1 >= PacketGoal

(* _on_data_received: record a new sequence number, and acknowledge every  *)
(* copy in TCP mode.                                                       *)
CountDelivery(s, seq) == IF IsNew(seq) THEN [s EXCEPT !.delivered = @ + 1] ELSE s

OnDataReceived(packet) ==
  /\ delivered_sequences' = delivered_sequences \union {packet.seq}
  /\ IF mode = "TCP"
     THEN /\ Enqueue(destination, MakePacket("ack", destination, source, packet.seq))
          /\ next_packet_id' = next_packet_id + 1
          /\ stats' = [CountInjected(CountDelivery(stats, packet.seq), FALSE) EXCEPT !.acks = @ + 1]
     ELSE /\ stats' = CountDelivery(stats, packet.seq)
          /\ UNCHANGED <<queue, next_packet_id>>

(* _on_ack_received: ignore every acknowledgement but the awaited one, then *)
(* either complete or schedule the next sequence number.                   *)
OnAckReceived(packet) ==
  IF AnswersAwaited(packet)
  THEN /\ awaiting_ack' = NoAck
       /\ IF IsLast(packet.seq)
          THEN /\ completed' = TRUE
               /\ UNCHANGED <<next_sequence_to_send, events, next_event_id>>
          ELSE /\ next_sequence_to_send' = packet.seq + 1
               /\ events' = events \union {Scheduled("send", AckGap, packet.seq + 1, 0)}
               /\ next_event_id' = next_event_id + 1
               /\ UNCHANGED completed
  ELSE UNCHANGED <<awaiting_ack, completed, next_sequence_to_send, events, next_event_id>>

-----------------------------------------------------------------------------
(* update(dt) *)

\* Mutants: scheduled callbacks, or packets on links, not looked at.
NetworkIdleWithEvents == in_flight = <<>> /\ \A r \in Nodes : queue[r] = <<>>
NetworkIdleWithFlights == events = {} /\ \A r \in Nodes : queue[r] = <<>>

NetworkIdle ==
  /\ \A r \in Nodes : queue[r] = <<>>
  /\ in_flight = <<>>
  /\ events = {}

\* Mutant: the clock stands still.
BeginFrameFrozen(dt) ==
  /\ phase = "idle" /\ running
  /\ frame' = dt
  /\ phase' = "events"
  /\ UNCHANGED <<settingVars, current_time, running, completed, transferVars, eventVars, networkVars, countVars>>

(* A frame of a running simulation starts: the clock advances by dt. *)
BeginFrame(dt) ==
  /\ phase = "idle"
  /\ running
  /\ current_time' = current_time + dt
  /\ frame' = dt
  /\ phase' = "events"
  /\ UNCHANGED <<settingVars, running, completed, transferVars, eventVars, networkVars, countVars>>

(* _run_due_events, one callback: the earliest due event. *)
FirstDue(e) == e \in DueEvents /\ \A f \in DueEvents : Precedes(e, f)

RunSend ==
  /\ phase = "events"
  /\ \E e \in events :
       /\ FirstDue(e)
       /\ e.kind = "send"
       /\ SendData(e, FALSE)
  /\ UNCHANGED <<settingVars, phase, clockVars, next_sequence_to_send, udp_sent_all, delivered_sequences,
                 next_available, in_flight, chaos_drop_remaining, arrived>>

RunTimeout ==
  /\ phase = "events"
  /\ \E e \in events :
       /\ FirstDue(e)
       /\ e.kind = "timeout"
       /\ IF TimerIsStale(e)
          THEN /\ events' = events \ {e}
               /\ UNCHANGED <<queue, next_packet_id, stats, awaiting_ack, timeout_token, next_event_id>>
          ELSE SendData(e, TRUE)
  /\ UNCHANGED <<settingVars, phase, clockVars, next_sequence_to_send, udp_sent_all, delivered_sequences,
                 next_available, in_flight, chaos_drop_remaining, arrived>>

EventsDone ==
  /\ phase = "events"
  /\ DueEvents = {}
  /\ phase' = "dispatch"
  /\ UNCHANGED <<settingVars, clockVars, transferVars, eventVars, networkVars, countVars>>

(* _dispatch_routers, one router: the lowest one that has work and is free. *)
(* A router is busy for ProcessingDelay > 0 after each packet, so the loop  *)
(* over sorted(self.routers) serves each router at most once per frame.     *)
Ready(r) == queue[r] # <<>> /\ next_available[r] <= current_time

FirstReady(r) == Ready(r) /\ \A q \in Nodes : Ready(q) => r <= q

\* Mutant: the rule matches acknowledgements.
BlockedAck(r, packet) == r = firewall /\ packet.port = 80 /\ packet.type = "ack"

(* The one rule build_demo_sdn_routers installs, at the firewall router. *)
Blocked(r, packet) == r = firewall /\ packet.port = 80 /\ packet.type = "data"

CountDrop(s) == [s EXCEPT !.dropped = @ + 1]

Dispatch(r) ==
  /\ phase = "dispatch"
  /\ FirstReady(r)
  /\ queue' = [queue EXCEPT ![r] = Tail(@)]
  /\ next_available' = [next_available EXCEPT ![r] = current_time + ProcessingDelay]
  /\ LET packet == Head(queue[r])
     IN  IF Blocked(r, packet)
         THEN /\ stats' = CountDrop(stats)
              /\ UNCHANGED <<in_flight, chaos_drop_remaining, next_packet_id>>
         ELSE LaunchLink(packet, r, table[r][packet.dst])
  /\ UNCHANGED <<settingVars, phase, clockVars, transferVars, eventVars, arrived>>

(* The next loop moves every flight, those just launched included, by dt. *)
DispatchDone ==
  /\ phase = "dispatch"
  /\ \A r \in Nodes : ~Ready(r)
  /\ phase' = "flights"
  /\ in_flight' = [i \in 1..Len(in_flight) |-> [in_flight[i] EXCEPT !.remaining = @ - frame]]
  /\ UNCHANGED <<settingVars, clockVars, transferVars, eventVars,
                 queue, next_available, chaos_drop_remaining, countVars>>

(* _advance_in_flight_packets, one landed flight: the first of the list. *)
Landed(i) == in_flight[i].remaining <= 0

FirstLanded(i) == Landed(i) /\ \A j \in 1..(i - 1) : ~Landed(j)

\* Mutant: only the transfer's destination is an end of a route.
AtReceiver(flight) == flight.end = destination

AtDestination(flight) == flight.end = flight.packet.dst

LoseFlight ==
  /\ phase = "flights"
  /\ \E i \in 1..Len(in_flight) :
       /\ FirstLanded(i)
       /\ in_flight[i].dropped
       /\ in_flight' = RemoveAt(in_flight, i)
  /\ stats' = CountDrop(stats)
  /\ UNCHANGED <<settingVars, phase, clockVars, transferVars, eventVars,
                 queue, next_available, chaos_drop_remaining, next_packet_id, arrived>>

(* _handle_arrival at a router on the way. *)
ArriveAtRouter ==
  /\ phase = "flights"
  /\ \E i \in 1..Len(in_flight) :
       LET flight == in_flight[i]
       IN  /\ FirstLanded(i)
           /\ ~flight.dropped
           /\ ~AtDestination(flight)
           /\ in_flight' = RemoveAt(in_flight, i)
           /\ Enqueue(flight.end, flight.packet)
  /\ UNCHANGED <<settingVars, phase, clockVars, transferVars, eventVars,
                 next_available, chaos_drop_remaining, countVars>>

(* _handle_arrival of data at its destination. *)
ArriveData ==
  /\ phase = "flights"
  /\ \E i \in 1..Len(in_flight) :
       LET flight == in_flight[i]
       IN  /\ FirstLanded(i)
           /\ ~flight.dropped
           /\ AtDestination(flight)
           /\ flight.packet.type = "data"
           /\ in_flight' = RemoveAt(in_flight, i)
           /\ OnDataReceived(flight.packet)
  /\ arrived' = arrived + 1
  /\ UNCHANGED <<settingVars, phase, clockVars, next_sequence_to_send, awaiting_ack, timeout_token,
                 udp_sent_all, eventVars, next_available, chaos_drop_remaining>>

(* _handle_arrival of an acknowledgement at the source. *)
ArriveAck ==
  /\ phase = "flights"
  /\ \E i \in 1..Len(in_flight) :
       LET flight == in_flight[i]
       IN  /\ FirstLanded(i)
           /\ ~flight.dropped
           /\ AtDestination(flight)
           /\ flight.packet.type = "ack"
           /\ in_flight' = RemoveAt(in_flight, i)
           /\ OnAckReceived(flight.packet)
  /\ arrived' = arrived + 1
  /\ UNCHANGED <<settingVars, phase, frame, current_time, running, timeout_token, udp_sent_all,
                 delivered_sequences, queue, next_available, chaos_drop_remaining, next_packet_id, stats>>

(* The end of update: _finish_run when the transfer is over or out of time. *)
TransferOver ==
  \/ mode = "UDP" /\ udp_sent_all /\ NetworkIdle
  \/ mode = "TCP" /\ completed /\ NetworkIdle

OutOfTime == current_time >= MaxRuntime

EndFrame ==
  /\ phase = "flights"
  /\ \A i \in 1..Len(in_flight) : ~Landed(i)
  /\ phase' = "idle"
  /\ frame' = 0
  /\ IF TransferOver \/ OutOfTime
     THEN running' = FALSE /\ completed' = TRUE
     ELSE UNCHANGED <<running, completed>>
  /\ UNCHANGED <<settingVars, current_time, transferVars, eventVars, networkVars, countVars>>

Update ==
  \/ \E dt \in FrameTimes : BeginFrame(dt)
  \/ RunSend \/ RunTimeout \/ EventsDone
  \/ \E r \in Nodes : Dispatch(r)
  \/ DispatchDone
  \/ LoseFlight \/ ArriveAtRouter \/ ArriveData \/ ArriveAck
  \/ EndFrame

-----------------------------------------------------------------------------
(* Key handlers (main.py), each enabled between two frames. *)

NewStats == [sent |-> 0, delivered |-> 0, dropped |-> 0, retransmissions |-> 0,
             duplicates |-> 0, acks |-> 0]

ClearTransfer ==
  /\ next_sequence_to_send' = 0
  /\ awaiting_ack' = NoAck
  /\ timeout_token' = 0
  /\ delivered_sequences' = {}

ClearNetwork ==
  /\ queue' = [r \in Nodes |-> <<>>]
  /\ next_available' = [r \in Nodes |-> 0]
  /\ in_flight' = <<>>
  /\ chaos_drop_remaining' = 0

(* What reset_run_state clears and start_run does not set again. *)
ClearRun ==
  /\ ClearTransfer
  /\ ClearNetwork
  /\ current_time' = 0
  /\ completed' = FALSE
  /\ next_packet_id' = 1
  /\ stats' = NewStats
  /\ arrived' = 0
  /\ UNCHANGED <<phase, frame>>

ResetRunState ==
  /\ ClearRun
  /\ running' = FALSE
  /\ udp_sent_all' = FALSE
  /\ events' = {}
  /\ next_event_id' = 1

Pressed(key) == key \in Keys /\ phase = "idle"

FirstSend(seq) == [kind |-> "send", due |-> seq * SendInterval, id |-> seq + 1, seq |-> seq, token |-> 0]

\* Mutant: every packet scheduled at once in both modes.
FirstSequencesAll == Sequences

(* UDP schedules every packet at once, TCP the first one. *)
FirstSequences == IF mode = "UDP" THEN Sequences ELSE {0}

(* SPACE: start_run. *)
StartRun ==
  /\ Pressed("SPACE")
  /\ ClearRun
  /\ running' = TRUE
  /\ events' = {FirstSend(seq) : seq \in FirstSequences}
  /\ next_event_id' = IF mode = "UDP" THEN PacketGoal + 1 ELSE 2
  /\ udp_sent_all' = (mode = "UDP")
  /\ UNCHANGED settingVars

(* R *)
PressReset ==
  /\ Pressed("R")
  /\ ResetRunState
  /\ UNCHANGED settingVars

(* M *)
ToggleMode ==
  /\ Pressed("M")
  /\ mode' = IF mode = "UDP" THEN "TCP" ELSE "UDP"
  /\ ResetRunState
  /\ UNCHANGED <<traffic_port, use_sdn, conditions, topology, source, destination, table, firewall>>

\* Mutant: the firewall of the routers already installed stays.
RebuildTablesOnly(name, sdn) ==
  /\ table' = Presets[name].table
  /\ UNCHANGED firewall

(* _rebuild_routers: tables of the graph just loaded, and the firewall     *)
(* router of its name when SDN is on.                                      *)
RebuildRouters(name, sdn) ==
  /\ table' = Presets[name].table
  /\ firewall' = IF sdn THEN Presets[name].firewall ELSE NoRouter

(* T: GraphManager.cycle_topology loads the next preset; the engine's      *)
(* source and destination are not touched.                                 *)
CycleTopology ==
  /\ Pressed("T")
  /\ topology' = (topology % Len(Presets)) + 1
  /\ RebuildRouters(topology', use_sdn)
  /\ ResetRunState
  /\ UNCHANGED <<mode, traffic_port, use_sdn, conditions, source, destination>>

(* S *)
ToggleSdn ==
  /\ Pressed("S")
  /\ use_sdn' = ~use_sdn
  /\ RebuildRouters(topology, use_sdn')
  /\ ResetRunState
  /\ UNCHANGED <<mode, traffic_port, conditions, topology, source, destination>>

(* P *)
ToggleTrafficProfile ==
  /\ Pressed("P")
  /\ traffic_port' = IF traffic_port = 443 THEN 80 ELSE 443
  /\ ResetRunState
  /\ UNCHANGED <<mode, use_sdn, conditions, topology, source, destination, table, firewall>>

(* The handlers that change self.conditions: C, D, [ and ], - and =. *)
SetConditions(new) ==
  /\ conditions' = new
  /\ ResetRunState
  /\ UNCHANGED <<mode, traffic_port, use_sdn, topology, source, destination, table, firewall>>

ToggleChaos ==
  /\ Pressed("C")
  /\ SetConditions([conditions EXCEPT !.chaos = ~@])

ToggleDuplicates ==
  /\ Pressed("D")
  /\ SetConditions([conditions EXCEPT !.dup = IF @ = 0 THEN 5 ELSE 0])

\* Mutant: only the lower limit is enforced.
ClampBelow(low, high, x) == IF x < low THEN low ELSE x

Clamp(low, high, x) == IF x < low THEN low ELSE IF x > high THEN high ELSE x

AdjustLossRate ==
  \/ /\ Pressed("[")
     /\ SetConditions([conditions EXCEPT !.loss = Clamp(0, MaxLoss, @ - 1)])
  \/ /\ Pressed("]")
     /\ SetConditions([conditions EXCEPT !.loss = Clamp(0, MaxLoss, @ + 1)])

AdjustDelayMultiplier ==
  \/ /\ Pressed("-")
     /\ SetConditions([conditions EXCEPT !.delay = Clamp(MinDelay, MaxDelay, @ - 1)])
  \/ /\ Pressed("=")
     /\ SetConditions([conditions EXCEPT !.delay = Clamp(MinDelay, MaxDelay, @ + 1)])

UserKey ==
  \/ StartRun \/ PressReset
  \/ ToggleMode \/ CycleTopology \/ ToggleSdn \/ ToggleTrafficProfile
  \/ ToggleChaos \/ ToggleDuplicates
  \/ AdjustLossRate \/ AdjustDelayMultiplier

-----------------------------------------------------------------------------
(* SimulationEngine.__init__ and setup_topology("Campus Backbone"), the    *)
(* first preset, followed by any keys that only change settings.           *)
Init ==
  /\ \E s \in InitialSettings :
       /\ mode = s.mode
       /\ traffic_port = s.port
       /\ use_sdn = s.sdn
       /\ conditions = s.conditions
       /\ firewall = IF s.sdn THEN Presets[1].firewall ELSE NoRouter
  /\ topology = 1
  /\ table = Presets[1].table
  /\ source = Presets[1].source
  /\ destination = Presets[1].destination
  /\ phase = "idle"
  /\ frame = 0
  /\ current_time = 0
  /\ running = FALSE
  /\ completed = FALSE
  /\ next_sequence_to_send = 0
  /\ awaiting_ack = NoAck
  /\ timeout_token = 0
  /\ udp_sent_all = FALSE
  /\ delivered_sequences = {}
  /\ events = {}
  /\ next_event_id = 1
  /\ queue = [r \in Nodes |-> <<>>]
  /\ next_available = [r \in Nodes |-> 0]
  /\ in_flight = <<>>
  /\ chaos_drop_remaining = 0
  /\ next_packet_id = 1
  /\ stats = NewStats
  /\ arrived = 0

Next == UserKey \/ Update

Spec == Init /\ [][Next]_vars

(* main() calls update() on every iteration of its loop. *)
FairSpec == Spec /\ WF_vars(Update)

-----------------------------------------------------------------------------
(* Properties *)

SettingTypes ==
  /\ mode \in Modes /\ traffic_port \in Ports /\ use_sdn \in BOOLEAN
  /\ conditions \in Conditions
  /\ topology \in 1..Len(Presets)
  /\ source \in Nodes /\ destination \in Nodes /\ source # destination
  /\ firewall \in Nodes \union {NoRouter}

ClockTypes ==
  /\ phase \in Phases /\ frame \in Nat /\ current_time \in Nat
  /\ running \in BOOLEAN /\ completed \in BOOLEAN

TransferTypes ==
  /\ next_sequence_to_send \in Sequences
  /\ awaiting_ack \in Sequences \union {NoAck}
  /\ timeout_token \in Nat /\ udp_sent_all \in BOOLEAN
  /\ delivered_sequences \subseteq Sequences

EventTypes == events \subseteq Event /\ next_event_id \in Nat

NetworkTypes ==
  /\ queue \in [Nodes -> Seq(Packet)]
  /\ next_available \in [Nodes -> Nat]
  /\ in_flight \in Seq(Flight)
  /\ chaos_drop_remaining \in 0..2

CountTypes == next_packet_id \in Nat /\ stats \in Counters /\ arrived \in Nat

(* Types, plus what the indexing of the code relies on: every index is a   *)
(* node, every scheduled sequence number is below the goal.                *)
TypeOK ==
  SettingTypes /\ ClockTypes /\ TransferTypes /\ EventTypes /\ NetworkTypes /\ CountTypes

QueuedAt(r) == {queue[r][i] : i \in 1..Len(queue[r])}
Flying == {in_flight[i].packet : i \in 1..Len(in_flight)}
NetworkPackets == Flying \union UNION {QueuedAt(r) : r \in Nodes}

PendingSends == {e \in events : e.kind = "send"}
LiveTimers == {e \in events : e.kind = "timeout" /\ e.seq = awaiting_ack /\ e.token = timeout_token}

(* Stop-and-wait (simulation.py:393-404): with k the sequence number being *)
(* transferred, everything below k is delivered and nothing above k was    *)
(* ever sent, although old copies and old acknowledgements still roam the  *)
(* network; an acknowledgement in the network is always for delivered data. *)
StopAndWait ==
  mode = "TCP" =>
    /\ 0..(next_sequence_to_send - 1) \subseteq delivered_sequences
    /\ delivered_sequences \subseteq 0..next_sequence_to_send
    /\ awaiting_ack \in {next_sequence_to_send, NoAck}
    /\ \A e \in PendingSends : e.seq = next_sequence_to_send /\ awaiting_ack = NoAck
    /\ \A p \in NetworkPackets :
         /\ p.seq <= next_sequence_to_send
         /\ p.type = "ack" => p.seq \in delivered_sequences

(* A TCP transfer that declares itself complete while it runs has          *)
(* delivered every packet (simulation.py:400-402), whatever was lost,      *)
(* duplicated, reordered or sent again on the way.                         *)
CompletionMeansDelivered ==
  mode = "TCP" /\ running /\ completed => delivered_sequences = Sequences

(* A running TCP transfer has exactly one callback that will move it on:   *)
(* the next send, or the timer of the awaited packet; a complete one has   *)
(* none.  Two would send twice as much for the rest of the run, none would *)
(* hang it until the time limit (simulation.py:261-268, 393-411).          *)
OneObligation ==
  mode = "TCP" /\ running =>
    Cardinality(PendingSends \union LiveTimers) = (IF completed THEN 0 ELSE 1)

(* Retransmissions are a full timeout apart, so a run can never contain    *)
(* more of them than timeouts fit in it (simulation.py:406-411).           *)
RetransmissionsSpaced ==
  stats.retransmissions * RetransmissionTimeout <= current_time

(* Every packet made is counted as sent once, by _inject_packet or by      *)
(* _inject_duplicate_flight, and is in a queue, on a link, dropped or      *)
(* received, in both modes and whatever duplicates it or drops it          *)
(* (simulation.py:212-245, 282-288, 350-364).                              *)
PacketsConserved ==
  /\ stats.sent = next_packet_id - 1
  /\ stats.sent = stats.dropped + arrived + Len(in_flight)
                  + SumFunction([r \in Nodes |-> Len(queue[r])])

TableInstalled == table = Topology.table

(* Whatever keys were pressed, the routers installed are those of the      *)
(* topology and the SDN setting shown, no packet or timer of an earlier    *)
(* run or mode is left, and no loss burst outlives the chaos mode it began *)
(* in (simulation.py:73-93, 124-162).                                      *)
RunMatchesSettings ==
  /\ TableInstalled
  /\ firewall = (IF use_sdn THEN Topology.firewall ELSE NoRouter)
  /\ \A p \in NetworkPackets : p.proto = mode /\ p.port = traffic_port
  /\ mode = "UDP" => \A e \in events : e.kind = "send"
  /\ ~running /\ ~completed => NetworkPackets = {} /\ events = {}
  /\ chaos_drop_remaining > 0 => conditions.chaos

(* No packet waits at the router of its own destination.                   *)
AwayFromDestination ==
  \A r \in Nodes : \A i \in 1..Len(queue[r]) : queue[r][i].dst # r

(* No KeyError can end the program: every queued packet is on its way to   *)
(* another router, along a link of the current graph (router.py:23-27,     *)
(* graph.py:192-193).                                                      *)
RouteExists ==
  /\ AwayFromDestination
  /\ \A r \in Nodes : \A p \in QueuedAt(r) : <<r, table[r][p.dst]>> \in DOMAIN Topology.delay

(* A run that ends before the time limit has ended cleanly: nothing is     *)
(* left in the network, UDP has sent every sequence number exactly once,   *)
(* TCP has delivered all of them (simulation.py:117-122, 442-444).         *)
EarlyFinishIsClean ==
  completed /\ ~running /\ current_time < MaxRuntime =>
    /\ NetworkPackets = {} /\ events = {}
    /\ mode = "UDP" => stats.sent - stats.duplicates = PacketGoal
    /\ mode = "TCP" => delivered_sequences = Sequences

(* UDP sends each sequence number on schedule and never again: what was    *)
(* injected and what is still scheduled add up to the goal (README.md:46), *)
(* the copies a link made being counted apart (simulation.py:351-352).     *)
UdpSendsOnce ==
  mode = "UDP" /\ udp_sent_all =>
    /\ stats.sent - stats.duplicates + Cardinality(events) = PacketGoal
    /\ stats.retransmissions = 0

(* After completion TCP injects no data: only acknowledgements of late     *)
(* copies, and link duplicates (simulation.py:393-411).                    *)
NoDataAfterCompletion ==
  [][completed /\ completed' =>
       stats'.sent - stats.sent =
         (stats'.acks - stats.acks) + (stats'.duplicates - stats.duplicates)]_vars

(* README.md:48: with the SDN firewall on, data for port 80 is dropped, so *)
(* none is delivered.                                                      *)
FirewallBlocks == use_sdn /\ traffic_port = 80 => delivered_sequences = {}

(* What FirewallBlocks rests on: U is a set of routers around the source   *)
(* that packets for the destination leave through the firewall router only. *)
Cut(U, from, to, tables, rules) ==
  /\ from \in U /\ to \notin U
  /\ \A r \in U \ {rules} : tables[r][to] \in U

FirewallOnEveryWay == \E U \in SUBSET Nodes : Cut(U, source, destination, table, firewall)

(* The times a transfer takes.  A router frees itself once a Turn, a frame *)
(* being at most `step' long; a queue is no longer than the packets of a   *)
(* run.                                                                    *)
Turn(step) == ProcessingDelay + step

Wait(step) == ProcessingDelay + (PacketGoal + MaxDuplicates) * Turn(step)

LastDue == (PacketGoal - 1) * SendInterval

(* From one node to another by the tables, with the longest delays drawn   *)
(* and a packet served before it at every router.                          *)
WayTime(from, to) ==
  LET step == Max(FrameTimes)
      rest[hops \in 0..Cardinality(Nodes)] ==
        [r \in Nodes |->
           IF r = to \/ hops = 0 THEN 0
           ELSE LET next == table[r][to]
                IN  Turn(step) + Max(LinkDelays(Topology.delay[<<r, next>>])) + step + rest[hops - 1][next]]
  IN  rest[Cardinality(Nodes)][from]

Lossless == conditions.loss = 0 /\ ~conditions.chaos /\ ~(use_sdn /\ traffic_port = 80)

(* A TCP run takes a round trip for every packet, one for the copies of    *)
(* the last packet, and the time until its last timer is due.              *)
FitsTheLimit ==
  LET there == WayTime(source, destination)
      back == WayTime(destination, source)
  IN  IF mode = "UDP" THEN LastDue + there < MaxRuntime
      ELSE (PacketGoal + 1) * (there + back) + (PacketGoal - 1) * (AckGap + Max(FrameTimes))
             + RetransmissionTimeout < MaxRuntime

(* Without losses a transfer is over before the time limit cuts it off,    *)
(* provided that its round trips fit into it: slower links do not leave    *)
(* TCP the time (simulation.py:117-122).                                   *)
LosslessFinishesInTime == Lossless /\ FitsTheLimit => current_time < MaxRuntime

(* What UDP runs rest on, under losses too: times that bound how long      *)
(* packets travel on the graph of the preset p.  longest[link] bounds the  *)
(* delays of a link, travel[r][d] the time from the queue of r to node d.  *)
IsTimetable(p, from, to, longest, travel, step) ==
  /\ step \in Nat /\ \A dt \in FrameTimes : dt <= step
  /\ longest \in [DOMAIN p.delay -> Nat] /\ travel \in [Nodes -> [Nodes -> Nat]]
  /\ \A r \in Nodes : \A d \in Nodes \ {r} :
        LET next == p.table[r][d]
        IN  Wait(step) + longest[<<r, next>>] + step + travel[next][d] <= travel[r][d]
  /\ LastDue + travel[from][to] + Wait(step) + 2 * step < MaxRuntime

DelaysWithin(longest) ==
  \A link \in DOMAIN Topology.delay : \A d \in LinkDelays(Topology.delay[link]) : d <= longest[link]

Timetable(longest, travel, step) ==
  IsTimetable(Topology, source, destination, longest, travel, step) /\ DelaysWithin(longest)

(* The transfer runs between the endpoints the current topology declares   *)
(* (graph.py:83-84, 106-107, 131-132; simulation.py:68-69).                *)
EndpointsOfTopology ==
  source = Topology.source /\ destination = Topology.destination

(* A run ends unless the user keeps pressing keys (simulation.py:117-122). *)
EveryRunEnds == []<>(~running) \/ []<><<UserKey>>_vars

(* Without losses a TCP transfer delivers everything, although every timer *)
(* may fire before the acknowledgement can be back.                        *)
TransferCompletes ==
  \/ [](running /\ mode = "TCP" /\ conditions.loss = 0 => <>(delivered_sequences = Sequences))
  \/ []<><<UserKey>>_vars

-----------------------------------------------------------------------------
(* The transfer the TCP mode implements: in order, exactly once, never     *)
(* more than one packet ahead of its acknowledgement.  next_sequence_to_send *)
(* counts the acknowledged packets until the last one is acknowledged.     *)
Acknowledged ==
  IF awaiting_ack = NoAck /\ PendingSends = {} /\ next_sequence_to_send \in delivered_sequences
  THEN next_sequence_to_send + 1
  ELSE next_sequence_to_send

Transfer == INSTANCE ReliableTransfer WITH
  Total <- PacketGoal,
  received <- IF mode = "TCP" THEN Cardinality(delivered_sequences) ELSE 0,
  acknowledged <- IF mode = "TCP" THEN Acknowledged ELSE 0

(* Every step of the simulator is a step of that transfer, or none of it   *)
(* (simulation.py:384-404).                                                *)
ImplementsReliableTransfer == Transfer!Spec
=============================================================================
