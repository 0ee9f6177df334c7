---------------------------- MODULE NetworkProofs ----------------------------
(***************************************************************************)
(* Theorems about the network of SimulationEngine: no packet is lost or    *)
(* handled twice by the bookkeeping of queues and links; where the firewall *)
(* router can stop what it has to stop; and when a UDP run finishes in time. *)
(***************************************************************************)
EXTENDS RunProofs, InductionFacts

USE DEF Sequences, Modes, Ports, Phases, NoAck, NoRouter

-----------------------------------------------------------------------------
(* How many packets the queues and the links hold.                         *)

QueueLengths == [r \in Nodes |-> Len(queue[r])]
Queued == SumFunction(QueueLengths)

LEMMA QueuedType ==
  ASSUME TypeInv
  PROVE  QueueLengths \in [Nodes -> Nat] /\ Queued \in Nat
<1>1. QueueLengths \in [Nodes -> Nat]
  BY DEF QueueLengths, TypeInv, TypeOK, NetworkTypes
<1>2. [QueueLengths EXCEPT ![source] = 0] \in [Nodes -> Nat] /\ source \in Nodes
  BY <1>1 DEF TypeInv, TypeOK, SettingTypes
<1> QED BY <1>1, <1>2, PresetsAssumption, SumChanged DEF Queued

(* One queue changes.                                                      *)
LEMMA QueuedChanges ==
  ASSUME TypeInv, NEW r \in Nodes, NEW q \in Seq(Packet), queue' = [queue EXCEPT ![r] = q]
  PROVE  Queued' = Queued - Len(queue[r]) + Len(q)
<1>1. queue \in [Nodes -> Seq(Packet)] /\ Len(q) \in Nat
  BY DEF TypeInv, TypeOK, NetworkTypes
<1>2. QueueLengths' = [QueueLengths EXCEPT ![r] = Len(q)] /\ QueueLengths[r] = Len(queue[r])
  BY <1>1 DEF QueueLengths
<1>3. QueueLengths \in [Nodes -> Nat] /\ IsFiniteSet(Nodes)
  BY QueuedType, PresetsAssumption
<1>4. SumFunction([QueueLengths EXCEPT ![r] = Len(q)]) = SumFunction(QueueLengths) - QueueLengths[r] + Len(q)
  BY <1>1, <1>3, SumChanged
<1>5. Queued' = SumFunction([QueueLengths EXCEPT ![r] = Len(q)])
  BY <1>2 DEF Queued
<1> QED BY <1>2, <1>4, <1>5 DEF Queued

LEMMA EnqueueQueued ==
  ASSUME TypeInv, NEW r \in Nodes, NEW packet \in Packet, Enqueue(r, packet)
  PROVE  Queued' = Queued + 1
<1>1. queue[r] \in Seq(Packet)
  BY DEF TypeInv, TypeOK, NetworkTypes
<1>2. Append(queue[r], packet) \in Seq(Packet) /\ Len(Append(queue[r], packet)) = Len(queue[r]) + 1
  BY <1>1
<1>3. Queued' = Queued - Len(queue[r]) + (Len(queue[r]) + 1)
  BY <1>2, QueuedChanges DEF Enqueue
<1> QED BY <1>1, <1>3, QueuedType

LEMMA UnchangedQueued == UNCHANGED queue => Queued' = Queued
BY DEF Queued, QueueLengths

LEMMA RemovedLength ==
  ASSUME TypeInv, NEW i \in 1..Len(in_flight), in_flight' = RemoveAt(in_flight, i)
  PROVE  Len(in_flight) \in Nat /\ Len(in_flight') = Len(in_flight) - 1
<1> DEFINE left == SubSeq(in_flight, 1, i - 1)
           right == SubSeq(in_flight, i + 1, Len(in_flight))
<1>1. in_flight \in Seq(Flight) /\ Len(in_flight) \in Nat
  BY DEF TypeInv, TypeOK, NetworkTypes
<1>2. left \in Seq(Flight) /\ Len(left) = i - 1
  BY <1>1
<1>3. right \in Seq(Flight) /\ Len(right) = Len(in_flight) - i
  BY <1>1
<1>4. in_flight' = left \o right
  BY DEF RemoveAt
<1> HIDE DEF left, right
<1>5. Len(left \o right) = Len(left) + Len(right)
  BY <1>2, <1>3
<1> QED BY <1>1, <1>2, <1>3, <1>4, <1>5

(* A launch puts one more packet on the link, or two of which one is made  *)
(* and counted on the way.                                                 *)
LEMMA LaunchLength ==
  ASSUME TypeInv, NEW packet, NEW from, NEW to, LaunchLink(packet, from, to)
  PROVE  \/ /\ Len(in_flight') = Len(in_flight) + 1
            /\ UNCHANGED <<next_packet_id, stats>>
         \/ /\ Len(in_flight') = Len(in_flight) + 2
            /\ next_packet_id' = next_packet_id + 1
            /\ stats' = CountDuplicate(stats)
<1>1. Len(in_flight) \in Nat /\ in_flight \in Seq(Flight)
  BY DEF TypeInv, TypeOK, NetworkTypes
<1>2. \A f, g : Len(Append(in_flight, f)) = Len(in_flight) + 1 /\ Len(in_flight \o <<f, g>>) = Len(in_flight) + 2
  BY <1>1
<1> QED BY <1>2, Zenon DEF LaunchLink

-----------------------------------------------------------------------------
(* PacketsConserved is inductive, given the types.                         *)

Conserved(made, s, arrivals, flying, waiting) ==
  s.sent = made - 1 /\ s.sent = s.dropped + arrivals + flying + waiting

LEMMA ConservedHere == PacketsConserved <=> Conserved(next_packet_id, stats, arrived, Len(in_flight), Queued)
BY DEF PacketsConserved, Conserved, Queued, QueueLengths

(* What the counters say after each of the operations that count.          *)
LEMMA CountersHere ==
  ASSUME NEW s \in Counters
  PROVE  /\ \A again \in BOOLEAN : /\ CountInjected(s, again).sent = s.sent + 1
                                   /\ CountInjected(s, again).dropped = s.dropped
         /\ CountDuplicate(s).sent = s.sent + 1 /\ CountDuplicate(s).dropped = s.dropped
         /\ CountDrop(s).sent = s.sent /\ CountDrop(s).dropped = s.dropped + 1
         /\ \A seq : /\ CountDelivery(s, seq).sent = s.sent
                     /\ CountDelivery(s, seq).dropped = s.dropped
         /\ [s EXCEPT !.acks = @ + 1].sent = s.sent
         /\ [s EXCEPT !.acks = @ + 1].dropped = s.dropped
<1>1. CountSent(s) \in Counters /\ CountSent(s).sent = s.sent + 1 /\ CountSent(s).dropped = s.dropped
  BY DEF Counters, CountSent
<1>2. [CountSent(s) EXCEPT !.retransmissions = @ + 1].sent = s.sent + 1
      /\ [CountSent(s) EXCEPT !.retransmissions = @ + 1].dropped = s.dropped
  BY <1>1 DEF Counters
<1>3. \A again \in BOOLEAN : CountInjected(s, again).sent = s.sent + 1 /\ CountInjected(s, again).dropped = s.dropped
  BY <1>1, <1>2 DEF CountInjected
<1>4. CountDuplicate(s).sent = s.sent + 1 /\ CountDuplicate(s).dropped = s.dropped
  BY <1>1 DEF CountDuplicate, Counters
<1>5. CountDrop(s).sent = s.sent /\ CountDrop(s).dropped = s.dropped + 1
  BY DEF CountDrop, Counters
<1>6. \A seq : CountDelivery(s, seq).sent = s.sent /\ CountDelivery(s, seq).dropped = s.dropped
  BY DEF CountDelivery, Counters
<1>7. [s EXCEPT !.acks = @ + 1].sent = s.sent /\ [s EXCEPT !.acks = @ + 1].dropped = s.dropped
  BY DEF Counters
<1> QED BY <1>3, <1>4, <1>5, <1>6, <1>7

LEMMA UpdateConserves ==
  ASSUME TypeInv, Update, PacketsConserved
  PROVE  PacketsConserved'
<1>1. /\ stats \in Counters /\ next_packet_id \in Nat /\ arrived \in Nat
      /\ in_flight \in Seq(Flight) /\ Len(in_flight) \in Nat /\ Queued \in Nat
      /\ queue \in [Nodes -> Seq(Packet)] /\ SettingTypes
  BY QueuedType DEF TypeInv, TypeOK, CountTypes, NetworkTypes
<1>2. /\ stats.sent \in Nat /\ stats.dropped \in Nat /\ next_packet_id \in Nat /\ arrived \in Nat
      /\ Len(in_flight) \in Nat /\ Queued \in Nat
      /\ stats.sent = next_packet_id - 1
      /\ stats.sent = stats.dropped + arrived + Len(in_flight) + Queued
  BY <1>1, ConservedHere DEF Counters, Conserved
<1> SUFFICES /\ stats'.sent = next_packet_id' - 1
             /\ stats'.sent = stats'.dropped + arrived' + Len(in_flight') + Queued'
  BY DEF PacketsConserved, Queued, QueueLengths
<1>3. ASSUME UNCHANGED <<countVars, queue>>, Len(in_flight') = Len(in_flight)
      PROVE  /\ stats'.sent = next_packet_id' - 1
             /\ stats'.sent = stats'.dropped + arrived' + Len(in_flight') + Queued'
  BY <1>2, <1>3, UnchangedQueued DEF countVars
<1>4. ASSUME NEW e \in events, NEW again \in BOOLEAN, SendData(e, again), UNCHANGED <<in_flight, arrived>>
      PROVE  /\ stats'.sent = next_packet_id' - 1
             /\ stats'.sent = stats'.dropped + arrived' + Len(in_flight') + Queued'
  <2> DEFINE packet == MakePacket("data", source, destination, e.seq)
  <2>1. e.seq \in Sequences /\ source \in Nodes /\ destination \in Nodes
    BY <1>1 DEF TypeInv, TypeOK, EventTypes, Event, SettingTypes
  <2>2. packet \in Packet
    BY <1>1, <2>1, MakePacketType
  <2>3. Queued' = Queued + 1
    BY <1>4, <2>1, <2>2, EnqueueQueued DEF SendData
  <2>4. next_packet_id' = next_packet_id + 1 /\ stats' = CountInjected(stats, again)
    BY <1>4 DEF SendData
  <2>5. stats'.sent = stats.sent + 1 /\ stats'.dropped = stats.dropped
    BY <1>1, <2>4, CountersHere
  <2> QED BY <1>1, <1>2, <1>4, <2>3, <2>4, <2>5
<1>5. CASE \E dt \in FrameTimes : BeginFrame(dt)
  BY <1>3, <1>5 DEF BeginFrame, networkVars
<1>6. CASE RunSend
  <2>1. PICK e \in events : SendData(e, FALSE)
    BY <1>6 DEF RunSend
  <2> QED BY <1>4, <1>6, <2>1 DEF RunSend
<1>7. CASE RunTimeout
  <2>1. PICK e \in events : IF TimerIsStale(e) THEN UNCHANGED <<queue, next_packet_id, stats>> ELSE SendData(e, TRUE)
    BY <1>7 DEF RunTimeout
  <2>2. UNCHANGED <<in_flight, arrived>>
    BY <1>7 DEF RunTimeout
  <2>3. CASE TimerIsStale(e)
    BY <1>3, <2>1, <2>2, <2>3 DEF countVars
  <2>4. CASE ~TimerIsStale(e)
    BY <1>4, <2>1, <2>2, <2>4
  <2> QED BY <2>3, <2>4
<1>8. CASE EventsDone
  BY <1>3, <1>8 DEF EventsDone, networkVars
<1>9. CASE \E r \in Nodes : Dispatch(r)
  <2>1. PICK r \in Nodes : Dispatch(r)
    BY <1>9
  <2> DEFINE packet == Head(queue[r])
  <2>2. queue[r] \in Seq(Packet) /\ queue[r] # <<>>
    BY <1>1, <2>1 DEF Dispatch, FirstReady, Ready
  <2>3. Tail(queue[r]) \in Seq(Packet) /\ Len(Tail(queue[r])) = Len(queue[r]) - 1 /\ Len(queue[r]) \in Nat
    BY <2>2
  <2>4. Queued' = Queued - Len(queue[r]) + (Len(queue[r]) - 1)
    BY <2>1, <2>3, QueuedChanges DEF Dispatch
  <2>5. Queued' = Queued - 1 /\ UNCHANGED arrived
    BY <1>1, <2>1, <2>3, <2>4 DEF Dispatch
  <2>6. CASE Blocked(r, packet)
    <3>1. stats' = CountDrop(stats) /\ UNCHANGED <<in_flight, next_packet_id>>
      BY <2>1, <2>6 DEF Dispatch
    <3>2. stats'.sent = stats.sent /\ stats'.dropped = stats.dropped + 1
      BY <1>1, <3>1, CountersHere
    <3> QED BY <1>2, <2>5, <3>1, <3>2
  <2>7. CASE ~Blocked(r, packet)
    <3>1. LaunchLink(packet, r, table[r][packet.dst])
      BY <2>1, <2>7 DEF Dispatch
    <3>2. \/ Len(in_flight') = Len(in_flight) + 1 /\ UNCHANGED <<next_packet_id, stats>>
          \/ /\ Len(in_flight') = Len(in_flight) + 2
             /\ next_packet_id' = next_packet_id + 1
             /\ stats' = CountDuplicate(stats)
      <4> HIDE DEF packet
      <4> QED BY <3>1, LaunchLength
    <3>3. CountDuplicate(stats).sent = stats.sent + 1 /\ CountDuplicate(stats).dropped = stats.dropped
      BY <1>1, CountersHere
    <3>4. CASE Len(in_flight') = Len(in_flight) + 1 /\ UNCHANGED <<next_packet_id, stats>>
      <4>1. stats'.sent = stats.sent /\ stats'.dropped = stats.dropped /\ next_packet_id' = next_packet_id
        BY <3>4
      <4> QED BY <1>2, <2>5, <3>4, <4>1, SMTT(30)
    <3>5. CASE /\ Len(in_flight') = Len(in_flight) + 2
               /\ next_packet_id' = next_packet_id + 1
               /\ stats' = CountDuplicate(stats)
      <4>1. stats'.sent = stats.sent + 1 /\ stats'.dropped = stats.dropped
        BY <3>3, <3>5
      <4> QED BY <1>2, <2>5, <3>5, <4>1
    <3> QED BY <3>2, <3>4, <3>5
  <2> QED BY <2>6, <2>7
<1>10. CASE DispatchDone
  <2>1. Len(in_flight') = Len(in_flight)
    BY <1>1, <1>10 DEF DispatchDone
  <2> QED BY <1>3, <1>10, <2>1 DEF DispatchDone
<1>11. CASE LoseFlight
  <2>1. PICK i \in 1..Len(in_flight) : in_flight' = RemoveAt(in_flight, i)
    BY <1>11 DEF LoseFlight
  <2>2. stats' = CountDrop(stats) /\ UNCHANGED <<queue, next_packet_id, arrived>>
    BY <1>11 DEF LoseFlight
  <2>3. stats'.sent = stats.sent /\ stats'.dropped = stats.dropped + 1
    BY <1>1, <2>2, CountersHere
  <2>4. Len(in_flight') = Len(in_flight) - 1 /\ Queued' = Queued
    BY <2>1, <2>2, RemovedLength, UnchangedQueued
  <2> QED BY <1>2, <2>2, <2>3, <2>4
<1>12. CASE ArriveAtRouter
  <2>1. PICK i \in 1..Len(in_flight) :
          in_flight' = RemoveAt(in_flight, i) /\ Enqueue(in_flight[i].end, in_flight[i].packet)
    BY <1>12 DEF ArriveAtRouter
  <2>2. in_flight[i] \in Flight
    BY <1>1
  <2>3. in_flight[i].end \in Nodes /\ in_flight[i].packet \in Packet
    BY <2>2 DEF Flight
  <2>4. Queued' = Queued + 1
    BY <2>1, <2>3, EnqueueQueued
  <2>5. /\ stats'.sent = stats.sent /\ stats'.dropped = stats.dropped
        /\ next_packet_id' = next_packet_id /\ arrived' = arrived
    BY <1>12 DEF ArriveAtRouter, countVars
  <2>6. Len(in_flight') = Len(in_flight) - 1
    BY <2>1, RemovedLength
  <2>7. stats.dropped + arrived + Len(in_flight) + Queued
          = stats.dropped + arrived + (Len(in_flight) - 1) + (Queued + 1)
    <3> DEFINE d == stats.dropped
               f == Len(in_flight)
    <3>1. d \in Nat /\ arrived \in Nat /\ f \in Nat /\ Queued \in Nat
      BY <1>2
    <3> HIDE DEF d, f
    <3>2. d + arrived + f + Queued = d + arrived + (f - 1) + (Queued + 1)
      BY <3>1
    <3> QED BY <3>2 DEF d, f
  <2>8. stats'.dropped + arrived' + Len(in_flight') + Queued'
          = stats.dropped + arrived + (Len(in_flight) - 1) + (Queued + 1)
    BY <2>4, <2>5, <2>6, Zenon
  <2> QED BY <1>2, <2>5, <2>7, <2>8, Zenon
<1>13. CASE ArriveData
  <2>1. PICK i \in 1..Len(in_flight) :
          in_flight' = RemoveAt(in_flight, i) /\ OnDataReceived(in_flight[i].packet)
    BY <1>13 DEF ArriveData
  <2>2. in_flight[i] \in Flight
    BY <1>1
  <2>3. in_flight[i].packet \in Packet /\ in_flight[i].packet.seq \in Sequences
    BY <2>2 DEF Flight, Packet
  <2>4. arrived' = arrived + 1 /\ Len(in_flight') = Len(in_flight) - 1
    BY <1>13, <2>1, RemovedLength DEF ArriveData
  <2> DEFINE seq == in_flight[i].packet.seq
  <2>5. CASE mode = "TCP"
    <3>1. Enqueue(destination, MakePacket("ack", destination, source, seq))
          /\ next_packet_id' = next_packet_id + 1
          /\ stats' = [CountInjected(CountDelivery(stats, seq), FALSE) EXCEPT !.acks = @ + 1]
      BY <2>1, <2>5 DEF OnDataReceived
    <3>2. source \in Nodes /\ destination \in Nodes
      BY <1>1 DEF SettingTypes
    <3>3. MakePacket("ack", destination, source, seq) \in Packet
      BY <1>1, <2>3, <3>2, MakePacketType
    <3>4. Queued' = Queued + 1
      BY <3>1, <3>2, <3>3, EnqueueQueued
    <3>5. /\ CountDelivery(stats, seq) \in Counters
          /\ CountDelivery(stats, seq).sent = stats.sent
          /\ CountDelivery(stats, seq).dropped = stats.dropped
      BY <1>1, CounterTypes, CountersHere
    <3>6. /\ CountInjected(CountDelivery(stats, seq), FALSE) \in Counters
          /\ CountInjected(CountDelivery(stats, seq), FALSE).sent = stats.sent + 1
          /\ CountInjected(CountDelivery(stats, seq), FALSE).dropped = stats.dropped
      BY <3>5, CounterTypes, CountersHere
    <3>7. stats'.sent = stats.sent + 1 /\ stats'.dropped = stats.dropped
      BY <3>1, <3>6, CountersHere
    <3>8. next_packet_id' = next_packet_id + 1
      BY <3>1
    <3> QED BY <1>2, <2>4, <3>4, <3>7, <3>8, SMTT(30)
  <2>6. CASE mode # "TCP"
    <3>1. stats' = CountDelivery(stats, seq) /\ UNCHANGED <<queue, next_packet_id>>
      BY <2>1, <2>6 DEF OnDataReceived
    <3>2. stats'.sent = stats.sent /\ stats'.dropped = stats.dropped
      BY <1>1, <3>1, CountersHere
    <3>3. Queued' = Queued
      BY <3>1, UnchangedQueued
    <3>4. next_packet_id' = next_packet_id
      BY <3>1
    <3>5. stats.dropped + arrived + Len(in_flight) + Queued
            = stats.dropped + (arrived + 1) + (Len(in_flight) - 1) + Queued
      <4> DEFINE d == stats.dropped
                 f == Len(in_flight)
      <4>1. d \in Nat /\ arrived \in Nat /\ f \in Nat /\ Queued \in Nat
        BY <1>2
      <4> HIDE DEF d, f
      <4>2. d + arrived + f + Queued = d + (arrived + 1) + (f - 1) + Queued
        BY <4>1
      <4> QED BY <4>2 DEF d, f
    <3>6. stats'.dropped + arrived' + Len(in_flight') + Queued'
            = stats.dropped + (arrived + 1) + (Len(in_flight) - 1) + Queued
      BY <2>4, <3>2, <3>3, Zenon
    <3> QED BY <1>2, <3>2, <3>4, <3>5, <3>6, Zenon
  <2> QED BY <2>5, <2>6
<1>14. CASE ArriveAck
  <2>1. PICK i \in 1..Len(in_flight) : in_flight' = RemoveAt(in_flight, i)
    BY <1>14 DEF ArriveAck
  <2>2. arrived' = arrived + 1 /\ UNCHANGED <<queue, next_packet_id, stats>>
    BY <1>14 DEF ArriveAck
  <2>3. Len(in_flight') = Len(in_flight) - 1 /\ Queued' = Queued
    BY <2>1, <2>2, RemovedLength, UnchangedQueued
  <2>4. /\ stats'.sent = stats.sent /\ stats'.dropped = stats.dropped
        /\ next_packet_id' = next_packet_id /\ arrived' = arrived + 1
    BY <2>2
  <2>5. stats.dropped + arrived + Len(in_flight) + Queued
          = stats.dropped + (arrived + 1) + (Len(in_flight) - 1) + Queued
    <3> DEFINE d == stats.dropped
               f == Len(in_flight)
    <3>1. d \in Nat /\ arrived \in Nat /\ f \in Nat /\ Queued \in Nat
      BY <1>2
    <3> HIDE DEF d, f
    <3>2. d + arrived + f + Queued = d + (arrived + 1) + (f - 1) + Queued
      BY <3>1
    <3> QED BY <3>2 DEF d, f
  <2>6. stats'.dropped + arrived' + Len(in_flight') + Queued'
          = stats.dropped + (arrived + 1) + (Len(in_flight) - 1) + Queued
    BY <2>3, <2>4, Zenon
  <2> QED BY <1>2, <2>4, <2>5, <2>6, Zenon
<1>15. CASE EndFrame
  BY <1>3, <1>15 DEF EndFrame, networkVars
<1> QED BY <1>5, <1>6, <1>7, <1>8, <1>9, <1>10, <1>11, <1>12, <1>13, <1>14, <1>15 DEF Update

LEMMA ClearedIsConserved ==
  ASSUME NEW q, q = [r \in Nodes |-> <<>>]
  PROVE  SumFunction([r \in Nodes |-> Len(q[r])]) = 0
<1>1. [r \in Nodes |-> Len(q[r])] = [r \in Nodes |-> 0]
  OBVIOUS
<1> QED BY <1>1, PresetsAssumption, SumOfZeros

(* No packet is lost and none is handled twice by the queues and the list  *)
(* of flights: each is sent once, and queued, flying, dropped or received. *)
THEOREM PacketsAreConserved == Spec => []PacketsConserved
<1>1. Init => PacketsConserved
  <2> SUFFICES ASSUME Init PROVE PacketsConserved
    OBVIOUS
  <2>1. SumFunction([r \in Nodes |-> Len(queue[r])]) = 0
    BY ClearedIsConserved DEF Init
  <2> QED BY <2>1 DEF Init, PacketsConserved, NewStats
<1>2. TypeInv /\ PacketsConserved /\ [Next]_vars => PacketsConserved'
  <2> SUFFICES ASSUME TypeInv, PacketsConserved, [Next]_vars PROVE PacketsConserved'
    OBVIOUS
  <2>1. CASE UserKey
    <3>1. ClearRun
      BY <2>1, KeyClears
    <3>2. in_flight' = <<>> /\ next_packet_id' = 1 /\ stats' = NewStats /\ arrived' = 0
          /\ queue' = [r \in Nodes |-> <<>>]
      BY <3>1 DEF ClearRun, ClearNetwork
    <3>3. SumFunction([r \in Nodes |-> Len(queue'[r])]) = 0
      BY <3>2, ClearedIsConserved
    <3> QED BY <3>2, <3>3 DEF PacketsConserved, NewStats
  <2>2. CASE UNCHANGED vars
    BY <2>2 DEF vars, networkVars, countVars, PacketsConserved
  <2> QED BY <2>1, <2>2, UpdateConserves DEF Next
<1> QED BY <1>1, <1>2, TypeInvariant, PTL DEF Spec

-----------------------------------------------------------------------------
(* The firewall.  FirewallBlocks is false of two of the program's own      *)
(* topologies; it holds where every way from the source leads through the  *)
(* firewall router.  Then no data packet is ever outside the routers       *)
(* before it.                                                              *)

CutHere(U) == Cut(U, source, destination, table, firewall)

(* Data packets are inside U, and on their way to the destination.         *)
StaysIn(U, place, packet) == packet.type = "data" => place \in U /\ packet.dst = destination

QueuesWithin(U) == \A r \in Nodes : \A i \in 1..Len(queue[r]) : StaysIn(U, r, queue[r][i])
FlightsWithin(U) == \A i \in 1..Len(in_flight) : StaysIn(U, in_flight[i].end, in_flight[i].packet)

FirewallInv ==
  \A U \in SUBSET Nodes :
    CutHere(U) /\ traffic_port = 80 =>
      QueuesWithin(U) /\ FlightsWithin(U) /\ delivered_sequences = {}

LEMMA EnqueueWithin ==
  ASSUME TypeInv, NEW U, QueuesWithin(U), UNCHANGED destination,
         NEW node \in Nodes, NEW packet \in Packet, StaysIn(U, node, packet), Enqueue(node, packet)
  PROVE  QueuesWithin(U)'
<1> SUFFICES ASSUME NEW r \in Nodes, NEW i \in 1..Len(queue'[r]) PROVE StaysIn(U, r, queue'[r][i])
  BY DEF QueuesWithin, StaysIn
<1>1. queue[r] \in Seq(Packet) /\ queue \in [Nodes -> Seq(Packet)]
  BY DEF TypeInv, TypeOK, NetworkTypes
<1>2. CASE r = node
  <2>1. queue'[r] = Append(queue[r], packet)
    BY <1>1, <1>2 DEF Enqueue
  <2>2. \/ i \in 1..Len(queue[r]) /\ queue'[r][i] = queue[r][i]
        \/ queue'[r][i] = packet
    BY <1>1, <2>1
  <2> QED BY <1>2, <2>2 DEF QueuesWithin
<1>3. CASE r # node
  BY <1>1, <1>3 DEF QueuesWithin, Enqueue
<1> QED BY <1>2, <1>3

LEMMA RemovedWithin ==
  ASSUME TypeInv, NEW U, FlightsWithin(U), UNCHANGED destination,
         NEW i \in 1..Len(in_flight), in_flight' = RemoveAt(in_flight, i)
  PROVE  FlightsWithin(U)'
<1>1. in_flight \in Seq(Flight)
  BY DEF TypeInv, TypeOK, NetworkTypes
<1>2. \A j \in 1..Len(in_flight') : \E k \in 1..Len(in_flight) : in_flight'[j] = in_flight[k]
  BY <1>1, RemoveAtProperties
<1> QED BY <1>2 DEF FlightsWithin, StaysIn

(* The firewall router drops data for the blocked port; every other router *)
(* before it sends the packet on to one of them.                           *)
LEMMA DispatchWithin ==
  ASSUME RunInv, NEW U, CutHere(U), traffic_port = 80, QueuesWithin(U), FlightsWithin(U),
         NEW r \in Nodes, Dispatch(r)
  PROVE  QueuesWithin(U)' /\ FlightsWithin(U)'
<1> DEFINE packet == Head(queue[r])
           to == table[r][packet.dst]
<1>1. TypeInv /\ RunMatchesSettings
  BY DEF RunInv, TimerInv, TransferInv
<1>2. /\ queue \in [Nodes -> Seq(Packet)] /\ queue[r] \in Seq(Packet) /\ queue[r] # <<>>
      /\ in_flight \in Seq(Flight)
  BY <1>1 DEF Dispatch, FirstReady, Ready, TypeInv, TypeOK, NetworkTypes
<1>3. packet = queue[r][1] /\ 1 \in 1..Len(queue[r]) /\ packet \in Packet
  BY <1>2
<1>4. StaysIn(U, r, packet) /\ packet.port = 80
  BY <1>1, <1>3, PacketsInNetwork DEF QueuesWithin, RunMatchesSettings
<1>5. UNCHANGED destination
  BY DEF Dispatch, settingVars
<1>6. QueuesWithin(U)'
  <2>1. queue' = [queue EXCEPT ![r] = Tail(queue[r])]
    BY DEF Dispatch
  <2>2. \A i \in 1..Len(Tail(queue[r])) : Tail(queue[r])[i] = queue[r][i + 1] /\ i + 1 \in 1..Len(queue[r])
    BY <1>2
  <2>3. ASSUME NEW q \in Nodes, NEW i \in 1..Len(queue'[q]) PROVE StaysIn(U, q, queue'[q][i])
    <3>1. CASE q = r
      BY <1>2, <2>1, <2>2, <3>1 DEF QueuesWithin
    <3>2. CASE q # r
      BY <1>2, <2>1, <3>2 DEF QueuesWithin
    <3> QED BY <3>1, <3>2
  <2> QED BY <1>5, <2>3 DEF QueuesWithin, StaysIn
<1>7. FlightsWithin(U)'
  <2>1. CASE Blocked(r, packet)
    BY <1>5, <2>1 DEF Dispatch, FlightsWithin, StaysIn
  <2>2. CASE ~Blocked(r, packet)
    <3>1. LaunchLink(packet, r, to)
      BY <2>2 DEF Dispatch
    <3>2. packet.dst \in Nodes \ {r}
      BY <1>1, <1>3 DEF Packet, TypeInv, AwayFromDestination
    <3>3. to \in Nodes /\ Topology.delay[<<r, to>>] \in Nat
      BY <1>1, <3>2, NextHopIsLinked DEF TypeInv
    <3>4. packet.type = "data" => to \in U /\ packet.dst = destination
      BY <1>4, <2>2 DEF Blocked, StaysIn, CutHere, Cut
    <3> HIDE DEF to, packet
    <3>5. PICK new \in Seq(Flight) :
            /\ in_flight' = in_flight \o new
            /\ \A i \in 1..Len(new) : new[i].packet = packet /\ new[i].end = to
      <4>1. Launched(packet, to)
        BY <1>1, <1>3, <3>1, <3>3, LaunchAppends
      <4> QED BY <4>1 DEF Launched
    <3>6. ASSUME NEW i \in 1..Len(in_flight') PROVE StaysIn(U, in_flight'[i].end, in_flight'[i].packet)
      <4>1. CASE i <= Len(in_flight)
        <5>1. i \in 1..Len(in_flight) /\ in_flight'[i] = in_flight[i]
          BY <1>2, <3>5, <4>1
        <5> QED BY <5>1 DEF FlightsWithin
      <4>2. CASE ~(i <= Len(in_flight))
        <5>1. i - Len(in_flight) \in 1..Len(new) /\ in_flight'[i] = new[i - Len(in_flight)]
          BY <1>2, <3>5, <4>2
        <5>2. in_flight'[i].packet = packet /\ in_flight'[i].end = to
          BY <3>5, <5>1
        <5> QED BY <3>4, <5>2 DEF StaysIn
      <4> QED BY <4>1, <4>2
    <3> QED BY <1>5, <3>6 DEF FlightsWithin, StaysIn
  <2> QED BY <2>1, <2>2
<1> QED BY <1>6, <1>7

LEMMA FirewallUpdate == RunInv /\ FirewallInv /\ Update => FirewallInv'
<1> SUFFICES ASSUME RunInv, FirewallInv, Update, NEW U \in SUBSET Nodes, CutHere(U)', traffic_port' = 80
             PROVE  QueuesWithin(U)' /\ FlightsWithin(U)' /\ delivered_sequences' = {}
  BY DEF FirewallInv
<1>1. UNCHANGED settingVars
  BY UpdateKeepsSettings
<1>2. UNCHANGED <<source, destination, table, firewall, traffic_port>>
  BY <1>1 DEF settingVars
<1>3. CutHere(U) /\ traffic_port = 80
  BY <1>2 DEF CutHere
<1>4. QueuesWithin(U) /\ FlightsWithin(U) /\ delivered_sequences = {}
  BY <1>3 DEF FirewallInv
<1>5. TypeInv /\ SettingTypes /\ in_flight \in Seq(Flight)
  BY DEF RunInv, TimerInv, TransferInv, TypeInv, TypeOK, NetworkTypes
<1>6. ASSUME UNCHANGED queue PROVE QueuesWithin(U)'
  BY <1>2, <1>4, <1>6 DEF QueuesWithin, StaysIn
<1>7. ASSUME UNCHANGED in_flight PROVE FlightsWithin(U)'
  BY <1>2, <1>4, <1>7 DEF FlightsWithin, StaysIn
<1>8. ASSUME NEW e \in events, NEW again, SendData(e, again) PROVE QueuesWithin(U)'
  <2> DEFINE packet == MakePacket("data", source, destination, e.seq)
  <2>1. e.seq \in Sequences /\ source \in Nodes /\ destination \in Nodes
    BY <1>5 DEF TypeInv, TypeOK, EventTypes, Event, SettingTypes
  <2>2. packet \in Packet /\ packet.dst = destination
    BY <1>5, <2>1, MakePacketType
  <2>3. StaysIn(U, source, packet)
    BY <1>3, <2>2 DEF StaysIn, CutHere, Cut
  <2> HIDE DEF packet
  <2> QED BY <1>2, <1>4, <1>5, <1>8, <2>1, <2>2, <2>3, EnqueueWithin DEF SendData, packet
<1>9. CASE (\E dt \in FrameTimes : BeginFrame(dt)) \/ EventsDone \/ EndFrame
  BY <1>4, <1>6, <1>7, <1>9 DEF BeginFrame, EventsDone, EndFrame, networkVars, transferVars
<1>10. CASE RunSend \/ RunTimeout
  <2>1. UNCHANGED <<in_flight, delivered_sequences>>
    BY <1>10 DEF RunSend, RunTimeout
  <2>2. UNCHANGED queue \/ \E e \in events, again \in BOOLEAN : SendData(e, again)
    BY <1>10 DEF RunSend, RunTimeout
  <2> QED BY <1>4, <1>6, <1>7, <1>8, <2>1, <2>2
<1>11. CASE \E r \in Nodes : Dispatch(r)
  BY <1>3, <1>4, <1>11, DispatchWithin DEF Dispatch, transferVars
<1>12. CASE DispatchDone
  <2>1. /\ UNCHANGED <<queue, delivered_sequences>>
        /\ in_flight' = [i \in 1..Len(in_flight) |-> [in_flight[i] EXCEPT !.remaining = @ - frame]]
    BY <1>12 DEF DispatchDone, transferVars
  <2>2. Len(in_flight) \in Nat /\ \A i \in 1..Len(in_flight) : in_flight[i] \in Flight
    BY <1>5
  <2>3. /\ Len(in_flight') = Len(in_flight)
        /\ \A i \in 1..Len(in_flight) : in_flight'[i].packet = in_flight[i].packet
                                         /\ in_flight'[i].end = in_flight[i].end
    BY <2>1, <2>2 DEF Flight
  <2>4. FlightsWithin(U)'
    BY <1>2, <1>4, <2>3 DEF FlightsWithin, StaysIn
  <2> QED BY <1>4, <1>6, <2>1, <2>4
<1>13. CASE LoseFlight \/ ArriveAck
  <2>1. PICK i \in 1..Len(in_flight) : in_flight' = RemoveAt(in_flight, i)
    BY <1>13 DEF LoseFlight, ArriveAck
  <2>2. UNCHANGED <<queue, delivered_sequences>>
    BY <1>13 DEF LoseFlight, ArriveAck, transferVars
  <2> QED BY <1>2, <1>4, <1>5, <1>6, <2>1, <2>2, RemovedWithin
<1>14. CASE ArriveAtRouter
  <2>1. PICK i \in 1..Len(in_flight) :
          in_flight' = RemoveAt(in_flight, i) /\ Enqueue(in_flight[i].end, in_flight[i].packet)
    BY <1>14 DEF ArriveAtRouter
  <2>2. in_flight[i] \in Flight
    BY <1>5
  <2>3. in_flight[i].end \in Nodes /\ in_flight[i].packet \in Packet
    BY <2>2 DEF Flight
  <2>4. StaysIn(U, in_flight[i].end, in_flight[i].packet)
    BY <1>4 DEF FlightsWithin
  <2>5. QueuesWithin(U)'
    BY <1>2, <1>4, <1>5, <2>1, <2>3, <2>4, EnqueueWithin
  <2>6. UNCHANGED delivered_sequences
    BY <1>14 DEF ArriveAtRouter, transferVars
  <2> QED BY <1>2, <1>4, <1>5, <2>1, <2>5, <2>6, RemovedWithin
<1>15. CASE ArriveData
  <2>1. PICK i \in 1..Len(in_flight) : in_flight[i].packet.type = "data" /\ AtDestination(in_flight[i])
    BY <1>15 DEF ArriveData
  <2>2. in_flight[i].end \in U /\ in_flight[i].end = destination
    BY <1>4, <2>1 DEF FlightsWithin, StaysIn, AtDestination
  <2> QED BY <1>3, <2>2 DEF CutHere, Cut
<1> QED BY <1>9, <1>10, <1>11, <1>12, <1>13, <1>14, <1>15 DEF Update

(* README.md:48 where it holds: with the firewall router on every way, no  *)
(* data for the blocked port is delivered, whatever keys are pressed.      *)
THEOREM FirewallStopsWhatPassesIt == Spec => [](FirewallOnEveryWay => FirewallBlocks)
<1>1. Init => FirewallInv
  BY DEF Init, FirewallInv, QueuesWithin, FlightsWithin
<1>2. RunInv /\ FirewallInv /\ [Next]_vars => FirewallInv'
  <2> SUFFICES ASSUME RunInv, FirewallInv, [Next]_vars PROVE FirewallInv'
    OBVIOUS
  <2>1. CASE UserKey
    <3>1. ClearRun
      BY <2>1, KeyClears
    <3>2. in_flight' = <<>> /\ queue' = [r \in Nodes |-> <<>>] /\ delivered_sequences' = {}
      BY <3>1 DEF ClearRun, ClearNetwork, ClearTransfer
    <3> QED BY <3>2 DEF FirewallInv, QueuesWithin, FlightsWithin
  <2>2. CASE UNCHANGED vars
    <3>1. UNCHANGED <<settingVars, transferVars, networkVars>>
      BY <2>2 DEF vars
    <3> QED BY <3>1 DEF settingVars, transferVars, networkVars, FirewallInv, QueuesWithin, FlightsWithin,
                  StaysIn, CutHere
  <2> QED BY <2>1, <2>2, FirewallUpdate DEF Next
<1>3. FirewallInv => (FirewallOnEveryWay => FirewallBlocks)
  BY DEF FirewallInv, FirewallOnEveryWay, CutHere, FirewallBlocks
<1> QED BY <1>1, <1>2, <1>3, RunInvariant, PTL DEF Spec

-----------------------------------------------------------------------------
(* A UDP run finishes in time, whatever is lost, delayed or duplicated.    *)
(* Every packet has a place in a schedule: it is injected at most a frame  *)
(* after its callback is due, and has then travel[r][d] left when it enters *)
(* the queue of r.  The schedule speaks of the time up to which the network *)
(* has been moved: the queues and the links are a frame behind the clock   *)
(* until the routers are served and the flights are moved.                 *)

FrameStart == IF phase \in {"events", "dispatch"} THEN current_time - frame ELSE current_time

Latest(travel, step) == LastDue + step + travel[source][destination]

ClockKept(step) == frame <= step /\ frame <= current_time /\ (phase = "idle" => frame = 0)

RoutersKept == \A r \in Nodes : next_available[r] <= current_time + ProcessingDelay

(* The packet at position k of a queue waits for k turns of the router.    *)
InTurn(travel, step, r, k, packet) ==
  LET left == k * Turn(step) + travel[r][packet.dst]
  IN  /\ next_available[r] + left <= Latest(travel, step) + Wait(step)
      /\ FrameStart + left <= Latest(travel, step) + Wait(step)

QueuesKept(travel, step) == \A r \in Nodes : \A k \in 1..Len(queue[r]) : InTurn(travel, step, r, k, queue[r][k])

(* A flight lands at most a frame late.                                    *)
FlightKept(travel, step, flight) ==
  /\ FrameStart + flight.remaining + step + travel[flight.end][flight.packet.dst] <= Latest(travel, step)
  /\ (IF phase = "flights" THEN 0 - frame ELSE 0) <= flight.remaining

FlightsKept(travel, step) == \A i \in 1..Len(in_flight) : FlightKept(travel, step, in_flight[i])

(* No callback is ever late by a frame.                                    *)
EventsKept ==
  \A e \in events :
    (IF phase = "events" THEN current_time - frame ELSE current_time) <= e.due /\ e.due <= LastDue

(* A run has scheduled its sends; while it is not over, something is left  *)
(* to do.                                                                  *)
BusyRun == running => udp_sent_all /\ (phase = "idle" => ~NetworkIdle)

ScheduleKept(travel, step) ==
  /\ ClockKept(step) /\ RoutersKept
  /\ QueuesKept(travel, step) /\ FlightsKept(travel, step) /\ EventsKept
  /\ BusyRun
  /\ current_time <= Latest(travel, step) + Wait(step) + step

ScheduleInv(longest, travel, step) ==
  mode = "UDP" /\ Timetable(longest, travel, step) => ScheduleKept(travel, step)

-----------------------------------------------------------------------------
(* The numbers of a schedule.                                              *)
LEMMA TimetableNumbers ==
  ASSUME NEW p, NEW from \in Nodes, NEW to \in Nodes, NEW longest, NEW travel, NEW step,
         IsTimetable(p, from, to, longest, travel, step)
  PROVE  /\ step \in Nat /\ Turn(step) \in Nat /\ Wait(step) \in Nat /\ LastDue \in Nat
         /\ Turn(step) = ProcessingDelay + step
         /\ LastDue + step + travel[from][to] + Wait(step) + step < MaxRuntime
         /\ ProcessingDelay \in Nat /\ MaxRuntime \in Nat /\ \A dt \in FrameTimes : dt \in Nat /\ dt <= step
         /\ \A r, d \in Nodes : travel[r][d] \in Nat
<1>1. /\ ProcessingDelay \in Nat /\ SendInterval \in Nat /\ MaxRuntime \in Nat
      /\ PacketGoal \in Nat /\ PacketGoal - 1 \in Nat /\ MaxDuplicates \in Nat
      /\ FrameTimes \subseteq Nat
  BY TimingAssumption, SettingsAssumption
<1>2. /\ step \in Nat /\ travel \in [Nodes -> [Nodes -> Nat]]
      /\ \A dt \in FrameTimes : dt <= step
      /\ LastDue + travel[from][to] + Wait(step) + 2 * step < MaxRuntime
  BY DEF IsTimetable
<1>3. \A r, d \in Nodes : travel[r][d] \in Nat
  BY <1>2
<1>4. Turn(step) \in Nat /\ Turn(step) = ProcessingDelay + step
  BY <1>1, <1>2 DEF Turn
<1>5. (PacketGoal + MaxDuplicates) * Turn(step) \in Nat /\ (PacketGoal - 1) * SendInterval \in Nat
  BY <1>1, <1>4
<1>6. Wait(step) \in Nat /\ LastDue \in Nat
  BY <1>1, <1>5 DEF Wait, LastDue
<1>7. LastDue + step + travel[from][to] + Wait(step) + step < MaxRuntime
  BY <1>1, <1>2, <1>3, <1>6
<1> QED BY <1>1, <1>2, <1>3, <1>4, <1>6, <1>7

LEMMA ScheduleNumbers ==
  ASSUME TypeInv, NEW longest, NEW travel, NEW step, Timetable(longest, travel, step)
  PROVE  /\ step \in Nat /\ Turn(step) \in Nat /\ Wait(step) \in Nat /\ LastDue \in Nat
         /\ Latest(travel, step) \in Nat
         /\ source \in Nodes /\ destination \in Nodes
         /\ Latest(travel, step) = LastDue + step + travel[source][destination]
         /\ Turn(step) = ProcessingDelay + step
         /\ Latest(travel, step) + Wait(step) + step < MaxRuntime
         /\ ProcessingDelay \in Nat /\ MaxRuntime \in Nat /\ \A dt \in FrameTimes : dt \in Nat /\ dt <= step
         /\ \A r, d \in Nodes : travel[r][d] \in Nat
<1>1. source \in Nodes /\ destination \in Nodes
  BY DEF TypeInv, TypeOK, SettingTypes
<1>2. IsTimetable(Topology, source, destination, longest, travel, step)
  BY DEF Timetable
<1>3. /\ step \in Nat /\ Turn(step) \in Nat /\ Wait(step) \in Nat /\ LastDue \in Nat
      /\ Turn(step) = ProcessingDelay + step
      /\ LastDue + step + travel[source][destination] + Wait(step) + step < MaxRuntime
      /\ ProcessingDelay \in Nat /\ MaxRuntime \in Nat /\ \A dt \in FrameTimes : dt \in Nat /\ dt <= step
      /\ \A r, d \in Nodes : travel[r][d] \in Nat
  BY <1>1, <1>2, TimetableNumbers
<1>4. Latest(travel, step) \in Nat /\ Latest(travel, step) = LastDue + step + travel[source][destination]
  BY <1>1, <1>3 DEF Latest
<1> QED BY <1>1, <1>3, <1>4

(* A multiple is no less than that of a smaller number.                    *)
LEMMA MultiplesGrow ==
  ASSUME NEW a \in Nat, NEW b \in Nat, a <= b, NEW n \in Nat
  PROVE  a * n \in Nat /\ b * n \in Nat /\ a * n <= b * n
<1>1. (b - a) * n \in Nat
  OBVIOUS
<1>2. b * n = a * n + (b - a) * n
  OBVIOUS
<1> QED BY <1>1, <1>2

LEMMA NextMultiple == \A k, n \in Nat : k * n \in Nat /\ (k + 1) * n = k * n + n
OBVIOUS

(* The schedule speaks of the settings, which a frame leaves alone.        *)
LEMMA ScheduleSettings ==
  ASSUME UNCHANGED settingVars, NEW longest, NEW travel, NEW step
  PROVE  /\ Timetable(longest, travel, step)' <=> Timetable(longest, travel, step)
         /\ Latest(travel, step)' = Latest(travel, step)
         /\ mode' = mode
BY DEF settingVars, Timetable, IsTimetable, DelaysWithin, LinkDelays, Topology, Latest

-----------------------------------------------------------------------------
(* No queue is longer than the packets a UDP run makes.                    *)

LEMMA CountersKeepDuplicates ==
  ASSUME NEW s \in Counters
  PROVE  /\ \A again \in BOOLEAN : CountInjected(s, again).duplicates = s.duplicates
         /\ CountDrop(s).duplicates = s.duplicates
         /\ CountDuplicate(s).duplicates = s.duplicates + 1
         /\ \A seq : CountDelivery(s, seq).duplicates = s.duplicates
         /\ [s EXCEPT !.acks = @ + 1].duplicates = s.duplicates
BY DEF Counters, CountInjected, CountSent, CountDrop, CountDuplicate, CountDelivery

FewDuplicates == stats.duplicates <= MaxDuplicates

LEMMA DuplicatesUpdate ==
  ASSUME TypeInv, FewDuplicates, Update
  PROVE  FewDuplicates'
<1>1. stats \in Counters /\ stats.duplicates \in Nat /\ MaxDuplicates \in Nat
  BY SettingsAssumption DEF TypeInv, TypeOK, CountTypes, Counters
<1>2. ASSUME stats'.duplicates = stats.duplicates PROVE FewDuplicates'
  BY <1>2 DEF FewDuplicates
<1>3. CASE \E e \in events, again \in BOOLEAN : SendData(e, again)
  <2>1. PICK again \in BOOLEAN : stats' = CountInjected(stats, again)
    BY <1>3 DEF SendData
  <2> QED BY <1>1, <1>2, <2>1, CountersKeepDuplicates
<1>4. CASE stats' = stats \/ stats' = CountDrop(stats)
  BY <1>1, <1>2, <1>4, CountersKeepDuplicates
<1>5. CASE stats' = CountDuplicate(stats) /\ stats.duplicates < MaxDuplicates
  <2>1. stats'.duplicates = stats.duplicates + 1
    BY <1>1, <1>5, CountersKeepDuplicates
  <2> QED BY <1>1, <1>5, <2>1 DEF FewDuplicates
<1>6. CASE ArriveData
  <2>1. PICK i \in 1..Len(in_flight) : OnDataReceived(in_flight[i].packet)
    BY <1>6 DEF ArriveData
  <2> DEFINE delivery == CountDelivery(stats, in_flight[i].packet.seq)
  <2>2. delivery \in Counters /\ delivery.duplicates = stats.duplicates
    BY <1>1, CounterTypes, CountersKeepDuplicates
  <2>3. stats' = delivery \/ stats' = [CountInjected(delivery, FALSE) EXCEPT !.acks = @ + 1]
    BY <2>1, Zenon DEF OnDataReceived
  <2> HIDE DEF delivery
  <2>4. /\ CountInjected(delivery, FALSE) \in Counters
        /\ CountInjected(delivery, FALSE).duplicates = stats.duplicates
    BY <2>2, CounterTypes, CountersKeepDuplicates
  <2>5. [CountInjected(delivery, FALSE) EXCEPT !.acks = @ + 1].duplicates = stats.duplicates
    BY <2>4, CountersKeepDuplicates
  <2> QED BY <1>2, <2>2, <2>3, <2>5
<1>7. CASE RunTimeout \/ RunSend
  <2>1. (\E e \in events, again \in BOOLEAN : SendData(e, again)) \/ stats' = stats
    BY <1>7 DEF RunTimeout, RunSend
  <2> QED BY <1>3, <1>4, <2>1
<1>8. CASE \E r \in Nodes : Dispatch(r)
  <2>1. \/ stats' = stats \/ stats' = CountDrop(stats)
        \/ stats' = CountDuplicate(stats) /\ stats.duplicates < MaxDuplicates
    BY <1>8 DEF Dispatch, LaunchLink
  <2> QED BY <1>4, <1>5, <2>1
<1>9. ~RunTimeout /\ ~RunSend /\ ~ArriveData /\ ~(\E r \in Nodes : Dispatch(r)) =>
        stats' = stats \/ stats' = CountDrop(stats)
  BY DEF Update, BeginFrame, EventsDone, DispatchDone, LoseFlight, ArriveAtRouter, ArriveAck, EndFrame, countVars
<1> QED BY <1>4, <1>6, <1>7, <1>8, <1>9

(* The links duplicate no more packets than the bound of the model.        *)
THEOREM DuplicatesAreFew == Spec => []FewDuplicates
<1>1. Init => FewDuplicates
  BY SettingsAssumption DEF Init, FewDuplicates, NewStats
<1>2. TypeInv /\ FewDuplicates /\ [Next]_vars => FewDuplicates'
  <2> SUFFICES ASSUME TypeInv, FewDuplicates, [Next]_vars PROVE FewDuplicates'
    OBVIOUS
  <2>1. CASE UserKey
    <3>1. stats' = NewStats
      BY <2>1, KeyClears DEF ClearRun
    <3> QED BY <3>1, SettingsAssumption DEF FewDuplicates, NewStats
  <2>2. CASE UNCHANGED vars
    BY <2>2 DEF vars, countVars, FewDuplicates
  <2> QED BY <2>1, <2>2, DuplicatesUpdate DEF Next
<1> QED BY <1>1, <1>2, TypeInvariant, PTL DEF Spec

(* The sends of a run and their duplicates are all the packets there are.  *)
NotCrowded == mode = "UDP" /\ udp_sent_all => \A r \in Nodes : Len(queue[r]) <= PacketGoal + MaxDuplicates

(* No queue holds more than all of them.                                   *)
LEMMA OneOfTheSum ==
  ASSUME NEW f \in [Nodes -> Nat], NEW r \in Nodes
  PROVE  f[r] <= SumFunction(f)
<1>1. IsFiniteSet(Nodes)
  BY PresetsAssumption
<1>2. \A v \in Nat : SumFunction(f) \in Nat /\ SumFunction([f EXCEPT ![r] = v]) = SumFunction(f) - f[r] + v
  BY <1>1, SumChanged
<1>3. \A v \in Nat : [f EXCEPT ![r] = v] \in [Nodes -> Nat]
  OBVIOUS
<1>4. \A g \in [Nodes -> Nat] : SumFunction(g) \in Nat
  BY <1>1, SumChanged
<1>5. \A v \in Nat : SumFunction([f EXCEPT ![r] = v]) \in Nat
  BY <1>3, <1>4
<1>6. SumFunction(f) - f[r] + 0 \in Nat /\ SumFunction(f) \in Nat /\ f[r] \in Nat
  BY <1>2, <1>5
<1> QED BY <1>6

LEMMA QueuesFit ==
  RunInv /\ PacketsConserved /\ FewDuplicates => NotCrowded
<1> SUFFICES ASSUME RunInv, PacketsConserved, FewDuplicates, mode = "UDP", udp_sent_all, NEW r \in Nodes
             PROVE  Len(queue[r]) <= PacketGoal + MaxDuplicates
  BY DEF NotCrowded
<1>1. TypeInv
  BY DEF RunInv, TimerInv, TransferInv
<1>2. /\ stats \in Counters /\ arrived \in Nat /\ Len(in_flight) \in Nat
      /\ queue \in [Nodes -> Seq(Packet)] /\ Len(queue[r]) \in Nat
  BY <1>1 DEF TypeInv, TypeOK, CountTypes, NetworkTypes
<1>3. /\ stats.sent \in Nat /\ stats.dropped \in Nat /\ stats.duplicates \in Nat /\ stats.acks \in Nat
  BY <1>2 DEF Counters
<1>4. QueueLengths \in [Nodes -> Nat] /\ Queued \in Nat /\ QueueLengths[r] = Len(queue[r])
  BY <1>1, QueuedType DEF QueueLengths
<1>5. Queued >= Len(queue[r])
  BY <1>4, OneOfTheSum DEF Queued
<1>6. stats.sent = stats.dropped + arrived + Len(in_flight) + Queued
  BY ConservedHere DEF Conserved
<1>7. stats.sent - stats.duplicates <= PacketGoal
  <2>1. Cardinality(events) \in Nat
    BY FS_CardinalityType DEF RunInv, UdpLedger
  <2>2. stats.sent - stats.duplicates - stats.acks + Cardinality(events) = PacketGoal /\ stats.acks = 0
    BY DEF RunInv, UdpLedger, DataSent
  <2> QED BY <1>3, <2>1, <2>2, TimingAssumption
<1>8. stats.sent <= PacketGoal + MaxDuplicates
  BY <1>3, <1>7, TimingAssumption, SettingsAssumption DEF FewDuplicates
<1>9. Queued <= stats.sent
  BY <1>2, <1>3, <1>4, <1>6
<1> QED BY <1>2, <1>3, <1>4, <1>5, <1>8, <1>9, TimingAssumption, SettingsAssumption

-----------------------------------------------------------------------------
(* The steps of a frame keep the schedule.                                 *)

LEMMA FrameStartType ==
  ASSUME TypeInv, NEW step, ClockKept(step)
  PROVE  /\ frame \in Nat /\ current_time \in Nat
         /\ FrameStart \in Nat /\ FrameStart <= current_time /\ current_time <= FrameStart + frame
BY DEF TypeInv, TypeOK, ClockTypes, ClockKept, FrameStart

(* A packet that enters a queue in time is in turn: it waits for at most   *)
(* the rest of the current turn and the packets before it.                 *)
LEMMA EnqueueKeeps ==
  ASSUME TypeInv, NEW longest, NEW travel, NEW step, Timetable(longest, travel, step),
         ClockKept(step), RoutersKept, QueuesKept(travel, step),
         UNCHANGED <<settingVars, phase, frame, current_time, next_available>>,
         NEW node \in Nodes, NEW packet \in Packet, Enqueue(node, packet),
         Len(queue'[node]) <= PacketGoal + MaxDuplicates,
         current_time + travel[node][packet.dst] <= Latest(travel, step)
  PROVE  QueuesKept(travel, step)'
<1>1. queue \in [Nodes -> Seq(Packet)] /\ next_available \in [Nodes -> Nat] /\ packet.dst \in Nodes
  BY DEF TypeInv, TypeOK, NetworkTypes, Packet
<1>2. \A r, k, p : InTurn(travel, step, r, k, p) => InTurn(travel, step, r, k, p)'
  BY ScheduleSettings DEF InTurn, FrameStart
<1> DEFINE end == Len(queue[node]) + 1
<1>3. InTurn(travel, step, node, end, packet)
  <2>1. Len(queue'[node]) = end /\ end \in Nat
    BY <1>1 DEF Enqueue
  <2>2. /\ Turn(step) \in Nat /\ Wait(step) \in Nat /\ ProcessingDelay \in Nat
        /\ Latest(travel, step) \in Nat /\ travel[node][packet.dst] \in Nat
    BY <1>1, ScheduleNumbers
  <2>3. PacketGoal + MaxDuplicates \in Nat
    BY TimingAssumption, SettingsAssumption
  <2> HIDE DEF end
  <2>4. end * Turn(step) \in Nat /\ (PacketGoal + MaxDuplicates) * Turn(step) \in Nat
        /\ end * Turn(step) <= (PacketGoal + MaxDuplicates) * Turn(step)
    BY <2>1, <2>2, <2>3, MultiplesGrow
  <2>5. ProcessingDelay + end * Turn(step) <= Wait(step)
    BY <2>2, <2>4 DEF Wait
  <2>6. next_available[node] \in Nat /\ next_available[node] <= current_time + ProcessingDelay
    BY <1>1 DEF RoutersKept
  <2>7. FrameStart \in Nat /\ FrameStart <= current_time /\ current_time \in Nat
    BY FrameStartType
  <2> DEFINE turns == end * Turn(step)
             left == travel[node][packet.dst]
             last == Latest(travel, step)
             wait == Wait(step)
             free == next_available[node]
  <2>8. /\ turns \in Nat /\ left \in Nat /\ last \in Nat /\ wait \in Nat /\ free \in Nat
        /\ ProcessingDelay + turns <= wait /\ free <= current_time + ProcessingDelay
        /\ current_time + left <= last
    BY <2>2, <2>4, <2>5, <2>6
  <2> HIDE DEF turns, left, last, wait, free
  <2>9. free + (turns + left) <= last + wait /\ FrameStart + (turns + left) <= last + wait
    BY <2>2, <2>7, <2>8
  <2> QED BY <2>9, Zenon DEF InTurn, turns, left, last, wait, free
<1>4. ASSUME NEW r \in Nodes, NEW k \in 1..Len(queue'[r]) PROVE InTurn(travel, step, r, k, queue'[r][k])
  <2>1. CASE r = node
    <3>1. queue'[r] = Append(queue[r], packet)
      BY <1>1, <2>1 DEF Enqueue
    <3>2. \/ k \in 1..Len(queue[r]) /\ queue'[r][k] = queue[r][k]
          \/ k = end /\ queue'[r][k] = packet
      BY <1>1, <2>1, <3>1
    <3> HIDE DEF end
    <3> QED BY <1>3, <2>1, <3>2, Zenon DEF QueuesKept
  <2>2. CASE r # node
    <3>1. queue'[r] = queue[r]
      BY <1>1, <2>2 DEF Enqueue
    <3> QED BY <3>1 DEF QueuesKept
  <2> QED BY <2>1, <2>2
<1> QED BY <1>2, <1>4 DEF QueuesKept

LEMMA UnchangedQueuesKept ==
  ASSUME NEW travel, NEW step, QueuesKept(travel, step),
         UNCHANGED <<settingVars, queue, next_available>>, FrameStart' = FrameStart
  PROVE  QueuesKept(travel, step)'
<1>1. \A r, k, p : InTurn(travel, step, r, k, p) => InTurn(travel, step, r, k, p)'
  BY ScheduleSettings DEF InTurn
<1> QED BY <1>1 DEF QueuesKept

(* The flights after a step are among those before, at the same place in   *)
(* the frame.                                                              *)
LEMMA SameFlightsKept ==
  ASSUME NEW travel, NEW step, FlightsKept(travel, step),
         UNCHANGED settingVars, FrameStart' = FrameStart,
         (IF phase' = "flights" THEN 0 - frame' ELSE 0) = (IF phase = "flights" THEN 0 - frame ELSE 0),
         \A i \in 1..Len(in_flight') : \E j \in 1..Len(in_flight) : in_flight'[i] = in_flight[j]
  PROVE  FlightsKept(travel, step)'
<1>1. \A f : FlightKept(travel, step, f) => FlightKept(travel, step, f)'
  BY ScheduleSettings DEF FlightKept
<1> QED BY <1>1 DEF FlightsKept

(* A flight that lands is in time for the queue of the router it reaches.  *)
LEMMA LandsInTime ==
  ASSUME TypeInv, NEW longest, NEW travel, NEW step, Timetable(longest, travel, step),
         ClockKept(step), FlightsKept(travel, step), phase = "flights", NEW i \in 1..Len(in_flight)
  PROVE  current_time + travel[in_flight[i].end][in_flight[i].packet.dst] <= Latest(travel, step)
<1> DEFINE f == in_flight[i]
<1>1. f \in Flight
  BY DEF TypeInv, TypeOK, NetworkTypes
<1>2. f.remaining \in Int /\ f.end \in Nodes /\ f.packet.dst \in Nodes
  BY <1>1 DEF Flight, Packet
<1>3. travel[f.end][f.packet.dst] \in Nat /\ Latest(travel, step) \in Nat /\ step \in Nat
  BY <1>2, ScheduleNumbers
<1>4. FlightKept(travel, step, f)
  BY DEF FlightsKept
<1>5. frame \in Nat /\ frame <= step /\ current_time \in Nat /\ FrameStart = current_time
  BY FrameStartType DEF ClockKept, FrameStart
<1> HIDE DEF f
<1> DEFINE left == travel[f.end][f.packet.dst]
           last == Latest(travel, step)
<1>6. FrameStart + f.remaining + step + left <= last /\ 0 - frame <= f.remaining
  BY <1>4 DEF FlightKept
<1>7. current_time + f.remaining + step + left <= last /\ left \in Nat /\ last \in Nat /\ step \in Nat
  BY <1>3, <1>5, <1>6
<1> HIDE DEF left, last
<1>8. current_time + left <= last
  BY <1>2, <1>5, <1>6, <1>7
<1> QED BY <1>8 DEF f, left, last

(* The delay of a launched packet is one the timetable allows for.         *)
LEMMA LaunchedDelays ==
  ASSUME TypeInv, NEW packet, NEW from, NEW to, LaunchLink(packet, from, to), NEW i \in 1..Len(in_flight')
  PROVE  \/ i \in 1..Len(in_flight) /\ in_flight'[i] = in_flight[i]
         \/ /\ in_flight'[i].packet = packet /\ in_flight'[i].end = to
            /\ in_flight'[i].remaining \in LinkDelays(Topology.delay[<<from, to>>])
<1> DEFINE delays == LinkDelays(Topology.delay[<<from, to>>])
           flight(d, lost) == [packet |-> packet, start |-> from, end |-> to, remaining |-> d, dropped |-> lost]
           new(f) == f.packet = packet /\ f.end = to /\ f.remaining \in delays
<1>1. in_flight \in Seq(Flight)
  BY DEF TypeInv, TypeOK, NetworkTypes
<1>2. \A d \in delays : \A lost : new(flight(d, lost))
  OBVIOUS
<1>3. \/ \E d1 \in delays : \E o1 : in_flight' = Append(in_flight, flight(d1, o1.lost))
      \/ \E d1, d2 \in delays : \E o1, o2 : in_flight' = in_flight \o <<flight(d1, o1.lost), flight(d2, o2.lost)>>
  BY Zenon DEF LaunchLink
<1> HIDE DEF delays, flight
<1>4. \/ \E f : new(f) /\ in_flight' = Append(in_flight, f)
      \/ \E f, g : new(f) /\ new(g) /\ in_flight' = in_flight \o <<f, g>>
  BY <1>2, <1>3, Zenon
<1> HIDE DEF new
<1>5. CASE \E f : new(f) /\ in_flight' = Append(in_flight, f)
  <2>1. PICK f : new(f) /\ in_flight' = Append(in_flight, f)
    BY <1>5
  <2>2. (i \in 1..Len(in_flight) /\ in_flight'[i] = in_flight[i]) \/ in_flight'[i] = f
    BY <1>1, <2>1
  <2> QED BY <2>1, <2>2 DEF new, delays
<1>6. CASE \E f, g : new(f) /\ new(g) /\ in_flight' = in_flight \o <<f, g>>
  <2>1. PICK f, g : new(f) /\ new(g) /\ in_flight' = in_flight \o <<f, g>>
    BY <1>6
  <2>2. (i \in 1..Len(in_flight) /\ in_flight'[i] = in_flight[i]) \/ in_flight'[i] = f \/ in_flight'[i] = g
    BY <1>1, <2>1
  <2> QED BY <2>1, <2>2 DEF new, delays
<1> QED BY <1>4, <1>5, <1>6

LEMMA DelaysAreTimes ==
  ASSUME SettingTypes, NEW base \in Nat
  PROVE  LinkDelays(base) \subseteq Nat
<1>1. conditions.delay \in Nat
  <2>1. conditions.delay \in MinDelay..MaxDelay
    BY DEF SettingTypes, Conditions
  <2> QED BY <2>1 DEF MinDelay, MaxDelay
<1>2. ASSUME NEW j \in Jitter, NEW s \in Spikes \union {0}
      PROVE  ((base + j) * conditions.delay) \div 10 + s \in Nat
  <2>1. (base + j) * conditions.delay \in Nat /\ s \in Nat
    BY <1>1, TimingAssumption
  <2> QED BY <2>1
<1> QED BY <1>2 DEF LinkDelays

(* A router that serves a packet is free again a turn after the frame      *)
(* began: the packets behind move up, and the one served leaves in time.   *)
LEMMA DispatchKeeps ==
  ASSUME TypeInv, NEW longest, NEW travel, NEW step, Timetable(longest, travel, step),
         ClockKept(step), RoutersKept, QueuesKept(travel, step), FlightsKept(travel, step),
         NEW r \in Nodes, Dispatch(r)
  PROVE  RoutersKept' /\ QueuesKept(travel, step)' /\ FlightsKept(travel, step)'
<1> DEFINE packet == Head(queue[r])
           next == table[r][packet.dst]
           last == Latest(travel, step)
           wait == Wait(step)
           turn == Turn(step)
<1>1. /\ phase = "dispatch" /\ UNCHANGED <<settingVars, phase, frame, current_time>>
      /\ queue' = [queue EXCEPT ![r] = Tail(queue[r])]
      /\ next_available' = [next_available EXCEPT ![r] = current_time + ProcessingDelay]
  BY DEF Dispatch, clockVars
<1>2. /\ queue \in [Nodes -> Seq(Packet)] /\ queue[r] \in Seq(Packet) /\ queue[r] # <<>>
      /\ next_available \in [Nodes -> Nat] /\ in_flight \in Seq(Flight) /\ SettingTypes
  BY DEF Dispatch, FirstReady, Ready, TypeInv, TypeOK, NetworkTypes
<1>3. packet = queue[r][1] /\ 1 \in 1..Len(queue[r]) /\ packet \in Packet
  BY <1>2
<1>4. packet.dst \in Nodes \ {r}
  BY <1>3 DEF Packet, TypeInv, AwayFromDestination
<1>5. /\ FrameStart' = FrameStart /\ FrameStart \in Nat /\ current_time <= FrameStart + frame
      /\ current_time \in Nat /\ frame \in Nat /\ frame <= step
  BY <1>1, FrameStartType DEF FrameStart, ClockKept
<1>6. /\ step \in Nat /\ turn \in Nat /\ wait \in Nat /\ last \in Nat /\ turn = ProcessingDelay + step
      /\ ProcessingDelay \in Nat /\ \A q, d \in Nodes : travel[q][d] \in Nat
  BY ScheduleNumbers
<1> HIDE DEF turn, wait, last
<1>7. current_time + ProcessingDelay <= FrameStart + turn
  BY <1>5, <1>6
<1>8. ASSUME NEW q \in Nodes, NEW k \in Nat, NEW p, InTurn(travel, step, q, k, p)
      PROVE  /\ next_available[q] + (k * turn + travel[q][p.dst]) <= last + wait
             /\ FrameStart + (k * turn + travel[q][p.dst]) <= last + wait
  BY <1>8 DEF InTurn, turn, last, wait
<1>9. RoutersKept'
  <2>1. \A q \in Nodes : next_available'[q] = IF q = r THEN current_time + ProcessingDelay ELSE next_available[q]
    BY <1>1, <1>2
  <2> QED BY <1>1, <1>5, <1>6, <2>1 DEF RoutersKept
<1>10. QueuesKept(travel, step)'
  <2>1. ASSUME NEW q \in Nodes, NEW k \in 1..Len(queue'[q])
        PROVE  /\ next_available'[q] + (k * turn + travel[q][queue'[q][k].dst]) <= last + wait
               /\ FrameStart + (k * turn + travel[q][queue'[q][k].dst]) <= last + wait
    <3>1. CASE q # r
      <4>1. queue'[q] = queue[q] /\ next_available'[q] = next_available[q] /\ k \in Nat
        BY <1>1, <1>2, <3>1
      <4>2. InTurn(travel, step, q, k, queue[q][k])
        BY <4>1 DEF QueuesKept
      <4> QED BY <1>8, <4>1, <4>2
    <3>2. CASE q = r
      <4>1. /\ k \in Nat /\ k + 1 \in 1..Len(queue[r]) /\ queue'[q][k] = queue[r][k + 1]
            /\ next_available'[q] = current_time + ProcessingDelay
            /\ queue[r][k + 1] \in Packet
        BY <1>1, <1>2, <3>2
      <4> DEFINE p == queue[r][k + 1]
                 left == travel[r][p.dst]
                 ahead == k * turn
      <4>2. InTurn(travel, step, r, k + 1, p) /\ left \in Nat /\ ahead \in Nat
        BY <1>6, <4>1 DEF QueuesKept, Packet
      <4>3. FrameStart + ((k + 1) * turn + left) <= last + wait
        BY <1>8, <4>1, <4>2
      <4>4. (k + 1) * turn = ahead + turn
        BY <1>6, <4>1, NextMultiple
      <4> HIDE DEF p, left, ahead
      <4>5. FrameStart + (ahead + turn + left) <= last + wait
        BY <4>3, <4>4
      <4>6. FrameStart \in Nat /\ ahead \in Nat /\ left \in Nat /\ last \in Nat /\ wait \in Nat /\ turn \in Nat
        BY <1>5, <1>6, <4>2
      <4>7. current_time \in Nat /\ ProcessingDelay \in Nat
        BY <1>5, <1>6
      <4>8. current_time + ProcessingDelay + (ahead + left) <= last + wait
        BY <1>7, <4>5, <4>6, <4>7
      <4>9. FrameStart + (ahead + left) <= last + wait
        BY <4>5, <4>6
      <4> QED BY <3>2, <4>1, <4>8, <4>9 DEF p, left, ahead
    <3> QED BY <3>1, <3>2
  <2>2. last' = last
    BY <1>1, ScheduleSettings DEF last
  <2>3. ASSUME NEW q \in Nodes, NEW k \in 1..Len(queue'[q]) PROVE InTurn(travel, step, q, k, queue[q][k])'
    <3>1. /\ next_available'[q] + (k * turn + travel[q][queue'[q][k].dst]) <= last + wait
          /\ FrameStart + (k * turn + travel[q][queue'[q][k].dst]) <= last + wait
      BY <2>1
    <3> QED BY <1>5, <2>2, <3>1 DEF InTurn, turn, last, wait
  <2> QED BY <2>3 DEF QueuesKept
<1>11. FlightsKept(travel, step)'
  <2>1. \A f : FlightKept(travel, step, f) => FlightKept(travel, step, f)'
    BY <1>1, <1>5, ScheduleSettings DEF FlightKept
  <2>2. CASE Blocked(r, packet)
    <3>1. in_flight' = in_flight
      BY <2>2 DEF Dispatch
    <3> QED BY <2>1, <3>1 DEF FlightsKept
  <2>3. CASE ~Blocked(r, packet)
    <3>1. LaunchLink(packet, r, next)
      BY <2>3 DEF Dispatch
    <3> DEFINE link == <<r, next>>
               left == travel[next][packet.dst]
    <3>2. /\ next \in Nodes /\ link \in DOMAIN Topology.delay /\ Topology.delay[link] \in Nat
          /\ next = Topology.table[r][packet.dst]
      BY <1>4, NextHopIsLinked DEF TypeInv, TableInstalled
    <3>3. /\ longest[link] \in Nat /\ left \in Nat
          /\ wait + longest[link] + step + left <= travel[r][packet.dst]
          /\ \A d \in LinkDelays(Topology.delay[link]) : d <= longest[link]
      BY <1>4, <1>6, <3>2 DEF Timetable, IsTimetable, DelaysWithin, wait
    <3>4. LinkDelays(Topology.delay[link]) \subseteq Nat
      BY <1>2, <3>2, DelaysAreTimes
    <3>5. FrameStart + (turn + travel[r][packet.dst]) <= last + wait
      <4>1. InTurn(travel, step, r, 1, packet)
        BY <1>3 DEF QueuesKept
      <4>2. FrameStart + (1 * turn + travel[r][packet.dst]) <= last + wait /\ 1 * turn = turn
        BY <1>6, <1>8, <4>1
      <4> QED BY <4>2
    <3>6. travel[r][packet.dst] \in Nat
      BY <1>4, <1>6
    <3>7. ASSUME NEW f, f.packet = packet, f.end = next, f.remaining \in LinkDelays(Topology.delay[link])
          PROVE  FlightKept(travel, step, f)
      <4> DEFINE rem == f.remaining
                 most == longest[link]
                 all == travel[r][packet.dst]
      <4>1. rem \in Nat /\ rem <= most /\ most \in Nat /\ all \in Nat /\ left \in Nat
            /\ wait + most + step + left <= all /\ FrameStart + (turn + all) <= last + wait
        BY <3>3, <3>4, <3>5, <3>6, <3>7
      <4> HIDE DEF rem, most, all, left
      <4>2. FrameStart + rem + step + left <= last /\ 0 <= rem
        BY <1>5, <1>6, <4>1
      <4> QED BY <1>1, <3>7, <4>2 DEF FlightKept, rem, left, last
    <3> HIDE DEF link, left, packet, next
    <3>8. ASSUME NEW i \in 1..Len(in_flight') PROVE FlightKept(travel, step, in_flight'[i])
      <4>1. \/ i \in 1..Len(in_flight) /\ in_flight'[i] = in_flight[i]
            \/ /\ in_flight'[i].packet = packet /\ in_flight'[i].end = next
               /\ in_flight'[i].remaining \in LinkDelays(Topology.delay[link])
        BY <3>1, LaunchedDelays DEF link
      <4> QED BY <3>7, <4>1 DEF FlightsKept
    <3> QED BY <2>1, <3>8 DEF FlightsKept
  <2> QED BY <2>2, <2>3
<1> QED BY <1>9, <1>10, <1>11

(* No router that could serve a packet is left, so that those waiting wait *)
(* for their router; and the flights are moved by the frame.               *)
LEMMA DispatchDoneKeeps ==
  ASSUME TypeInv, NEW longest, NEW travel, NEW step, Timetable(longest, travel, step),
         ClockKept(step), QueuesKept(travel, step), FlightsKept(travel, step), DispatchDone
  PROVE  QueuesKept(travel, step)' /\ FlightsKept(travel, step)'
<1> DEFINE last == Latest(travel, step)
           wait == Wait(step)
           turn == Turn(step)
<1>1. /\ phase = "dispatch" /\ phase' = "flights"
      /\ UNCHANGED <<settingVars, frame, current_time, queue, next_available>>
      /\ \A r \in Nodes : queue[r] # <<>> => ~(next_available[r] <= current_time)
      /\ in_flight' = [i \in 1..Len(in_flight) |-> [in_flight[i] EXCEPT !.remaining = @ - frame]]
  BY DEF DispatchDone, clockVars, Ready
<1>2. /\ frame \in Nat /\ frame <= step /\ current_time \in Nat /\ FrameStart \in Nat
      /\ FrameStart = current_time - frame /\ FrameStart' = current_time
  BY <1>1, FrameStartType DEF FrameStart, ClockKept
<1>3. /\ step \in Nat /\ turn \in Nat /\ wait \in Nat /\ last \in Nat
      /\ \A q, d \in Nodes : travel[q][d] \in Nat
  BY ScheduleNumbers
<1>4. last' = last
  BY <1>1, ScheduleSettings
<1> HIDE DEF last, wait, turn
<1>5. QueuesKept(travel, step)'
  <2> SUFFICES ASSUME NEW r \in Nodes, NEW k \in 1..Len(queue[r])
               PROVE  InTurn(travel, step, r, k, queue[r][k])'
    BY <1>1 DEF QueuesKept
  <2> DEFINE free == next_available[r]
             left == k * turn + travel[r][queue[r][k].dst]
  <2>1. queue[r] \in Seq(Packet) /\ queue[r] # <<>> /\ queue[r][k] \in Packet /\ free \in Nat /\ k \in Nat
    BY DEF TypeInv, TypeOK, NetworkTypes
  <2>2. left \in Nat
    <3>1. k * turn \in Nat
      BY <1>3, <2>1, NextMultiple
    <3>2. travel[r][queue[r][k].dst] \in Nat
      BY <1>3, <2>1 DEF Packet
    <3> QED BY <3>1, <3>2
  <2>3. free + left <= last + wait
    BY DEF QueuesKept, InTurn, last, wait, turn
  <2>4. ~(free <= current_time)
    BY <1>1, <2>1
  <2> HIDE DEF free, left
  <2>5. current_time + left <= last + wait
    BY <1>2, <1>3, <2>1, <2>2, <2>3, <2>4
  <2> QED BY <1>1, <1>2, <1>4, <2>3, <2>5 DEF InTurn, free, left, last, wait, turn
<1>6. FlightsKept(travel, step)'
  <2>1. Len(in_flight) \in Nat /\ Len(in_flight') = Len(in_flight)
    BY <1>1 DEF TypeInv, TypeOK, NetworkTypes
  <2> SUFFICES ASSUME NEW i \in 1..Len(in_flight) PROVE FlightKept(travel, step, in_flight[i])'
    BY <2>1 DEF FlightsKept
  <2> DEFINE f == in_flight[i]
             g == in_flight'[i]
             left == travel[f.end][f.packet.dst]
             rem == f.remaining
  <2>2. f \in Flight
    BY DEF TypeInv, TypeOK, NetworkTypes
  <2>3. f.end \in Nodes /\ f.packet.dst \in Nodes /\ rem \in Int
    BY <2>2 DEF Flight, Packet
  <2>4. g.remaining = rem - frame /\ g.end = f.end /\ g.packet = f.packet
    BY <1>1, <2>2 DEF Flight
  <2>5. FrameStart + rem + step + left <= last /\ 0 <= rem
    BY <1>1 DEF FlightsKept, FlightKept, last
  <2>6. left \in Nat
    BY <1>3, <2>3
  <2> HIDE DEF f, g, left, rem
  <2>7. current_time + (rem - frame) + step + left <= last /\ 0 - frame <= rem - frame
    BY <1>2, <1>3, <2>3, <2>5, <2>6
  <2>8. FrameStart' + g.remaining + step + travel[g.end][g.packet.dst] <= last' /\ 0 - frame' <= g.remaining
    BY <1>1, <1>2, <1>4, <2>4, <2>7 DEF left
  <2> QED BY <1>1, <2>8 DEF FlightKept, g, last
<1> QED BY <1>5, <1>6

(* Between two frames of a run something is on its way, and it is in time. *)
LEMMA IdleInTime ==
  ASSUME TypeInv, NEW longest, NEW travel, NEW step, Timetable(longest, travel, step),
         ScheduleKept(travel, step), phase = "idle", running
  PROVE  current_time <= Latest(travel, step) + Wait(step)
<1> DEFINE last == Latest(travel, step)
           wait == Wait(step)
<1>1. /\ step \in Nat /\ Turn(step) \in Nat /\ wait \in Nat /\ last \in Nat /\ LastDue \in Nat /\ LastDue <= last
      /\ \A q, d \in Nodes : travel[q][d] \in Nat
  BY ScheduleNumbers
<1>2. FrameStart = current_time /\ current_time \in Nat
  BY DEF FrameStart, TypeInv, TypeOK, ClockTypes
<1>3. (\E r \in Nodes : queue[r] # <<>>) \/ in_flight # <<>> \/ events # {}
  BY DEF ScheduleKept, BusyRun, NetworkIdle
<1> HIDE DEF last, wait
<1>4. CASE \E r \in Nodes : queue[r] # <<>>
  <2>1. PICK r \in Nodes : queue[r] # <<>>
    BY <1>4
  <2> DEFINE left == travel[r][queue[r][1].dst]
             turn == 1 * Turn(step)
  <2>2. queue[r] \in Seq(Packet) /\ 1 \in 1..Len(queue[r]) /\ queue[r][1] \in Packet
    BY <2>1 DEF TypeInv, TypeOK, NetworkTypes
  <2>3. left \in Nat /\ turn \in Nat
    BY <1>1, <2>2 DEF Packet
  <2>4. FrameStart + (turn + left) <= last + wait
    BY <2>2 DEF ScheduleKept, QueuesKept, InTurn, last, wait
  <2> HIDE DEF left, turn
  <2>5. current_time <= last + wait
    BY <1>1, <1>2, <2>3, <2>4
  <2> QED BY <2>5 DEF last, wait
<1>5. CASE in_flight # <<>>
  <2> DEFINE f == in_flight[1]
             left == travel[f.end][f.packet.dst]
             rem == f.remaining
  <2>1. in_flight \in Seq(Flight)
    BY DEF TypeInv, TypeOK, NetworkTypes
  <2>2. 1 \in 1..Len(in_flight) /\ f \in Flight
    BY <1>5, <2>1
  <2>3. left \in Nat /\ rem \in Int
    BY <1>1, <2>2 DEF Flight, Packet
  <2>4. FlightKept(travel, step, f)
    BY <2>2 DEF ScheduleKept, FlightsKept
  <2>5. FrameStart + rem + step + left <= last /\ 0 <= rem
    BY <2>4 DEF FlightKept, last
  <2> HIDE DEF f, left, rem
  <2>6. current_time <= last + wait
    BY <1>1, <1>2, <2>3, <2>5
  <2> QED BY <2>6 DEF last, wait
<1>6. CASE events # {}
  <2>1. PICK e \in events : current_time <= e.due /\ e.due <= LastDue
    BY <1>6 DEF ScheduleKept, EventsKept
  <2>2. e.due \in Nat
    BY TimerFacts
  <2>3. current_time <= last + wait
    BY <1>1, <1>2, <2>1, <2>2
  <2> QED BY <2>3 DEF last, wait
<1> QED BY <1>3, <1>4, <1>5, <1>6

LEMMA ScheduleUpdate ==
  ASSUME RunInv, NEW longest, NEW travel, NEW step, Timetable(longest, travel, step), mode = "UDP",
         ScheduleKept(travel, step), Update, NotCrowded'
  PROVE  ScheduleKept(travel, step)'
<1>1. TypeInv /\ CallbackInv /\ FrameIsRunning /\ (\A e \in events : e.kind = "send")
  BY DEF RunInv, TimerInv, TransferInv, CallbackInv, RunMatchesSettings
<1>2. UNCHANGED settingVars /\ mode' = mode /\ udp_sent_all' = udp_sent_all
  BY UpdateKeepsSettings DEF settingVars
<1>3. running /\ udp_sent_all
  BY <1>1, UpdateRuns DEF ScheduleKept, BusyRun
<1>4. /\ ClockKept(step) /\ RoutersKept /\ QueuesKept(travel, step) /\ FlightsKept(travel, step) /\ EventsKept
      /\ current_time <= Latest(travel, step) + Wait(step) + step
  BY DEF ScheduleKept
<1>5. /\ step \in Nat /\ Turn(step) \in Nat /\ Wait(step) \in Nat /\ Latest(travel, step) \in Nat /\ LastDue \in Nat
      /\ source \in Nodes /\ destination \in Nodes /\ travel[source][destination] \in Nat
      /\ Latest(travel, step) = LastDue + step + travel[source][destination]
      /\ ProcessingDelay \in Nat /\ \A dt \in FrameTimes : dt \in Nat /\ dt <= step
  BY <1>1, ScheduleNumbers
<1>6. Latest(travel, step)' = Latest(travel, step) /\ \A e \in events : e.due \in Nat
  BY <1>1, <1>2, ScheduleSettings, TimerFacts
<1>7. \A r \in Nodes : Len(queue'[r]) <= PacketGoal + MaxDuplicates
  BY <1>2, <1>3 DEF NotCrowded
<1>8. /\ frame \in Nat /\ current_time \in Nat /\ FrameStart \in Nat
      /\ in_flight \in Seq(Flight) /\ next_available \in [Nodes -> Nat]
  BY <1>1, <1>4, FrameStartType DEF TypeInv, TypeOK, NetworkTypes
<1>9. events' \subseteq events
  BY <1>1, UdpEvents
(* In the middle of a frame the clock stands still.                        *)
<1>10. ASSUME UNCHANGED <<phase, frame, current_time>>, phase # "idle",
              RoutersKept', QueuesKept(travel, step)', FlightsKept(travel, step)'
       PROVE  ScheduleKept(travel, step)'
  <2>1. ClockKept(step)' /\ EventsKept'
    BY <1>4, <1>9, <1>10 DEF ClockKept, EventsKept
  <2>2. BusyRun'
    BY <1>2, <1>3, <1>10 DEF BusyRun
  <2>3. (current_time <= Latest(travel, step) + Wait(step) + step)'
    BY <1>4, <1>6, <1>10
  <2> QED BY <1>10, <2>1, <2>2, <2>3 DEF ScheduleKept
<1>11. ASSUME UNCHANGED next_available, current_time' \in Nat, current_time <= current_time' PROVE RoutersKept'
  BY <1>4, <1>5, <1>8, <1>11, SMTT(30) DEF RoutersKept
<1>12. ASSUME UNCHANGED <<phase, frame, current_time, in_flight>> PROVE FlightsKept(travel, step)'
  BY <1>2, <1>4, <1>12, SameFlightsKept DEF FrameStart
<1>13. CASE \E dt \in FrameTimes : BeginFrame(dt)
  <2>1. PICK dt \in FrameTimes : BeginFrame(dt)
    BY <1>13
  <2>2. /\ phase = "idle" /\ phase' = "events" /\ frame' = dt /\ current_time' = current_time + dt
        /\ UNCHANGED <<queue, next_available, in_flight, events, running>>
    BY <2>1 DEF BeginFrame, networkVars, eventVars
  <2>3. dt \in Nat /\ dt <= step
    BY <1>5
  <2>4. FrameStart' = FrameStart /\ FrameStart = current_time
    BY <1>8, <2>2, <2>3 DEF FrameStart
  <2>5. ClockKept(step)' /\ BusyRun'
    BY <1>2, <1>3, <1>8, <2>2, <2>3 DEF ClockKept, BusyRun
  <2>6. RoutersKept'
    BY <1>8, <1>11, <2>2, <2>3
  <2>7. QueuesKept(travel, step)'
    BY <1>2, <1>4, <2>2, <2>4, UnchangedQueuesKept
  <2>8. FlightsKept(travel, step)'
    BY <1>2, <1>4, <2>2, <2>4, SameFlightsKept
  <2>9. EventsKept'
    BY <1>4, <1>6, <1>8, <2>2, <2>3 DEF EventsKept
  <2>10. current_time <= Latest(travel, step) + Wait(step)
    BY <1>1, <1>3, <2>2, IdleInTime
  <2>11. (current_time <= Latest(travel, step) + Wait(step) + step)'
    <3>1. current_time' <= Latest(travel, step) + Wait(step) + step
      BY <1>5, <1>8, <2>2, <2>3, <2>10
    <3> QED BY <1>6, <3>1
  <2> QED BY <2>5, <2>6, <2>7, <2>8, <2>9, <2>11 DEF ScheduleKept
<1>14. CASE RunSend
  <2>1. PICK e \in events : FirstDue(e) /\ SendData(e, FALSE)
    BY <1>14 DEF RunSend
  <2>2. phase = "events" /\ UNCHANGED <<phase, frame, current_time, next_available, in_flight>>
    BY <1>14 DEF RunSend, clockVars
  <2> DEFINE packet == MakePacket("data", source, destination, e.seq)
  <2>3. packet \in Packet /\ packet.dst = destination
    <3>1. e.seq \in Sequences /\ SettingTypes
      BY <1>1 DEF TypeInv, TypeOK, EventTypes, Event
    <3> QED BY <1>5, <3>1, MakePacketType
  <2>4. Enqueue(source, packet)
    BY <2>1 DEF SendData
  <2>5. current_time - frame <= e.due /\ e.due <= LastDue /\ e.due \in Nat
    BY <1>4, <1>6, <2>2 DEF EventsKept
  <2>6. frame <= step
    BY <1>4 DEF ClockKept
  <2>7. current_time + travel[source][packet.dst] <= Latest(travel, step)
    <3>1. current_time + travel[source][destination] <= Latest(travel, step)
      BY <1>5, <1>8, <2>5, <2>6, SMTT(30)
    <3> QED BY <2>3, <3>1
  <2> HIDE DEF packet
  <2>8. QueuesKept(travel, step)'
    BY <1>1, <1>2, <1>4, <1>5, <1>7, <2>2, <2>3, <2>4, <2>7, EnqueueKeeps
  <2> QED BY <1>8, <1>10, <1>11, <1>12, <2>2, <2>8
<1>15. CASE RunTimeout
  BY <1>1, <1>15 DEF RunTimeout
<1>16. CASE EventsDone
  <2>1. /\ phase = "events" /\ phase' = "dispatch" /\ (\A e \in events : ~(e.due <= current_time))
        /\ UNCHANGED <<frame, current_time, queue, next_available, in_flight, running>>
    BY <1>16 DEF EventsDone, clockVars, networkVars, DueEvents
  <2>2. FrameStart' = FrameStart
    BY <2>1 DEF FrameStart
  <2>3. ClockKept(step)' /\ BusyRun'
    BY <1>2, <1>3, <1>4, <2>1 DEF ClockKept, BusyRun
  <2>4. RoutersKept'
    BY <1>8, <1>11, <2>1
  <2>5. QueuesKept(travel, step)' /\ FlightsKept(travel, step)'
    BY <1>2, <1>4, <2>1, <2>2, UnchangedQueuesKept, SameFlightsKept
  <2>6. EventsKept'
    BY <1>4, <1>6, <1>8, <1>9, <2>1 DEF EventsKept
  <2>7. (current_time <= Latest(travel, step) + Wait(step) + step)'
    BY <1>4, <1>6, <2>1
  <2> QED BY <2>3, <2>4, <2>5, <2>6, <2>7 DEF ScheduleKept
<1>17. CASE \E r \in Nodes : Dispatch(r)
  <2>1. PICK r \in Nodes : Dispatch(r)
    BY <1>17
  <2>2. phase = "dispatch" /\ UNCHANGED <<phase, frame, current_time>>
    BY <2>1 DEF Dispatch, clockVars
  <2>3. RoutersKept' /\ QueuesKept(travel, step)' /\ FlightsKept(travel, step)'
    BY <1>1, <1>4, <2>1, DispatchKeeps
  <2> QED BY <1>10, <2>2, <2>3
<1>18. CASE DispatchDone
  <2>1. /\ phase = "dispatch" /\ phase' = "flights"
        /\ UNCHANGED <<frame, current_time, next_available, events, running>>
    BY <1>18 DEF DispatchDone, clockVars, eventVars
  <2>2. QueuesKept(travel, step)' /\ FlightsKept(travel, step)'
    BY <1>1, <1>4, <1>18, DispatchDoneKeeps
  <2>3. ClockKept(step)' /\ BusyRun' /\ EventsKept'
    BY <1>2, <1>3, <1>4, <2>1 DEF ClockKept, BusyRun, EventsKept
  <2>4. RoutersKept'
    BY <1>8, <1>11, <2>1
  <2>5. (current_time <= Latest(travel, step) + Wait(step) + step)'
    BY <1>4, <1>6, <2>1
  <2> QED BY <2>2, <2>3, <2>4, <2>5 DEF ScheduleKept
<1>19. CASE LoseFlight \/ ArriveAtRouter \/ ArriveData \/ ArriveAck
  <2>1. phase = "flights" /\ UNCHANGED <<phase, frame, current_time, next_available>>
    BY <1>19 DEF LoseFlight, ArriveAtRouter, ArriveData, ArriveAck, clockVars
  <2>2. PICK i \in 1..Len(in_flight) :
          /\ in_flight' = RemoveAt(in_flight, i)
          /\ UNCHANGED queue \/ Enqueue(in_flight[i].end, in_flight[i].packet)
    <3>1. CASE LoseFlight \/ ArriveAtRouter \/ ArriveAck
      BY <3>1 DEF LoseFlight, ArriveAtRouter, ArriveAck
    <3>2. CASE ArriveData
      <4>1. PICK i \in 1..Len(in_flight) : in_flight' = RemoveAt(in_flight, i) /\ OnDataReceived(in_flight[i].packet)
        BY <3>2 DEF ArriveData
      <4>2. UNCHANGED queue
        BY <4>1 DEF OnDataReceived
      <4> QED BY <4>1, <4>2
    <3> QED BY <1>19, <3>1, <3>2
  <2>3. FrameStart' = FrameStart
    BY <2>1 DEF FrameStart
  <2>4. FlightsKept(travel, step)'
    <3>1. \A j \in 1..Len(in_flight') : \E k \in 1..Len(in_flight) : in_flight'[j] = in_flight[k]
      BY <1>8, <2>2, RemoveAtProperties
    <3> QED BY <1>2, <1>4, <2>1, <2>3, <3>1, SameFlightsKept
  <2>5. QueuesKept(travel, step)'
    <3>1. in_flight[i] \in Flight
      BY <1>8
    <3>2. in_flight[i].end \in Nodes /\ in_flight[i].packet \in Packet
      BY <3>1 DEF Flight
    <3>3. current_time + travel[in_flight[i].end][in_flight[i].packet.dst] <= Latest(travel, step)
      BY <1>1, <1>4, <2>1, LandsInTime
    <3>4. CASE UNCHANGED queue
      BY <1>2, <1>4, <2>1, <2>3, <3>4, UnchangedQueuesKept
    <3>5. CASE Enqueue(in_flight[i].end, in_flight[i].packet)
      BY <1>1, <1>2, <1>4, <1>7, <2>1, <3>2, <3>3, <3>5, EnqueueKeeps
    <3> QED BY <2>2, <3>4, <3>5
  <2> QED BY <1>8, <1>10, <1>11, <2>1, <2>4, <2>5
<1>20. CASE EndFrame
  <2>1. /\ phase = "flights" /\ phase' = "idle" /\ frame' = 0
        /\ UNCHANGED <<current_time, queue, next_available, in_flight, events>>
        /\ \A i \in 1..Len(in_flight) : ~(in_flight[i].remaining <= 0)
        /\ TransferOver \/ OutOfTime => running' = FALSE
    BY <1>20 DEF EndFrame, networkVars, eventVars, Landed
  <2>2. FrameStart' = FrameStart
    BY <2>1 DEF FrameStart
  <2>3. ClockKept(step)'
    BY <1>5, <1>8, <2>1 DEF ClockKept
  <2>4. BusyRun'
    <3>1. NetworkIdle' <=> NetworkIdle
      BY <2>1 DEF NetworkIdle
    <3>2. running' => ~NetworkIdle
      BY <1>3, <2>1 DEF TransferOver
    <3> QED BY <1>2, <1>3, <3>1, <3>2 DEF BusyRun
  <2>5. RoutersKept'
    BY <1>8, <1>11, <2>1
  <2>6. QueuesKept(travel, step)'
    BY <1>2, <1>4, <2>1, <2>2, UnchangedQueuesKept
  <2>7. FlightsKept(travel, step)'
    <3>1. ASSUME NEW i \in 1..Len(in_flight) PROVE FlightKept(travel, step, in_flight[i])'
      <4>1. in_flight[i].remaining \in Int
        <5>1. in_flight[i] \in Flight
          BY <1>8
        <5> QED BY <5>1 DEF Flight
      <4>2. FlightKept(travel, step, in_flight[i])
        BY <1>4 DEF FlightsKept
      <4> QED BY <1>6, <2>1, <2>2, <4>1, <4>2 DEF FlightKept
    <3> QED BY <2>1, <3>1 DEF FlightsKept
  <2>8. EventsKept'
    BY <1>4, <2>1 DEF EventsKept
  <2>9. (current_time <= Latest(travel, step) + Wait(step) + step)'
    BY <1>4, <1>6, <2>1
  <2> QED BY <2>3, <2>4, <2>5, <2>6, <2>7, <2>8, <2>9 DEF ScheduleKept
<1> QED BY <1>13, <1>14, <1>15, <1>16, <1>17, <1>18, <1>19, <1>20 DEF Update

(* A key starts a run at time zero with every send on schedule, or none.   *)
LEMMA ScheduleKey ==
  ASSUME TypeInv', phase = "idle" => frame = 0, UserKey,
         NEW longest, NEW travel, NEW step, Timetable(longest, travel, step)', mode' = "UDP"
  PROVE  ScheduleKept(travel, step)'
<1>1. /\ phase' = "idle" /\ frame' = 0 /\ current_time' = 0 /\ \A r \in Nodes : next_available'[r] = 0
      /\ in_flight' = <<>> /\ \A r \in Nodes : queue'[r] = <<>>
  BY KeyIsResetOrStart, KeyClears DEF ClearRun, ClearNetwork
<1>2. /\ step \in Nat /\ ProcessingDelay \in Nat /\ LastDue \in Nat
      /\ Wait(step) \in Nat /\ travel[source'][destination'] \in Nat
  <2>1. source' \in Nodes /\ destination' \in Nodes
    BY DEF TypeInv, TypeOK, SettingTypes
  <2>2. IsTimetable(Topology', source', destination', longest, travel, step)
    BY DEF Timetable
  <2> QED BY <2>1, <2>2, TimetableNumbers
<1>3. ClockKept(step)' /\ RoutersKept' /\ QueuesKept(travel, step)' /\ FlightsKept(travel, step)'
  BY <1>1, <1>2 DEF ClockKept, RoutersKept, QueuesKept, FlightsKept
<1>4. (current_time <= Latest(travel, step) + Wait(step) + step)'
  BY <1>1, <1>2 DEF Latest
<1>5. CASE StartRun
  <2>1. mode = "UDP" /\ udp_sent_all' = TRUE /\ events' = {FirstSend(seq) : seq \in Sequences}
    BY <1>5 DEF StartRun, settingVars, FirstSequences
  <2>2. ASSUME NEW e \in events' PROVE 0 <= e.due /\ e.due <= LastDue
    <3>1. PICK seq \in Sequences : e.due = seq * SendInterval
      BY <2>1, <2>2 DEF FirstSend
    <3>2. seq \in Nat /\ PacketGoal - 1 \in Nat /\ seq <= PacketGoal - 1 /\ SendInterval \in Nat
      BY TimingAssumption
    <3> QED BY <3>1, <3>2, MultiplesGrow DEF LastDue
  <2>3. events' # {}
    BY <2>1, ZeroIsASequence
  <2> QED BY <1>1, <1>3, <1>4, <2>1, <2>2, <2>3 DEF ScheduleKept, EventsKept, BusyRun, NetworkIdle
<1>6. CASE ResetRunState
  <2>1. events' = {} /\ running' = FALSE
    BY <1>6 DEF ResetRunState
  <2> QED BY <1>3, <1>4, <2>1 DEF ScheduleKept, EventsKept, BusyRun
<1> QED BY <1>5, <1>6, KeyIsResetOrStart

LEMMA InitSchedule ==
  ASSUME Init, TypeInv, NEW longest, NEW travel, NEW step, Timetable(longest, travel, step)
  PROVE  ScheduleKept(travel, step)
<1>1. /\ frame = 0 /\ current_time = 0 /\ in_flight = <<>> /\ events = {} /\ running = FALSE
      /\ (\A r \in Nodes : queue[r] = <<>> /\ next_available[r] = 0)
  BY DEF Init
<1> QED BY <1>1, ScheduleNumbers
        DEF ScheduleKept, ClockKept, RoutersKept, QueuesKept, FlightsKept, EventsKept, BusyRun

(* The clock rests between frames, in every mode.                          *)
FrameIsOver == phase = "idle" => frame = 0

LEMMA NextFrameIsOver == FrameIsOver /\ [Next]_vars => FrameIsOver'
<1> SUFFICES ASSUME FrameIsOver, [Next]_vars PROVE FrameIsOver'
  OBVIOUS
<1>1. CASE UserKey
  BY <1>1, KeyClears DEF ClearRun, FrameIsOver
<1>2. CASE Update
  BY <1>2 DEF FrameIsOver, Update, BeginFrame, RunSend, RunTimeout, EventsDone, Dispatch, DispatchDone, LoseFlight,
     ArriveAtRouter, ArriveData, ArriveAck, EndFrame, clockVars
<1>3. CASE UNCHANGED vars
  BY <1>3 DEF vars, clockVars, FrameIsOver
<1> QED BY <1>1, <1>2, <1>3 DEF Next

(* Where there is a timetable, a UDP run never reaches the time limit: it  *)
(* is over when the last packet is, whatever was lost, duplicated, delayed *)
(* or queued on the way, and whatever keys are pressed between two frames. *)
THEOREM UdpRunsFinishInTime ==
  ASSUME NEW longest, NEW travel, NEW step
  PROVE  Spec => [](mode = "UDP" /\ Timetable(longest, travel, step) => current_time < MaxRuntime)
<1> DEFINE SI == ScheduleInv(longest, travel, step)
<1>1. Init => SI /\ FrameIsOver
  <2> SUFFICES ASSUME Init PROVE SI /\ FrameIsOver
    OBVIOUS
  <2>1. TypeInv
    BY InitType
  <2> QED BY <2>1, InitSchedule DEF ScheduleInv, FrameIsOver, Init
<1>2. RunInv /\ RunInv' /\ NotCrowded' /\ FrameIsOver /\ SI /\ [Next]_vars => SI' /\ FrameIsOver'
  <2> SUFFICES ASSUME RunInv, RunInv', NotCrowded', FrameIsOver, SI, [Next]_vars,
                      mode' = "UDP", Timetable(longest, travel, step)'
               PROVE  ScheduleKept(travel, step)'
    BY NextFrameIsOver DEF ScheduleInv
  <2>1. CASE UserKey
    <3>1. TypeInv'
      BY DEF RunInv, TimerInv, TransferInv
    <3> QED BY <2>1, <3>1, ScheduleKey DEF FrameIsOver
  <2>2. CASE Update
    <3>1. UNCHANGED settingVars
      BY <2>2, UpdateKeepsSettings
    <3>2. mode = "UDP" /\ Timetable(longest, travel, step)
      BY <3>1, ScheduleSettings
    <3>3. ScheduleKept(travel, step)
      BY <3>2 DEF ScheduleInv
    <3> QED BY <2>2, <3>2, <3>3, ScheduleUpdate
  <2>3. CASE UNCHANGED vars
    <3>1. UNCHANGED <<settingVars, phase, clockVars, transferVars, eventVars, networkVars>>
      BY <2>3 DEF vars
    <3>2. mode = "UDP" /\ Timetable(longest, travel, step) /\ Latest(travel, step)' = Latest(travel, step)
      BY <3>1, ScheduleSettings
    <3>3. ScheduleKept(travel, step)
      BY <3>2 DEF ScheduleInv
    <3>4. /\ UNCHANGED <<phase, frame, current_time, running, udp_sent_all, events, queue, next_available, in_flight>>
          /\ FrameStart' = FrameStart
      BY <3>1 DEF clockVars, transferVars, eventVars, networkVars, FrameStart
    <3>5. QueuesKept(travel, step)' /\ FlightsKept(travel, step)'
      BY <3>1, <3>3, <3>4, UnchangedQueuesKept, SameFlightsKept DEF ScheduleKept
    <3> QED BY <3>2, <3>3, <3>4, <3>5 DEF ScheduleKept, ClockKept, RoutersKept, EventsKept, BusyRun, NetworkIdle
  <2> QED BY <2>1, <2>2, <2>3 DEF Next
<1>3. RunInv /\ SI => (mode = "UDP" /\ Timetable(longest, travel, step) => current_time < MaxRuntime)
  <2> SUFFICES ASSUME RunInv, SI, mode = "UDP", Timetable(longest, travel, step) PROVE current_time < MaxRuntime
    OBVIOUS
  <2>1. TypeInv /\ current_time \in Nat
    BY DEF RunInv, TimerInv, TransferInv, TypeInv, TypeOK, ClockTypes
  <2>2. current_time <= Latest(travel, step) + Wait(step) + step
    BY DEF ScheduleInv, ScheduleKept
  <2> QED BY <2>1, <2>2, ScheduleNumbers
<1> HIDE DEF SI
<1> QED BY <1>1, <1>2, <1>3, RunInvariant, PacketsAreConserved, DuplicatesAreFew, QueuesFit, PTL DEF Spec

(* The same of the property the runs check.                                *)
THEOREM UdpLosslessFinishesInTime ==
  ASSUME NEW longest, NEW travel, NEW step
  PROVE  Spec => [](mode = "UDP" /\ Timetable(longest, travel, step) => LosslessFinishesInTime)
<1>1. (mode = "UDP" /\ Timetable(longest, travel, step) => current_time < MaxRuntime)
        => (mode = "UDP" /\ Timetable(longest, travel, step) => LosslessFinishesInTime)
  BY DEF LosslessFinishesInTime
<1> QED BY <1>1, UdpRunsFinishInTime, PTL
=============================================================================
