------------------------------ MODULE RunProofs ------------------------------
(***************************************************************************)
(* Theorems about the callbacks and the runs of SimulationEngine: what is  *)
(* scheduled while a transfer runs, when it is sent again and what a key   *)
(* leaves; what a run starts from, sends and ends with, and that its TCP   *)
(* mode is a reliable transfer.                                            *)
(***************************************************************************)
EXTENDS SimulationEngineProofs, FiniteSetTheorems

Timers == {e \in events : e.kind = "timeout"}

(* Only a running simulation is in the middle of a frame.                  *)
FrameIsRunning == phase # "idle" => running

UdpAwaitsNothing == mode = "UDP" => awaiting_ack = NoAck

(* Every timer has a token of its own, the last one given out or an older. *)
TokensFresh ==
  /\ \A e \in Timers : e.token <= timeout_token
  /\ \A e, f \in Timers : e.token = f.token => e = f

(* A transfer that is not complete has a callback that will move it on.    *)
KeepsGoing == mode = "TCP" /\ running /\ ~completed => PendingSends # {} \/ LiveTimers # {}

(* A complete one has none, and awaits nothing.                            *)
RestsWhenComplete ==
  running /\ completed => mode = "TCP" /\ PendingSends = {} /\ awaiting_ack = NoAck

(* The timer that can still fire is due a timeout later than the last      *)
(* retransmission could be.                                                *)
TimersFar ==
  \A e \in Timers : e.token = timeout_token =>
    e.due >= stats.retransmissions * RetransmissionTimeout + RetransmissionTimeout

CallbackInv ==
  /\ FrameIsRunning /\ UdpAwaitsNothing /\ TokensFresh /\ KeepsGoing /\ RestsWhenComplete
  /\ TimersFar /\ RetransmissionsSpaced

TimerInv == TransferInv /\ CallbackInv

-----------------------------------------------------------------------------
USE DEF Sequences, Modes, Ports, Phases, NoAck, NoRouter

(* The types the proofs below read off the invariant.                      *)
LEMMA TimerFacts ==
  ASSUME TypeInv
  PROVE  /\ events \subseteq Event
         /\ \A e \in events : e.seq \in Sequences /\ e.seq # NoAck /\ e.due \in Nat /\ e.token \in Nat
         /\ timeout_token \in Nat /\ current_time \in Nat /\ stats \in Counters
         /\ stats.retransmissions \in Nat
         /\ RetransmissionTimeout \in Nat
         /\ stats.retransmissions * RetransmissionTimeout \in Nat
         /\ mode \in {"UDP", "TCP"} /\ running \in BOOLEAN /\ completed \in BOOLEAN
<1>1. events \subseteq Event /\ timeout_token \in Nat /\ current_time \in Nat /\ stats \in Counters
      /\ mode \in {"UDP", "TCP"} /\ running \in BOOLEAN /\ completed \in BOOLEAN
  BY DEF TypeInv, TypeOK, EventTypes, TransferTypes, ClockTypes, CountTypes, SettingTypes
<1>2. \A e \in Event : e.seq \in Sequences /\ e.seq # NoAck /\ e.due \in Nat /\ e.token \in Nat
  BY TimingAssumption DEF Event
<1>3. stats.retransmissions \in Nat /\ RetransmissionTimeout \in Nat
  BY <1>1, TimingAssumption DEF Counters
<1>4. stats.retransmissions * RetransmissionTimeout \in Nat
  BY <1>3
<1> QED BY <1>1, <1>2, <1>3, <1>4

(* Steps that leave the callbacks and the transfer alone.                  *)
LEMMA CallbacksUntouched ==
  ASSUME TypeInv, CallbackInv, UNCHANGED <<mode, running, completed, events, awaiting_ack, timeout_token>>,
         phase' # "idle" => running',
         stats'.retransmissions = stats.retransmissions,
         current_time' \in Nat, current_time <= current_time'
  PROVE  CallbackInv'
<1>1. Timers' = Timers /\ PendingSends' = PendingSends /\ LiveTimers' = LiveTimers
  BY DEF Timers, PendingSends, LiveTimers
<1>2. FrameIsRunning' /\ UdpAwaitsNothing' /\ TokensFresh' /\ KeepsGoing' /\ RestsWhenComplete' /\ TimersFar'
  BY <1>1 DEF CallbackInv, FrameIsRunning, UdpAwaitsNothing, TokensFresh, KeepsGoing, RestsWhenComplete, TimersFar
<1>3. RetransmissionsSpaced'
  BY TimerFacts DEF CallbackInv, RetransmissionsSpaced
<1> QED BY <1>2, <1>3 DEF CallbackInv

(* _send_data: in TCP mode the callback it was called by is replaced by    *)
(* the one live timer.  It is sent again only by a timer that was due.     *)
LEMMA SendDataCallbacks ==
  ASSUME TypeInv, CallbackInv, NEW e \in events, NEW retransmission \in BOOLEAN,
         SendData(e, retransmission), e.due <= current_time, ~(running /\ completed),
         retransmission => mode = "TCP" /\ e \in Timers /\ e.token = timeout_token,
         UNCHANGED <<mode, running, completed, phase, current_time>>
  PROVE  CallbackInv'
<1> DEFINE timer == Scheduled("timeout", RetransmissionTimeout, e.seq, timeout_token + 1)
           spaced == stats.retransmissions * RetransmissionTimeout
<1>1. /\ e.seq \in Sequences /\ e.seq # NoAck /\ e.due \in Nat
      /\ timeout_token \in Nat /\ current_time \in Nat /\ RetransmissionTimeout \in Nat
      /\ spaced \in Nat /\ stats.retransmissions \in Nat
      /\ \A f \in Timers : f.token \in Nat
  BY TimerFacts DEF Timers
<1>2. /\ timer.kind = "timeout" /\ timer.seq = e.seq /\ timer.token = timeout_token + 1
      /\ timer.due = current_time + RetransmissionTimeout
  BY DEF Scheduled
<1>3. FrameIsRunning' /\ RestsWhenComplete'
  BY DEF CallbackInv, FrameIsRunning, RestsWhenComplete
<1>4. stats' = CountInjected(stats, retransmission)
  BY DEF SendData
<1>5. CASE mode # "TCP"
  <2>1. ~retransmission
    BY <1>5
  <2>2. events' = events \ {e} /\ UNCHANGED <<awaiting_ack, timeout_token>>
    BY <1>5 DEF SendData
  <2>3. stats'.retransmissions = stats.retransmissions
    BY <1>4, <2>1, TimerFacts DEF CountInjected, CountSent, Counters
  <2>4. Timers' \subseteq Timers
    BY <2>2 DEF Timers
  <2>5. UdpAwaitsNothing' /\ KeepsGoing'
    BY <1>5, <2>2 DEF CallbackInv, UdpAwaitsNothing, KeepsGoing
  <2>6. TokensFresh' /\ TimersFar' /\ RetransmissionsSpaced'
    BY <2>2, <2>3, <2>4 DEF CallbackInv, TokensFresh, TimersFar, RetransmissionsSpaced
  <2> QED BY <1>3, <2>5, <2>6 DEF CallbackInv
<1>6. CASE mode = "TCP"
  <2>1. /\ awaiting_ack' = e.seq /\ timeout_token' = timeout_token + 1
        /\ events' = (events \ {e}) \union {timer}
    BY <1>6 DEF SendData
  <2> HIDE DEF timer
  <2>2. timer \in Timers' /\ Timers' \subseteq Timers \union {timer}
    BY <1>2, <2>1 DEF Timers
  <2>3. \A f \in Timers : f.token <= timeout_token
    BY DEF CallbackInv, TokensFresh
  <2>4. TokensFresh'
    <3>1. \A f \in Timers : f.token < timeout_token + 1
      BY <1>1, <2>3
    <3>2. \A f \in Timers' : f.token <= timeout_token'
      BY <1>1, <1>2, <2>1, <2>2, <3>1
    <3>3. ASSUME NEW f \in Timers', NEW g \in Timers', f.token = g.token PROVE f = g
      <4>1. CASE f \in Timers /\ g \in Timers
        BY <3>3, <4>1 DEF CallbackInv, TokensFresh
      <4>2. CASE f = timer \/ g = timer
        <5>1. f.token = timeout_token + 1 /\ g.token = timeout_token + 1
          BY <1>2, <3>3, <4>2
        <5>2. f \notin Timers /\ g \notin Timers
          BY <1>1, <3>1, <5>1
        <5> QED BY <2>2, <5>2
      <4> QED BY <2>2, <4>1, <4>2
    <3> QED BY <3>2, <3>3 DEF TokensFresh
  <2>5. UdpAwaitsNothing'
    BY <1>6 DEF UdpAwaitsNothing
  <2>6. timer \in LiveTimers'
    BY <1>2, <2>1 DEF LiveTimers
  <2>7. KeepsGoing'
    BY <2>6 DEF KeepsGoing
  <2>8. \A f \in Timers' : f.token = timeout_token' => f = timer
    <3>1. \A f \in Timers : f.token # timeout_token + 1
      BY <1>1, <2>3
    <3> QED BY <2>1, <2>2, <3>1
  <2>9. CASE ~retransmission
    <3>1. stats'.retransmissions = stats.retransmissions
      BY <1>4, <2>9, TimerFacts DEF CountInjected, CountSent, Counters
    <3>2. spaced <= current_time
      BY DEF CallbackInv, RetransmissionsSpaced
    <3>3. RetransmissionsSpaced'
      BY <3>1, <3>2 DEF RetransmissionsSpaced
    <3>4. timer.due >= spaced + RetransmissionTimeout
      BY <1>1, <1>2, <3>2
    <3>5. TimersFar'
      BY <2>8, <3>1, <3>4 DEF TimersFar
    <3> QED BY <1>3, <2>4, <2>5, <2>7, <3>3, <3>5 DEF CallbackInv
  <2>10. CASE retransmission
    <3>1. stats'.retransmissions = stats.retransmissions + 1
      BY <1>4, <2>10, TimerFacts DEF CountInjected, CountSent, Counters
    <3>2. stats'.retransmissions * RetransmissionTimeout = spaced + RetransmissionTimeout
      BY <1>1, <3>1
    <3>3. spaced + RetransmissionTimeout <= e.due
      BY <2>10 DEF CallbackInv, TimersFar
    <3>4. spaced + RetransmissionTimeout <= current_time
      BY <1>1, <3>3
    <3> HIDE DEF spaced
    <3>5. RetransmissionsSpaced'
      BY <3>2, <3>4 DEF RetransmissionsSpaced
    <3>6. timer.due >= (spaced + RetransmissionTimeout) + RetransmissionTimeout
      BY <1>1, <1>2, <3>4
    <3>7. TimersFar'
      BY <2>8, <3>2, <3>6 DEF TimersFar
    <3> QED BY <1>3, <2>4, <2>5, <2>7, <3>5, <3>7 DEF CallbackInv
  <2> QED BY <2>9, <2>10
<1> QED BY <1>5, <1>6

(* The awaited acknowledgement schedules the next send, or completes the   *)
(* transfer: no timer is live any more, and no send is left over.          *)
LEMMA AckCallbacks ==
  ASSUME TransferInv, CallbackInv, ArriveAck
  PROVE  CallbackInv'
<1>1. PICK i \in 1..Len(in_flight) :
        /\ in_flight[i].packet.type = "ack"
        /\ OnAckReceived(in_flight[i].packet)
  BY DEF ArriveAck
<1> DEFINE packet == in_flight[i].packet
<1>2. /\ UNCHANGED <<mode, phase, running, current_time, timeout_token>> /\ stats' = stats
      /\ phase # "idle"
  BY DEF ArriveAck, settingVars
<1>3. TypeInv /\ FrameIsRunning /\ running
  BY <1>2 DEF TransferInv, CallbackInv, FrameIsRunning
<1>4. current_time \in Nat /\ current_time <= current_time'
  BY <1>2, <1>3, TimerFacts
<1>5. CASE ~AnswersAwaited(packet)
  <2>1. UNCHANGED <<awaiting_ack, completed, events>>
    BY <1>1, <1>5 DEF OnAckReceived
  <2> QED BY <1>2, <1>3, <1>4, <2>1, CallbacksUntouched
<1>6. CASE AnswersAwaited(packet)
  <2>1. packet.seq \in Sequences
    <3>1. in_flight[i] \in Flight
      BY <1>3 DEF TypeInv, TypeOK, NetworkTypes
    <3> QED BY <3>1 DEF Flight, Packet
  <2>2. awaiting_ack # NoAck
    BY <1>6, <2>1, TimingAssumption DEF AnswersAwaited
  <2>3. mode = "TCP" /\ ~completed
    BY <1>3, <2>2, TimerFacts DEF CallbackInv, UdpAwaitsNothing, RestsWhenComplete
  <2>4. PendingSends = {}
    BY <2>2, <2>3 DEF TransferInv, StopAndWait
  <2>5. awaiting_ack' = NoAck /\ Timers' = Timers
    <3>1. awaiting_ack' = NoAck
      BY <1>1, <1>6 DEF OnAckReceived
    <3>2. Scheduled("send", AckGap, packet.seq + 1, 0).kind = "send"
      BY DEF Scheduled
    <3>3. events' = events \/ events' = events \union {Scheduled("send", AckGap, packet.seq + 1, 0)}
      BY <1>1, <1>6 DEF OnAckReceived
    <3> QED BY <3>1, <3>2, <3>3 DEF Timers
  <2>6. FrameIsRunning' /\ UdpAwaitsNothing' /\ TokensFresh' /\ TimersFar' /\ RetransmissionsSpaced'
    BY <1>2, <1>3, <2>5 DEF CallbackInv, FrameIsRunning, UdpAwaitsNothing, TokensFresh, TimersFar,
       RetransmissionsSpaced
  <2>7. CASE IsLast(packet.seq)
    <3>1. completed' = TRUE /\ UNCHANGED events
      BY <1>1, <1>6, <2>7 DEF OnAckReceived
    <3>2. KeepsGoing' /\ RestsWhenComplete'
      BY <1>2, <2>3, <2>4, <2>5, <3>1 DEF KeepsGoing, RestsWhenComplete, PendingSends
    <3> QED BY <2>6, <3>2 DEF CallbackInv
  <2>8. CASE ~IsLast(packet.seq)
    <3> DEFINE next == Scheduled("send", AckGap, packet.seq + 1, 0)
    <3>1. events' = events \union {next} /\ UNCHANGED completed
      BY <1>1, <1>6, <2>8 DEF OnAckReceived
    <3>2. next \in PendingSends'
      BY <3>1 DEF PendingSends, Scheduled
    <3>3. KeepsGoing' /\ RestsWhenComplete'
      BY <2>3, <3>1, <3>2 DEF KeepsGoing, RestsWhenComplete
    <3> QED BY <2>6, <3>3 DEF CallbackInv
  <2> QED BY <2>7, <2>8
<1> QED BY <1>5, <1>6

(* A reset leaves no timer, a start one send that moves the transfer on.   *)
LEMMA ClearedCallbacks ==
  ASSUME TypeInv, CallbackInv, ClearRun, phase = "idle", Timers' = {},
         mode' = "TCP" /\ running' => PendingSends' # {}
  PROVE  CallbackInv'
<1>1. /\ awaiting_ack' = NoAck /\ completed' = FALSE /\ phase' = "idle" /\ current_time' = 0
      /\ stats' = NewStats
  BY DEF ClearRun, ClearTransfer
<1>2. stats'.retransmissions * RetransmissionTimeout = 0
  BY <1>1, TimingAssumption DEF NewStats
<1>3. FrameIsRunning' /\ UdpAwaitsNothing' /\ TokensFresh' /\ KeepsGoing' /\ RestsWhenComplete' /\ TimersFar'
  BY <1>1 DEF FrameIsRunning, UdpAwaitsNothing, TokensFresh, KeepsGoing, RestsWhenComplete, TimersFar
<1>4. RetransmissionsSpaced'
  BY <1>1, <1>2 DEF RetransmissionsSpaced
<1> QED BY <1>3, <1>4 DEF CallbackInv

LEMMA InitCallbacks == Init => CallbackInv
<1> SUFFICES ASSUME Init PROVE CallbackInv
  OBVIOUS
<1>1. stats.retransmissions * RetransmissionTimeout = 0
  BY TimingAssumption DEF Init, NewStats
<1>2. Timers = {}
  BY DEF Init, Timers
<1> QED BY <1>1, <1>2 DEF Init, CallbackInv, FrameIsRunning, UdpAwaitsNothing, TokensFresh, KeepsGoing,
        RestsWhenComplete, TimersFar, RetransmissionsSpaced

(* What _should_drop_packet and the links count: no retransmission.        *)
LEMMA CountersKeepRetransmissions ==
  ASSUME NEW s \in Counters
  PROVE  /\ CountDrop(s).retransmissions = s.retransmissions
         /\ CountDuplicate(s).retransmissions = s.retransmissions
         /\ \A seq : CountDelivery(s, seq).retransmissions = s.retransmissions
         /\ \A seq : [CountInjected(CountDelivery(s, seq), FALSE) EXCEPT !.acks = @ + 1].retransmissions
                       = s.retransmissions
<1>1. CountDrop(s).retransmissions = s.retransmissions /\ CountDuplicate(s).retransmissions = s.retransmissions
  BY DEF Counters, CountDrop, CountDuplicate, CountSent
<1>2. \A t \in Counters :
        [CountInjected(t, FALSE) EXCEPT !.acks = @ + 1].retransmissions = t.retransmissions
  BY DEF Counters, CountInjected, CountSent
<1>3. ASSUME NEW seq
      PROVE  CountDelivery(s, seq) \in Counters /\ CountDelivery(s, seq).retransmissions = s.retransmissions
  BY CounterTypes DEF Counters, CountDelivery
<1> QED BY <1>1, <1>2, <1>3

LEMMA UpdateCallbacks == TimerInv /\ Update => CallbackInv'
<1> SUFFICES ASSUME TransferInv, CallbackInv, Update PROVE CallbackInv'
  BY DEF TimerInv
<1>1. TypeInv /\ stats \in Counters /\ current_time \in Nat /\ current_time <= current_time
  <2>1. TypeInv
    BY DEF TransferInv
  <2> QED BY <2>1, TimerFacts
<1>2. ASSUME UNCHANGED <<mode, completed, running, current_time, events, awaiting_ack, timeout_token>>,
             phase # "idle", stats'.retransmissions = stats.retransmissions
      PROVE  CallbackInv'
  <2>1. running
    BY <1>2 DEF CallbackInv, FrameIsRunning
  <2> QED BY <1>1, <1>2, <2>1, CallbacksUntouched
<1>3. CASE \E dt \in FrameTimes : BeginFrame(dt)
  <2>1. PICK dt \in FrameTimes : BeginFrame(dt)
    BY <1>3
  <2>2. dt \in Nat
    BY TimingAssumption
  <2>3. current_time' \in Nat /\ current_time <= current_time'
    BY <1>1, <2>1, <2>2 DEF BeginFrame
  <2>4. UNCHANGED <<mode, running, completed, events, awaiting_ack, timeout_token>> /\ stats' = stats /\ running
    BY <2>1 DEF BeginFrame, settingVars, transferVars, eventVars, countVars
  <2> QED BY <1>1, <2>3, <2>4, CallbacksUntouched
<1>4. CASE RunSend
  <2>1. PICK e \in events : FirstDue(e) /\ e.kind = "send" /\ SendData(e, FALSE)
    BY <1>4 DEF RunSend
  <2>2. e.due <= current_time /\ e \in PendingSends
    BY <2>1 DEF FirstDue, DueEvents, PendingSends
  <2>3. ~(running /\ completed)
    BY <2>2 DEF CallbackInv, RestsWhenComplete
  <2>4. UNCHANGED <<mode, running, completed, phase, current_time>>
    BY <1>4 DEF RunSend, settingVars, clockVars
  <2> QED BY <1>1, <2>1, <2>2, <2>3, <2>4, SendDataCallbacks
<1>5. CASE RunTimeout
  <2>1. PICK e \in events :
          /\ FirstDue(e)
          /\ e.kind = "timeout"
          /\ IF TimerIsStale(e)
             THEN /\ events' = events \ {e}
                  /\ UNCHANGED <<queue, next_packet_id, stats, awaiting_ack, timeout_token, next_event_id>>
             ELSE SendData(e, TRUE)
    BY <1>5 DEF RunTimeout
  <2>2. UNCHANGED <<mode, running, completed, phase, current_time>> /\ phase # "idle"
    BY <1>5 DEF RunTimeout, settingVars, clockVars
  <2>3. e.due <= current_time /\ e \in Timers /\ running
    BY <2>1, <2>2 DEF FirstDue, DueEvents, Timers, CallbackInv, FrameIsRunning
  <2>4. CASE TimerIsStale(e)
    <3>1. events' = events \ {e} /\ UNCHANGED <<stats, awaiting_ack, timeout_token>>
      BY <2>1, <2>4
    <3>2. Timers' \subseteq Timers /\ PendingSends' = PendingSends
      BY <2>1, <3>1 DEF Timers, PendingSends
    <3>3. KeepsGoing'
      <4> SUFFICES ASSUME mode = "TCP", ~completed, PendingSends = {} PROVE LiveTimers' # {}
        BY <2>2, <3>2 DEF KeepsGoing
      <4>1. PICK t \in LiveTimers : TRUE
        BY <2>3 DEF CallbackInv, KeepsGoing
      <4>2. t # e
        BY <2>3, <2>4, <4>1 DEF LiveTimers, TimerIsStale
      <4>3. t \in LiveTimers'
        BY <3>1, <4>1, <4>2 DEF LiveTimers
      <4> QED BY <4>3
    <3>4. FrameIsRunning' /\ UdpAwaitsNothing' /\ RestsWhenComplete'
      BY <2>2, <3>1, <3>2 DEF CallbackInv, FrameIsRunning, UdpAwaitsNothing, RestsWhenComplete
    <3>5. TokensFresh' /\ TimersFar' /\ RetransmissionsSpaced'
      BY <2>2, <3>1, <3>2 DEF CallbackInv, TokensFresh, TimersFar, RetransmissionsSpaced
    <3> QED BY <3>3, <3>4, <3>5 DEF CallbackInv
  <2>5. CASE ~TimerIsStale(e)
    <3>1. ~completed /\ awaiting_ack = e.seq /\ e.token = timeout_token /\ SendData(e, TRUE)
      BY <2>1, <2>5 DEF TimerIsStale
    <3>2. awaiting_ack # NoAck
      BY <1>1, <3>1, TimerFacts
    <3>3. mode = "TCP"
      BY <1>1, <3>2, TimerFacts DEF CallbackInv, UdpAwaitsNothing
    <3> QED BY <1>1, <2>2, <2>3, <3>1, <3>3, SendDataCallbacks
  <2> QED BY <2>4, <2>5
<1>6. CASE EventsDone
  BY <1>2, <1>6 DEF EventsDone, settingVars, clockVars, transferVars, eventVars, countVars
<1>7. CASE \E r \in Nodes : Dispatch(r)
  <2>1. PICK r \in Nodes : Dispatch(r)
    BY <1>7
  <2>2. stats' = stats \/ stats' = CountDrop(stats) \/ stats' = CountDuplicate(stats)
    BY <2>1 DEF Dispatch, LaunchLink
  <2>3. stats'.retransmissions = stats.retransmissions
    BY <1>1, <2>2, CountersKeepRetransmissions
  <2> QED BY <1>2, <2>1, <2>3 DEF Dispatch, settingVars, clockVars, transferVars, eventVars
<1>8. CASE DispatchDone
  BY <1>2, <1>8 DEF DispatchDone, settingVars, clockVars, transferVars, eventVars, countVars
<1>9. CASE LoseFlight
  <2>1. stats'.retransmissions = stats.retransmissions
    BY <1>1, <1>9, CountersKeepRetransmissions DEF LoseFlight
  <2> QED BY <1>2, <1>9, <2>1 DEF LoseFlight, settingVars, clockVars, transferVars, eventVars
<1>10. CASE ArriveAtRouter
  BY <1>2, <1>10 DEF ArriveAtRouter, settingVars, clockVars, transferVars, eventVars, countVars
<1>11. CASE ArriveData
  <2>1. PICK i \in 1..Len(in_flight) : OnDataReceived(in_flight[i].packet)
    BY <1>11 DEF ArriveData
  <2> DEFINE seq == in_flight[i].packet.seq
  <2>2. \/ stats' = CountDelivery(stats, seq)
        \/ stats' = [CountInjected(CountDelivery(stats, seq), FALSE) EXCEPT !.acks = @ + 1]
    BY <2>1, Zenon DEF OnDataReceived
  <2> HIDE DEF seq
  <2>3. stats'.retransmissions = stats.retransmissions
    <3>1. CountDelivery(stats, seq).retransmissions = stats.retransmissions
      BY <1>1, CountersKeepRetransmissions
    <3>2. [CountInjected(CountDelivery(stats, seq), FALSE) EXCEPT !.acks = @ + 1].retransmissions
            = stats.retransmissions
      BY <1>1, CountersKeepRetransmissions
    <3> QED BY <2>2, <3>1, <3>2
  <2> QED BY <1>2, <1>11, <2>3 DEF ArriveData, settingVars, clockVars, eventVars
<1>12. CASE EndFrame
  <2>1. UNCHANGED <<mode, events, awaiting_ack, timeout_token, current_time, stats>> /\ phase' = "idle"
    BY <1>12 DEF EndFrame, settingVars, transferVars, eventVars, countVars
  <2>2. CASE UNCHANGED <<running, completed>>
    BY <1>1, <2>1, <2>2, CallbacksUntouched
  <2>3. CASE running' = FALSE
    <3>1. Timers' = Timers
      BY <2>1 DEF Timers
    <3>2. FrameIsRunning' /\ UdpAwaitsNothing' /\ TokensFresh' /\ KeepsGoing' /\ RestsWhenComplete'
      BY <2>1, <2>3, <3>1 DEF CallbackInv, FrameIsRunning, UdpAwaitsNothing, TokensFresh, KeepsGoing,
         RestsWhenComplete
    <3>3. TimersFar' /\ RetransmissionsSpaced'
      BY <2>1, <3>1 DEF CallbackInv, TimersFar, RetransmissionsSpaced
    <3> QED BY <3>2, <3>3 DEF CallbackInv
  <2> QED BY <1>12, <2>2, <2>3 DEF EndFrame
<1> QED BY <1>3, <1>4, <1>5, <1>6, <1>7, <1>8, <1>9, <1>10, <1>11, <1>12, AckCallbacks DEF Update

LEMMA KeyIsResetOrStart ==
  UserKey => phase = "idle" /\ (StartRun \/ ResetRunState)
BY DEF UserKey, Pressed, StartRun, PressReset, ToggleMode, CycleTopology, ToggleSdn, ToggleTrafficProfile,
   ToggleChaos, ToggleDuplicates, AdjustLossRate, AdjustDelayMultiplier, SetConditions

LEMMA UserKeyCallbacks == TimerInv /\ UserKey => CallbackInv'
<1> SUFFICES ASSUME TypeInv, CallbackInv, UserKey PROVE CallbackInv'
  BY DEF TimerInv, TransferInv
<1>1. CASE StartRun
  <2>1. ClearRun /\ UNCHANGED mode /\ events' = {FirstSend(seq) : seq \in FirstSequences}
    BY <1>1 DEF StartRun, settingVars
  <2>2. \A seq : FirstSend(seq).kind = "send"
    BY DEF FirstSend
  <2>3. Timers' = {}
    BY <2>1, <2>2 DEF Timers
  <2>4. 0 \in FirstSequences
    BY ZeroIsASequence DEF FirstSequences
  <2>5. FirstSend(0) \in PendingSends'
    BY <2>1, <2>2, <2>4 DEF PendingSends
  <2> QED BY <2>1, <2>3, <2>5, ClearedCallbacks, KeyIsResetOrStart
<1>2. CASE ResetRunState
  BY <1>2, ClearedCallbacks, KeyIsResetOrStart DEF ResetRunState, Timers
<1> QED BY <1>1, <1>2, KeyIsResetOrStart

LEMMA NextTimer ==
  ASSUME TimerInv, [Next]_vars
  PROVE  TimerInv'
<1>1. TransferInv /\ TypeInv /\ CallbackInv
  BY DEF TimerInv, TransferInv
<1>2. CASE UNCHANGED vars
  <2>1. UNCHANGED <<settingVars, phase, clockVars, transferVars, eventVars, countVars>>
    BY <1>2 DEF vars
  <2>2. current_time \in Nat /\ current_time <= current_time
    BY <1>1, TimerFacts
  <2>3. CallbackInv'
    BY <1>1, <2>1, <2>2, CallbacksUntouched DEF settingVars, clockVars, transferVars, eventVars, countVars,
       CallbackInv, FrameIsRunning
  <2> QED BY <1>1, <2>3, NextTransfer DEF TimerInv
<1> QED BY <1>1, <1>2, NextTransfer, UpdateCallbacks, UserKeyCallbacks DEF Next, TimerInv

(* What the callback heap may hold between any two steps of a frame or a   *)
(* key: fresh tokens, one callback that goes on, timers far enough ahead.  *)
THEOREM TimerInvariant == Spec => []TimerInv
<1>1. Init => TimerInv
  BY InitTransfer, InitCallbacks DEF TimerInv
<1>2. TimerInv /\ [Next]_vars => TimerInv'
  BY NextTimer
<1> QED BY <1>1, <1>2, PTL DEF Spec

(* A running TCP transfer is moved on by exactly one callback, a complete  *)
(* one by none: timers of answered packets are stale by their sequence     *)
(* number, timers of packets sent again by their token.                    *)
THEOREM OneObligationHolds == Spec => []OneObligation
<1>1. TimerInv => OneObligation
  <2> SUFFICES ASSUME TimerInv, mode = "TCP", running
               PROVE  Cardinality(PendingSends \union LiveTimers) = IF completed THEN 0 ELSE 1
    BY DEF OneObligation
  <2>1. TransferInv /\ TypeInv /\ CallbackInv
    BY DEF TimerInv, TransferInv
  <2>2. awaiting_ack = NoAck => LiveTimers = {}
    BY <2>1, TimerFacts DEF LiveTimers
  <2>3. PendingSends # {} => awaiting_ack = NoAck
    BY <2>1 DEF TransferInv, StopAndWait
  <2>4. \A e, f \in PendingSends : e = f
    BY <2>1 DEF TransferInv, SingleSend
  <2>5. \A e, f \in LiveTimers : e = f
    BY <2>1 DEF CallbackInv, TokensFresh, LiveTimers, Timers
  <2>6. CASE completed
    <3>1. PendingSends \union LiveTimers = {}
      BY <2>1, <2>2, <2>6 DEF CallbackInv, RestsWhenComplete
    <3> QED BY <2>6, <3>1, FS_EmptySet
  <2>7. CASE ~completed
    <3>1. \E e : PendingSends \union LiveTimers = {e}
      <4>1. CASE PendingSends # {}
        <5>1. PICK e : e \in PendingSends
          BY <4>1
        <5>2. PendingSends \union LiveTimers = {e}
          BY <2>2, <2>3, <2>4, <4>1, <5>1
        <5> QED BY <5>2
      <4>2. CASE PendingSends = {}
        <5>1. PICK e : e \in LiveTimers
          BY <2>1, <2>7, <4>2 DEF CallbackInv, KeepsGoing
        <5>2. PendingSends \union LiveTimers = {e}
          BY <2>5, <4>2, <5>1
        <5> QED BY <5>2
      <4> QED BY <4>1, <4>2
    <3> QED BY <2>7, <3>1, FS_Singleton
  <2> QED BY <2>6, <2>7
<1> QED BY <1>1, TimerInvariant, PTL

(* Retransmissions are a timeout apart, whatever the network does.         *)
THEOREM RetransmissionsAreSpaced == Spec => []RetransmissionsSpaced
<1>1. TimerInv => RetransmissionsSpaced
  BY DEF TimerInv, CallbackInv
<1> QED BY <1>1, TimerInvariant, PTL

-----------------------------------------------------------------------------
(* A frame, seen from the ends of the transfer: a callback sends a packet, *)
(* the receiver acknowledges one, or no packet is new.                     *)

(* The callbacks the frame is at.                                          *)
Sends(e) ==
  /\ FirstDue(e)
  /\ \/ e.kind = "send" /\ SendData(e, FALSE)
     \/ e.kind = "timeout" /\ ~TimerIsStale(e) /\ SendData(e, TRUE)

LEMMA UpdateKeepsSettings ==
  ASSUME Update
  PROVE  UNCHANGED settingVars /\ UNCHANGED udp_sent_all
BY DEF Update, BeginFrame, RunSend, RunTimeout, EventsDone, Dispatch, DispatchDone, LoseFlight,
   ArriveAtRouter, ArriveData, ArriveAck, EndFrame, transferVars

LEMMA UpdatePackets ==
  ASSUME TypeInv, Update
  PROVE  \/ NetworkPackets' \subseteq NetworkPackets
         \/ \E e \in events :
              /\ (RunSend \/ RunTimeout) /\ Sends(e)
              /\ NetworkPackets' \subseteq
                   NetworkPackets \union {MakePacket("data", source, destination, e.seq)}
         \/ \E p \in NetworkPackets :
              /\ ArriveData /\ mode = "TCP" /\ p.type = "data"
              /\ delivered_sequences' = delivered_sequences \union {p.seq}
              /\ NetworkPackets' \subseteq
                   NetworkPackets \union {MakePacket("ack", destination, source, p.seq)}
<1>1. in_flight \in Seq(Flight) /\ SettingTypes
  BY DEF TypeInv, TypeOK, NetworkTypes
<1>2. ASSUME UNCHANGED <<queue, in_flight>> PROVE NetworkPackets' \subseteq NetworkPackets
  BY <1>2, PacketsInNetwork, PacketsOfNetwork
<1>3. ASSUME NEW e \in events, NEW retransmission, SendData(e, retransmission), UNCHANGED in_flight
      PROVE  NetworkPackets' \subseteq
               NetworkPackets \union {MakePacket("data", source, destination, e.seq)}
  <2> DEFINE packet == MakePacket("data", source, destination, e.seq)
  <2>1. \A r \in Nodes : \A i \in 1..Len(queue'[r]) : queue'[r][i] \in NetworkPackets \union {packet}
    BY <1>1, <1>3, EnqueuePackets DEF SendData, SettingTypes
  <2>2. \A i \in 1..Len(in_flight') : in_flight'[i].packet \in NetworkPackets \union {packet}
    BY <1>3, PacketsInNetwork
  <2> QED BY <2>1, <2>2, PacketsOfNetwork
<1>4. CASE \E dt \in FrameTimes : BeginFrame(dt)
  BY <1>2, <1>4 DEF BeginFrame, networkVars
<1>5. CASE RunSend
  <2>1. PICK e \in events : FirstDue(e) /\ e.kind = "send" /\ SendData(e, FALSE)
    BY <1>5 DEF RunSend
  <2> QED BY <1>3, <1>5, <2>1 DEF RunSend, Sends
<1>6. CASE RunTimeout
  <2>1. PICK e \in events :
          /\ FirstDue(e) /\ e.kind = "timeout"
          /\ IF TimerIsStale(e) THEN UNCHANGED queue ELSE SendData(e, TRUE)
    BY <1>6 DEF RunTimeout
  <2> QED BY <1>2, <1>3, <1>6, <2>1 DEF RunTimeout, Sends
<1>7. CASE EventsDone
  BY <1>2, <1>7 DEF EventsDone, networkVars
<1>8. CASE (\E r \in Nodes : Dispatch(r)) \/ DispatchDone
  BY <1>8, DispatchPackets, DispatchDonePackets
<1>9. CASE LoseFlight \/ ArriveAck
  <2>1. PICK i \in 1..Len(in_flight) : in_flight' = RemoveAt(in_flight, i)
    BY <1>9 DEF LoseFlight, ArriveAck
  <2>2. UNCHANGED queue
    BY <1>9 DEF LoseFlight, ArriveAck
  <2>3. \A j \in 1..Len(in_flight') : in_flight'[j].packet \in NetworkPackets
    BY <2>1, RemovedPackets
  <2> QED BY <2>2, <2>3, PacketsInNetwork, PacketsOfNetwork
<1>10. CASE ArriveAtRouter
  <2>1. PICK i \in 1..Len(in_flight) :
          in_flight' = RemoveAt(in_flight, i) /\ Enqueue(in_flight[i].end, in_flight[i].packet)
    BY <1>10 DEF ArriveAtRouter
  <2>2. in_flight[i].end \in Nodes /\ in_flight[i].packet \in NetworkPackets
    <3>1. in_flight[i] \in Flight
      BY <1>1
    <3> QED BY <3>1, PacketsInNetwork DEF Flight
  <2>3. \A r \in Nodes : \A j \in 1..Len(queue'[r]) : queue'[r][j] \in NetworkPackets
    BY <2>1, <2>2, EnqueuePackets
  <2> QED BY <2>1, <2>3, RemovedPackets, PacketsOfNetwork
<1>11. CASE ArriveData
  <2>1. PICK i \in 1..Len(in_flight) :
          /\ in_flight[i].packet.type = "data"
          /\ in_flight' = RemoveAt(in_flight, i)
          /\ OnDataReceived(in_flight[i].packet)
    BY <1>11 DEF ArriveData
  <2> DEFINE packet == in_flight[i].packet
             ack == MakePacket("ack", destination, source, packet.seq)
  <2>2. packet \in NetworkPackets
    BY PacketsInNetwork
  <2>3. CASE mode = "TCP"
    <3>1. \A r \in Nodes : \A j \in 1..Len(queue'[r]) : queue'[r][j] \in NetworkPackets \union {ack}
      BY <1>1, <2>1, <2>3, EnqueuePackets DEF OnDataReceived, SettingTypes
    <3>2. \A j \in 1..Len(in_flight') : in_flight'[j].packet \in NetworkPackets \union {ack}
      BY <2>1, RemovedPackets
    <3>3. NetworkPackets' \subseteq NetworkPackets \union {ack}
      BY <3>1, <3>2, PacketsOfNetwork
    <3> QED BY <1>11, <2>1, <2>2, <2>3, <3>3 DEF OnDataReceived
  <2>4. CASE mode # "TCP"
    <3>1. UNCHANGED queue
      BY <2>1, <2>4 DEF OnDataReceived
    <3> QED BY <2>1, <3>1, RemovedPackets, PacketsInNetwork, PacketsOfNetwork
  <2> QED BY <2>3, <2>4
<1>12. CASE EndFrame
  BY <1>2, <1>12 DEF EndFrame, networkVars
<1> QED BY <1>4, <1>5, <1>6, <1>7, <1>8, <1>9, <1>10, <1>11, <1>12 DEF Update

(* A frame runs, or has just been ended, and then the run is over.         *)
LEMMA UpdateRuns ==
  ASSUME FrameIsRunning, Update
  PROVE  /\ running
         /\ running' \/ (EndFrame /\ completed')
         /\ completed => completed'
BY DEF FrameIsRunning, Update, BeginFrame, RunSend, RunTimeout, EventsDone, Dispatch, DispatchDone, LoseFlight,
   ArriveAtRouter, ArriveData, ArriveAck, OnAckReceived, EndFrame, clockVars

(* A key leaves the network of a new run.                                  *)
LEMMA KeyClears ==
  ASSUME UserKey
  PROVE  ClearRun /\ NetworkPackets' = {} /\ ((running' /\ StartRun) \/ (~running' /\ events' = {}))
<1>1. ClearRun /\ ((running' /\ StartRun) \/ (~running' /\ events' = {}))
  BY KeyIsResetOrStart DEF StartRun, ResetRunState
<1>2. in_flight' = <<>> /\ \A r \in Nodes : queue'[r] = <<>>
  BY <1>1 DEF ClearRun, ClearNetwork
<1> QED BY <1>1, <1>2, PacketsOfNetwork

-----------------------------------------------------------------------------
(* Nothing of an earlier run, mode or topology is left.                    *)

(* A loss burst is begun in chaos mode only.                               *)
LEMMA BurstNeedsChaos ==
  ASSUME TypeInv, Update, chaos_drop_remaining > 0 => conditions.chaos
  PROVE  chaos_drop_remaining' > 0 => conditions.chaos
<1>1. UNCHANGED chaos_drop_remaining \/ \E r \in Nodes : Dispatch(r)
  BY DEF Update, BeginFrame, RunSend, RunTimeout, EventsDone, DispatchDone, LoseFlight,
     ArriveAtRouter, ArriveData, ArriveAck, EndFrame, networkVars
<1>2. ASSUME NEW r \in Nodes, Dispatch(r), ~conditions.chaos
      PROVE  chaos_drop_remaining' = chaos_drop_remaining
  <2>1. ASSUME NEW burst, NEW o \in DropOutcomes(burst) PROVE o.left = burst
    BY <1>2, <2>1 DEF DropOutcomes, Outcome
  <2>2. CASE Blocked(r, Head(queue[r]))
    BY <1>2, <2>2 DEF Dispatch
  <2>3. CASE ~Blocked(r, Head(queue[r]))
    <3>1. PICK o1 \in DropOutcomes(chaos_drop_remaining) :
            \/ chaos_drop_remaining' = o1.left
            \/ \E o2 \in DropOutcomes(o1.left) : chaos_drop_remaining' = o2.left
      BY <1>2, <2>3 DEF Dispatch, LaunchLink
    <3> QED BY <2>1, <3>1
  <2> QED BY <2>2, <2>3
<1> QED BY <1>1, <1>2

LEMMA MadePackets ==
  \A type, from, to, seq :
    MakePacket(type, from, to, seq).proto = mode /\ MakePacket(type, from, to, seq).port = traffic_port
BY DEF MakePacket

(* In UDP mode no timer is started, no acknowledgement is awaited that     *)
(* would schedule a send, and each callback runs once.                     *)
LEMMA UdpEvents ==
  ASSUME TypeInv, CallbackInv, Update, mode = "UDP", \A e \in events : e.kind = "send"
  PROVE  \/ ~RunSend /\ ~RunTimeout /\ events' = events
         \/ \E e \in events : RunSend /\ SendData(e, FALSE) /\ events' = events \ {e}
<1>1. awaiting_ack = NoAck
  BY DEF CallbackInv, UdpAwaitsNothing
<1>2. ~RunTimeout
  BY DEF RunTimeout
<1>3. CASE RunSend
  <2>1. PICK e \in events : SendData(e, FALSE)
    BY <1>3 DEF RunSend
  <2>2. events' = events \ {e}
    BY <2>1 DEF SendData
  <2> QED BY <1>3, <2>1, <2>2
<1>4. CASE ArriveAck /\ ~RunSend
  <2>1. PICK i \in 1..Len(in_flight) : OnAckReceived(in_flight[i].packet)
    BY <1>4 DEF ArriveAck
  <2>2. in_flight[i].packet \in Packet
    <3>1. in_flight[i] \in Flight
      BY DEF TypeInv, TypeOK, NetworkTypes
    <3> QED BY <3>1 DEF Flight
  <2>3. ~AnswersAwaited(in_flight[i].packet)
    BY <1>1, <2>2, TimingAssumption DEF AnswersAwaited, Packet
  <2> QED BY <1>2, <1>4, <2>1, <2>3 DEF OnAckReceived
<1>5. CASE UNCHANGED events /\ ~RunSend
  BY <1>2, <1>5
<1> QED BY <1>2, <1>3, <1>4, <1>5 DEF Update, BeginFrame, EventsDone, Dispatch, DispatchDone, LoseFlight,
        ArriveAtRouter, ArriveData, EndFrame, eventVars

LEMMA SettingsUpdate ==
  ASSUME TimerInv, RunMatchesSettings, Update
  PROVE  RunMatchesSettings'
<1>1. TypeInv /\ CallbackInv /\ FrameIsRunning
  BY DEF TimerInv, TransferInv, CallbackInv
<1>2. UNCHANGED <<mode, traffic_port, use_sdn, conditions, topology, table, firewall>>
  BY UpdateKeepsSettings DEF settingVars
<1>3. TableInstalled' /\ firewall' = (IF use_sdn' THEN Topology'.firewall ELSE NoRouter)
  BY <1>2 DEF RunMatchesSettings, TableInstalled, Topology
<1>4. \A p \in NetworkPackets' : p.proto = mode' /\ p.port = traffic_port'
  <2>1. \A p \in NetworkPackets : p.proto = mode /\ p.port = traffic_port
    BY DEF RunMatchesSettings
  <2> QED BY <1>1, <1>2, <2>1, UpdatePackets, MadePackets
<1>5. mode' = "UDP" => \A e \in events' : e.kind = "send"
  <2> SUFFICES ASSUME mode = "UDP" PROVE \A e \in events' : e.kind = "send"
    BY <1>2
  <2>1. \A e \in events : e.kind = "send"
    BY DEF RunMatchesSettings
  <2>2. events' \subseteq events
    BY <1>1, <2>1, UdpEvents
  <2> QED BY <2>1, <2>2
<1>6. running' \/ completed'
  BY <1>1, UpdateRuns
<1>7. chaos_drop_remaining' > 0 => conditions'.chaos
  BY <1>1, <1>2, BurstNeedsChaos DEF RunMatchesSettings
<1> QED BY <1>3, <1>4, <1>5, <1>6, <1>7 DEF RunMatchesSettings

LEMMA SettingsKey ==
  ASSUME TypeInv', RunMatchesSettings, UserKey
  PROVE  RunMatchesSettings'
<1>1. /\ NetworkPackets' = {} /\ chaos_drop_remaining' = 0
      /\ (running' /\ StartRun) \/ (~running' /\ events' = {})
  BY KeyClears DEF ClearRun, ClearNetwork
<1>2. TableInstalled'
  BY DEF TypeInv
<1>3. firewall' = (IF use_sdn' THEN Topology'.firewall ELSE NoRouter)
  <2>1. firewall = (IF use_sdn THEN Topology.firewall ELSE NoRouter)
    BY DEF RunMatchesSettings
  <2>2. UNCHANGED <<use_sdn, topology, firewall>> \/ RebuildRouters(topology', use_sdn')
    BY DEF UserKey, StartRun, PressReset, ToggleMode, CycleTopology, ToggleSdn, ToggleTrafficProfile,
       ToggleChaos, ToggleDuplicates, AdjustLossRate, AdjustDelayMultiplier, SetConditions, settingVars
  <2> QED BY <2>1, <2>2 DEF RebuildRouters, Topology
<1>4. \A e \in events' : mode' = "UDP" => e.kind = "send"
  BY <1>1 DEF StartRun, FirstSend
<1> QED BY <1>1, <1>2, <1>3, <1>4 DEF RunMatchesSettings

LEMMA InitSettings == Init => RunMatchesSettings
<1> SUFFICES ASSUME Init PROVE RunMatchesSettings
  OBVIOUS
<1>1. in_flight = <<>> /\ (\A r \in Nodes : queue[r] = <<>>) /\ events = {} /\ chaos_drop_remaining = 0
  BY DEF Init
<1>2. NetworkPackets = {}
  BY <1>1 DEF NetworkPackets, Flying, QueuedAt
<1> QED BY <1>1, <1>2 DEF Init, RunMatchesSettings, TableInstalled, Topology

-----------------------------------------------------------------------------
(* What the counters say of the data sent.                                 *)

(* Packets injected that are neither link duplicates nor acknowledgements. *)
DataSent(s) == s.sent - s.duplicates - s.acks

LEMMA CountersAndData ==
  ASSUME NEW s \in Counters
  PROVE  /\ DataSent(s) \in Int
         /\ DataSent(CountDrop(s)) = DataSent(s) /\ CountDrop(s).acks = s.acks
         /\ DataSent(CountDuplicate(s)) = DataSent(s) /\ CountDuplicate(s).acks = s.acks
         /\ \A retransmission \in BOOLEAN :
              /\ DataSent(CountInjected(s, retransmission)) = DataSent(s) + 1
              /\ CountInjected(s, retransmission).acks = s.acks
         /\ CountInjected(s, FALSE).retransmissions = s.retransmissions
         /\ \A seq :
              /\ DataSent(CountDelivery(s, seq)) = DataSent(s) /\ CountDelivery(s, seq).acks = s.acks
              /\ DataSent([CountInjected(CountDelivery(s, seq), FALSE) EXCEPT !.acks = @ + 1]) = DataSent(s)
<1>1. DataSent(s) \in Int
  BY DEF Counters, DataSent
<1>2. DataSent(CountDrop(s)) = DataSent(s) /\ CountDrop(s).acks = s.acks
  BY DEF Counters, DataSent, CountDrop
<1>3. DataSent(CountDuplicate(s)) = DataSent(s) /\ CountDuplicate(s).acks = s.acks
  BY DEF Counters, DataSent, CountDuplicate, CountSent
<1>4. ASSUME NEW retransmission \in BOOLEAN
      PROVE  /\ DataSent(CountInjected(s, retransmission)) = DataSent(s) + 1
             /\ CountInjected(s, retransmission).acks = s.acks
  BY DEF Counters, DataSent, CountInjected, CountSent
<1>5. CountInjected(s, FALSE).retransmissions = s.retransmissions
  BY DEF Counters, CountInjected, CountSent
<1>6. ASSUME NEW seq
      PROVE  /\ CountDelivery(s, seq) \in Counters
             /\ DataSent(CountDelivery(s, seq)) = DataSent(s) /\ CountDelivery(s, seq).acks = s.acks
  BY CounterTypes DEF Counters, DataSent, CountDelivery
<1>7. \A t \in Counters : DataSent([CountInjected(t, FALSE) EXCEPT !.acks = @ + 1]) = DataSent(t)
  BY DEF Counters, DataSent, CountInjected, CountSent
<1> QED BY <1>1, <1>2, <1>3, <1>4, <1>5, <1>6, <1>7

(* Only the callbacks send data.                                           *)
LEMMA DataSentByCallbacks ==
  ASSUME TypeInv, Update, ~RunSend, ~RunTimeout
  PROVE  /\ DataSent(stats') = DataSent(stats)
         /\ stats'.retransmissions = stats.retransmissions
         /\ mode = "UDP" => stats'.acks = stats.acks
<1>1. stats \in Counters
  BY DEF TypeInv, TypeOK, CountTypes
<1>2. CASE stats' = stats
  BY <1>2
<1>3. CASE stats' = CountDrop(stats) \/ stats' = CountDuplicate(stats)
  BY <1>1, <1>3, CountersAndData, CountersKeepRetransmissions
<1>4. CASE ArriveData
  <2>1. PICK i \in 1..Len(in_flight) : OnDataReceived(in_flight[i].packet)
    BY <1>4 DEF ArriveData
  <2> DEFINE seq == in_flight[i].packet.seq
  <2>2. \/ stats' = CountDelivery(stats, seq)
        \/ mode = "TCP" /\ stats' = [CountInjected(CountDelivery(stats, seq), FALSE) EXCEPT !.acks = @ + 1]
    BY <2>1, Zenon DEF OnDataReceived
  <2> HIDE DEF seq
  <2>3. CASE stats' = CountDelivery(stats, seq)
    BY <1>1, <2>3, CountersAndData, CountersKeepRetransmissions
  <2>4. CASE mode = "TCP" /\ stats' = [CountInjected(CountDelivery(stats, seq), FALSE) EXCEPT !.acks = @ + 1]
    <3>1. DataSent([CountInjected(CountDelivery(stats, seq), FALSE) EXCEPT !.acks = @ + 1]) = DataSent(stats)
      BY <1>1, CountersAndData
    <3>2. [CountInjected(CountDelivery(stats, seq), FALSE) EXCEPT !.acks = @ + 1].retransmissions
            = stats.retransmissions
      BY <1>1, CountersKeepRetransmissions
    <3> QED BY <2>4, <3>1, <3>2
  <2> QED BY <2>2, <2>3, <2>4
<1>5. (stats' = stats) \/ stats' = CountDrop(stats) \/ stats' = CountDuplicate(stats) \/ ArriveData
  BY DEF Update, BeginFrame, EventsDone, Dispatch, LaunchLink, DispatchDone, LoseFlight, ArriveAtRouter,
     ArriveAck, EndFrame, countVars
<1> QED BY <1>2, <1>3, <1>4, <1>5

(* The callbacks left and the data sent add up to the goal.                *)
UdpLedger ==
  mode = "UDP" /\ udp_sent_all =>
    /\ IsFiniteSet(events)
    /\ DataSent(stats) + Cardinality(events) = PacketGoal
    /\ stats.acks = 0 /\ stats.retransmissions = 0

LEMMA LedgerUpdate ==
  ASSUME TimerInv, RunMatchesSettings, UdpLedger, Update
  PROVE  UdpLedger'
<1> SUFFICES ASSUME mode = "UDP", udp_sent_all PROVE UdpLedger'
  BY UpdateKeepsSettings DEF UdpLedger, settingVars
<1>1. TypeInv /\ CallbackInv /\ stats \in Counters
  BY DEF TimerInv, TransferInv, TypeInv, TypeOK, CountTypes
<1>2. \A e \in events : e.kind = "send"
  BY DEF RunMatchesSettings
<1>3. CASE ~RunSend /\ ~RunTimeout /\ events' = events
  BY <1>1, <1>3, DataSentByCallbacks DEF UdpLedger
<1>4. CASE \E e \in events : RunSend /\ SendData(e, FALSE) /\ events' = events \ {e}
  <2>1. PICK e \in events : SendData(e, FALSE) /\ events' = events \ {e}
    BY <1>4
  <2>2. stats' = CountInjected(stats, FALSE)
    BY <2>1 DEF SendData
  <2>3. /\ DataSent(stats') = DataSent(stats) + 1 /\ DataSent(stats) \in Int
        /\ stats'.acks = stats.acks /\ stats'.retransmissions = stats.retransmissions
    BY <1>1, <2>2, CountersAndData
  <2>4. IsFiniteSet(events') /\ Cardinality(events') = Cardinality(events) - 1
    BY <2>1, FS_RemoveElement DEF UdpLedger
  <2>5. Cardinality(events) \in Nat
    BY FS_CardinalityType DEF UdpLedger
  <2> QED BY <2>3, <2>4, <2>5, TimingAssumption DEF UdpLedger
<1> QED BY <1>1, <1>2, <1>3, <1>4, UdpEvents

(* start_run schedules one send for each sequence number.                  *)
LEMMA FirstSends ==
  LET scheduled == {FirstSend(seq) : seq \in Sequences}
  IN  IsFiniteSet(scheduled) /\ Cardinality(scheduled) = PacketGoal
<1> DEFINE scheduled == {FirstSend(seq) : seq \in Sequences}
           f == [seq \in Sequences |-> FirstSend(seq)]
<1>1. \A seq : FirstSend(seq).seq = seq
  BY DEF FirstSend
<1>2. f \in Bijection(Sequences, scheduled)
  <2>1. f \in [Sequences -> scheduled]
    OBVIOUS
  <2>2. \A a, b \in Sequences : f[a] = f[b] => a = b
    BY <1>1
  <2>3. \A t \in scheduled : \E a \in Sequences : f[a] = t
    OBVIOUS
  <2> QED BY <2>1, <2>2, <2>3 DEF Bijection, Injection, Surjection, IsInjective
<1>3. IsFiniteSet(Sequences) /\ Cardinality(Sequences) = PacketGoal
  <2>1. 0 \in Int /\ PacketGoal - 1 \in Int /\ PacketGoal \in Nat \ {0}
    BY TimingAssumption
  <2> QED BY <2>1, FS_Interval
<1>4. ExistsBijection(Sequences, scheduled)
  BY <1>2 DEF ExistsBijection
<1> HIDE DEF scheduled, f
<1>5. IsFiniteSet(scheduled) /\ Cardinality(scheduled) = PacketGoal
  BY <1>3, <1>4, FS_Bijection
<1> QED BY <1>5 DEF scheduled

LEMMA LedgerKey ==
  ASSUME UserKey
  PROVE  UdpLedger'
<1>1. CASE StartRun
  <2>1. events' = {FirstSend(seq) : seq \in FirstSequences} /\ UNCHANGED mode /\ stats' = NewStats
    BY <1>1 DEF StartRun, ClearRun, settingVars
  <2>2. mode = "UDP" => FirstSequences = Sequences
    BY DEF FirstSequences
  <2>3. DataSent(stats') = 0 /\ stats'.acks = 0 /\ stats'.retransmissions = 0
    BY <2>1 DEF DataSent, NewStats
  <2> QED BY <2>1, <2>2, <2>3, FirstSends, TimingAssumption DEF UdpLedger
<1>2. CASE ResetRunState
  BY <1>2 DEF ResetRunState, UdpLedger
<1> QED BY <1>1, <1>2, KeyIsResetOrStart

-----------------------------------------------------------------------------
(* The end of a run.                                                       *)

LEMMA FinishUpdate ==
  ASSUME TimerInv, RunMatchesSettings, UdpLedger, Update
  PROVE  EarlyFinishIsClean'
<1> SUFFICES ASSUME ~running', current_time' < MaxRuntime
             PROVE  /\ NetworkPackets' = {} /\ events' = {}
                    /\ mode' = "UDP" => stats'.sent - stats'.duplicates = PacketGoal
                    /\ mode' = "TCP" => delivered_sequences' = Sequences
  BY DEF EarlyFinishIsClean
<1>1. TransferInv /\ TypeInv /\ CallbackInv /\ FrameIsRunning
  BY DEF TimerInv, TransferInv, CallbackInv
<1>2. EndFrame /\ running
  BY <1>1, UpdateRuns
<1>3. UNCHANGED <<mode, current_time, delivered_sequences, events, queue, in_flight, stats>>
  BY <1>2 DEF EndFrame, settingVars, transferVars, eventVars, networkVars, countVars
<1>4. ~OutOfTime
  <2>1. current_time \in Int /\ MaxRuntime \in Int
    BY <1>1, TimingAssumption DEF TypeInv, TypeOK, ClockTypes
  <2> QED BY <1>3, <2>1 DEF OutOfTime
<1>5. TransferOver
  BY <1>2, <1>4 DEF EndFrame
<1>6. NetworkIdle
  BY <1>5 DEF TransferOver
<1>7. NetworkPackets' = {} /\ events' = {}
  <2>1. in_flight' = <<>> /\ \A r \in Nodes : queue'[r] = <<>>
    BY <1>3, <1>6 DEF NetworkIdle
  <2> QED BY <1>3, <1>6, <2>1, PacketsOfNetwork DEF NetworkIdle
<1>8. ASSUME mode = "TCP" PROVE delivered_sequences = Sequences
  BY <1>1, <1>2, <1>5, <1>8 DEF TransferOver, TransferInv, CompletionMeansDelivered
<1>9. ASSUME mode = "UDP" PROVE stats.sent - stats.duplicates = PacketGoal
  <2>1. events = {} /\ DataSent(stats) + Cardinality(events) = PacketGoal /\ stats.acks = 0
    BY <1>5, <1>6, <1>9 DEF TransferOver, NetworkIdle, UdpLedger
  <2>2. stats \in Counters
    BY <1>1 DEF TypeInv, TypeOK, CountTypes
  <2> QED BY <2>1, <2>2, FS_EmptySet, TimingAssumption DEF DataSent, Counters
<1> QED BY <1>3, <1>7, <1>8, <1>9

LEMMA FinishKey ==
  ASSUME UserKey
  PROVE  EarlyFinishIsClean'
<1>1. completed' = FALSE
  BY KeyClears DEF ClearRun
<1> QED BY <1>1 DEF EarlyFinishIsClean

-----------------------------------------------------------------------------
(* The TCP mode as a reliable transfer.  What the transfer awaits has to   *)
(* be known when data arrives: while the next packet is only scheduled,    *)
(* no copy of it can be on its way.                                        *)

NothingSentAhead ==
  mode = "TCP" /\ awaiting_ack = NoAck /\ next_sequence_to_send \notin delivered_sequences =>
    \A p \in NetworkPackets : p.seq < next_sequence_to_send

(* The awaited acknowledgement is for the packet being transferred, which  *)
(* the receiver has.                                                       *)
LEMMA AwaitedAck ==
  ASSUME TransferInv, mode = "TCP", NEW i \in 1..Len(in_flight), in_flight[i].packet.type = "ack",
         AnswersAwaited(in_flight[i].packet)
  PROVE  /\ in_flight[i].packet.seq = next_sequence_to_send
         /\ awaiting_ack = next_sequence_to_send /\ awaiting_ack # NoAck
         /\ next_sequence_to_send \in delivered_sequences
         /\ PendingSends = {}
<1> DEFINE packet == in_flight[i].packet
<1>1. packet \in NetworkPackets /\ packet.seq \in Sequences
  <2>1. in_flight[i] \in Flight
    BY DEF TransferInv, TypeInv, TypeOK, NetworkTypes
  <2> QED BY <2>1, PacketsInNetwork DEF Flight, Packet
<1>2. packet.seq # NoAck
  BY <1>1, TimingAssumption
<1>3. packet.seq = next_sequence_to_send /\ awaiting_ack # NoAck
  BY <1>2 DEF AnswersAwaited, TransferInv, StopAndWait
<1>4. next_sequence_to_send \in delivered_sequences
  BY <1>1, <1>3 DEF TransferInv, StopAndWait
<1> QED BY <1>3, <1>4 DEF AnswersAwaited, TransferInv, StopAndWait

(* What a frame does to the transfer.                                      *)
LEMMA TcpSteps ==
  ASSUME TimerInv, Update, mode = "TCP"
  PROVE  \/ /\ UNCHANGED <<next_sequence_to_send, awaiting_ack, delivered_sequences>>
            /\ PendingSends' = PendingSends
            /\ NetworkPackets' \subseteq NetworkPackets
         \/ /\ UNCHANGED <<next_sequence_to_send, delivered_sequences>>
            /\ awaiting_ack' # NoAck
            /\ awaiting_ack # NoAck \/ PendingSends # {}
         \/ \E p \in NetworkPackets :
              /\ ArriveData /\ delivered_sequences' = delivered_sequences \union {p.seq}
              /\ UNCHANGED <<next_sequence_to_send, awaiting_ack, events>>
              /\ NetworkPackets' \subseteq
                   NetworkPackets \union {MakePacket("ack", destination, source, p.seq)}
         \/ /\ next_sequence_to_send \in delivered_sequences
            /\ awaiting_ack # NoAck /\ awaiting_ack' = NoAck
            /\ UNCHANGED delivered_sequences /\ NetworkPackets' \subseteq NetworkPackets
            /\ \/ UNCHANGED next_sequence_to_send /\ PendingSends' = {}
               \/ next_sequence_to_send' = next_sequence_to_send + 1 /\ PendingSends' # {}
<1>1. TransferInv /\ TypeInv
  BY DEF TimerInv, TransferInv
<1>2. CASE \E e \in events : (RunSend \/ RunTimeout) /\ Sends(e)
  <2>1. PICK e \in events : Sends(e)
    BY <1>2
  <2>2. e.seq # NoAck
    BY <1>1, TimerFacts
  <2>3. awaiting_ack' = e.seq
    BY <2>1 DEF Sends, SendData
  <2>4. awaiting_ack # NoAck \/ PendingSends # {}
    BY <2>1, <2>2 DEF Sends, TimerIsStale, PendingSends
  <2>5. UNCHANGED <<next_sequence_to_send, delivered_sequences>>
    BY <1>2 DEF RunSend, RunTimeout
  <2> QED BY <2>2, <2>3, <2>4, <2>5
<1>3. CASE ArriveData
  <2>1. UNCHANGED <<next_sequence_to_send, awaiting_ack, events>>
    BY <1>3 DEF ArriveData, eventVars
  <2>2. PICK i \in 1..Len(in_flight) :
          in_flight' = RemoveAt(in_flight, i)
            /\ OnDataReceived(in_flight[i].packet)
    BY <1>3 DEF ArriveData
  <2> DEFINE packet == in_flight[i].packet
             ack == MakePacket("ack", destination, source, packet.seq)
  <2>3. delivered_sequences' = delivered_sequences \union {packet.seq} /\ Enqueue(destination, ack)
    BY <2>2 DEF OnDataReceived
  <2>4. \A r \in Nodes : \A j \in 1..Len(queue'[r]) : queue'[r][j] \in NetworkPackets \union {ack}
    BY <1>1, <2>3, EnqueuePackets DEF TypeInv, TypeOK, SettingTypes
  <2>5. \A j \in 1..Len(in_flight') : in_flight'[j].packet \in NetworkPackets \union {ack}
    BY <1>1, <2>2, RemovedPackets
  <2>6. NetworkPackets' \subseteq NetworkPackets \union {ack}
    BY <2>4, <2>5, PacketsOfNetwork
  <2>7. packet \in NetworkPackets
    BY PacketsInNetwork
  <2> QED BY <1>3, <2>1, <2>3, <2>6, <2>7
<1>4. CASE ArriveAck
  <2>1. PICK i \in 1..Len(in_flight) :
          /\ in_flight[i].packet.type = "ack"
          /\ in_flight' = RemoveAt(in_flight, i)
          /\ OnAckReceived(in_flight[i].packet)
    BY <1>4 DEF ArriveAck
  <2>2. UNCHANGED <<delivered_sequences, queue>> /\ NetworkPackets' \subseteq NetworkPackets
    <3>1. UNCHANGED <<delivered_sequences, queue>>
      BY <1>4 DEF ArriveAck
    <3>2. \A j \in 1..Len(in_flight') : in_flight'[j].packet \in NetworkPackets
      BY <1>1, <2>1, RemovedPackets
    <3> QED BY <3>1, <3>2, PacketsInNetwork, PacketsOfNetwork
  <2>3. CASE ~AnswersAwaited(in_flight[i].packet)
    BY <1>4, <2>1, <2>2, <2>3 DEF OnAckReceived, PendingSends
  <2>4. CASE AnswersAwaited(in_flight[i].packet)
    <3>1. /\ in_flight[i].packet.seq = next_sequence_to_send
          /\ awaiting_ack # NoAck /\ next_sequence_to_send \in delivered_sequences /\ PendingSends = {}
      BY <1>1, <2>1, <2>4, AwaitedAck
    <3>2. awaiting_ack' = NoAck
      BY <2>1, <2>4 DEF OnAckReceived
    <3>3. CASE IsLast(in_flight[i].packet.seq)
      <4>1. UNCHANGED <<next_sequence_to_send, events>>
        BY <2>1, <2>4, <3>3 DEF OnAckReceived
      <4> QED BY <2>2, <3>1, <3>2, <4>1 DEF PendingSends
    <3>4. CASE ~IsLast(in_flight[i].packet.seq)
      <4> DEFINE next == Scheduled("send", AckGap, in_flight[i].packet.seq + 1, 0)
      <4>1. next_sequence_to_send' = next_sequence_to_send + 1 /\ events' = events \union {next}
        BY <2>1, <2>4, <3>1, <3>4 DEF OnAckReceived
      <4>2. next \in PendingSends'
        BY <4>1 DEF PendingSends, Scheduled
      <4> QED BY <2>2, <3>1, <3>2, <4>1, <4>2
    <3> QED BY <3>3, <3>4
  <2> QED BY <2>3, <2>4
<1>5. CASE ~(\E e \in events : (RunSend \/ RunTimeout) /\ Sends(e)) /\ ~ArriveData /\ ~ArriveAck
  <2>1. NetworkPackets' \subseteq NetworkPackets
    BY <1>1, <1>5, UpdatePackets
  <2>2. ~RunSend
    BY <1>5 DEF RunSend, Sends
  <2>3. RunTimeout =>
          /\ UNCHANGED <<next_sequence_to_send, awaiting_ack, delivered_sequences>>
          /\ PendingSends' = PendingSends
    <3> SUFFICES ASSUME RunTimeout
                 PROVE  /\ UNCHANGED <<next_sequence_to_send, awaiting_ack, delivered_sequences>>
                        /\ PendingSends' = PendingSends
      OBVIOUS
    <3>1. PICK e \in events :
            /\ e.kind = "timeout"
            /\ UNCHANGED awaiting_ack /\ events' = events \ {e}
      BY <1>5 DEF RunTimeout, Sends
    <3> QED BY <3>1 DEF RunTimeout, PendingSends
  <2>4. ~RunTimeout => UNCHANGED <<next_sequence_to_send, awaiting_ack, delivered_sequences, events>>
    BY <1>5, <2>2 DEF Update, BeginFrame, EventsDone, Dispatch, DispatchDone, LoseFlight, ArriveAtRouter,
       EndFrame, transferVars, eventVars
  <2> QED BY <2>1, <2>3, <2>4 DEF PendingSends
<1> QED BY <1>2, <1>3, <1>4, <1>5

LEMMA AheadUpdate ==
  ASSUME TimerInv, NothingSentAhead, Update
  PROVE  NothingSentAhead'
<1> SUFFICES ASSUME mode = "TCP", awaiting_ack' = NoAck, next_sequence_to_send' \notin delivered_sequences',
                    NEW p \in NetworkPackets'
             PROVE  p.seq < next_sequence_to_send'
  BY UpdateKeepsSettings DEF NothingSentAhead, settingVars
<1>1. TransferInv /\ TypeInv /\ TypeInv' /\ SettingTypes /\ next_sequence_to_send \in Sequences
  BY UpdateType DEF TimerInv, TransferInv, TypeInv, TypeOK, TransferTypes
<1>2. CASE /\ UNCHANGED <<next_sequence_to_send, awaiting_ack, delivered_sequences>>
           /\ NetworkPackets' \subseteq NetworkPackets
  BY <1>2 DEF NothingSentAhead
<1>3. ASSUME NEW q \in NetworkPackets, delivered_sequences' = delivered_sequences \union {q.seq},
             UNCHANGED <<next_sequence_to_send, awaiting_ack>>,
             NetworkPackets' \subseteq NetworkPackets \union {MakePacket("ack", destination, source, q.seq)}
      PROVE  p.seq < next_sequence_to_send'
  <2>1. \A r \in NetworkPackets : r.seq < next_sequence_to_send
    BY <1>3 DEF NothingSentAhead
  <2>2. MakePacket("ack", destination, source, q.seq).seq = q.seq
    BY DEF MakePacket
  <2> QED BY <1>3, <2>1, <2>2
<1>4. CASE /\ next_sequence_to_send' = next_sequence_to_send + 1
           /\ NetworkPackets' \subseteq NetworkPackets
  <2>1. p.seq <= next_sequence_to_send /\ p.seq \in Int
    BY <1>1, <1>4, NetworkPacketTypes DEF TransferInv, StopAndWait
  <2> QED BY <1>1, <1>4, <2>1
<1> QED BY <1>2, <1>3, <1>4, TcpSteps

(* Everything a run keeps to.                                              *)
RunInv == TimerInv /\ RunMatchesSettings /\ UdpLedger /\ EarlyFinishIsClean /\ NothingSentAhead

LEMMA InitRun == Init => RunInv
<1> SUFFICES ASSUME Init PROVE RunInv
  OBVIOUS
<1>1. TimerInv /\ RunMatchesSettings
  BY InitTransfer, InitCallbacks, InitSettings DEF TimerInv
<1>2. UdpLedger /\ EarlyFinishIsClean
  BY DEF Init, UdpLedger, EarlyFinishIsClean
<1>3. NetworkPackets = {}
  BY <1>1 DEF Init, RunMatchesSettings
<1> QED BY <1>1, <1>2, <1>3 DEF RunInv, NothingSentAhead

LEMMA NextRun == RunInv /\ [Next]_vars => RunInv'
<1> SUFFICES ASSUME RunInv, [Next]_vars PROVE RunInv'
  OBVIOUS
<1>1. TimerInv' /\ TypeInv'
  BY NextTimer DEF RunInv, TimerInv, TransferInv
<1>2. CASE Update
  BY <1>1, <1>2, SettingsUpdate, LedgerUpdate, FinishUpdate, AheadUpdate DEF RunInv
<1>3. CASE UserKey
  <2>1. NetworkPackets' = {}
    BY <1>3, KeyClears
  <2>2. NothingSentAhead'
    BY <2>1 DEF NothingSentAhead
  <2> QED BY <1>1, <1>3, <2>2, SettingsKey, LedgerKey, FinishKey DEF RunInv
<1>4. CASE UNCHANGED vars
  <2>1. UNCHANGED <<settingVars, phase, clockVars, transferVars, eventVars, networkVars, countVars>>
    BY <1>4 DEF vars
  <2>2. NetworkPackets' = NetworkPackets
    BY <2>1 DEF networkVars, NetworkPackets, Flying, QueuedAt
  <2>3. RunMatchesSettings' /\ NothingSentAhead'
    BY <2>1, <2>2 DEF RunInv, RunMatchesSettings, NothingSentAhead, settingVars, clockVars, transferVars,
       eventVars, networkVars, TableInstalled, Topology
  <2>4. UdpLedger' /\ EarlyFinishIsClean'
    BY <2>1, <2>2 DEF RunInv, UdpLedger, EarlyFinishIsClean, settingVars, clockVars, transferVars, eventVars,
       countVars
  <2> QED BY <1>1, <2>3, <2>4 DEF RunInv
<1> QED BY <1>2, <1>3, <1>4 DEF Next

(* The settings, ledgers and packets of a run agree at every step of a     *)
(* frame and after every key.                                              *)
THEOREM RunInvariant == Spec => []RunInv
BY InitRun, NextRun, PTL DEF Spec

(* No packet or timer of an earlier run, mode or topology is ever left,    *)
(* whatever keys are pressed between whatever frames.                      *)
THEOREM RunsMatchSettings == Spec => []RunMatchesSettings
<1>1. RunInv => RunMatchesSettings
  BY DEF RunInv
<1> QED BY <1>1, RunInvariant, PTL

(* UDP injects each sequence number once.                                  *)
THEOREM UdpSendsEachOnce == Spec => []UdpSendsOnce
<1>1. RunInv => UdpSendsOnce
  <2> SUFFICES ASSUME RunInv, mode = "UDP", udp_sent_all
               PROVE  /\ stats.sent - stats.duplicates + Cardinality(events) = PacketGoal
                      /\ stats.retransmissions = 0
    BY DEF UdpSendsOnce
  <2>1. stats \in Counters /\ IsFiniteSet(events)
    BY DEF RunInv, TimerInv, TransferInv, TypeInv, TypeOK, CountTypes, UdpLedger
  <2>2. Cardinality(events) \in Nat
    BY <2>1, FS_CardinalityType
  <2> QED BY <2>1, <2>2 DEF RunInv, UdpLedger, DataSent, Counters
<1> QED BY <1>1, RunInvariant, PTL

(* A run that ends before the time limit leaves nothing behind.            *)
THEOREM EarlyFinishesAreClean == Spec => []EarlyFinishIsClean
<1>1. RunInv => EarlyFinishIsClean
  BY DEF RunInv
<1> QED BY <1>1, RunInvariant, PTL

(* A complete transfer has no send left and every timer it left is stale.  *)
THEOREM CompletionEndsData == Spec => NoDataAfterCompletion
<1>1. RunInv /\ [Next]_vars =>
        [completed /\ completed' =>
           stats'.sent - stats.sent =
             (stats'.acks - stats.acks) + (stats'.duplicates - stats.duplicates)]_vars
  <2> SUFFICES ASSUME RunInv, Next, completed, completed'
               PROVE  stats'.sent - stats.sent =
                        (stats'.acks - stats.acks) + (stats'.duplicates - stats.duplicates)
    OBVIOUS
  <2>1. TimerInv /\ TransferInv /\ TypeInv /\ CallbackInv
    BY DEF RunInv, TimerInv, TransferInv
  <2>2. ~UserKey
    BY KeyClears DEF ClearRun
  <2>3. Update
    BY <2>2 DEF Next
  <2>4. running
    BY <2>1, <2>3, UpdateRuns DEF CallbackInv
  <2>5. mode = "TCP" /\ PendingSends = {}
    BY <2>1, <2>4 DEF CallbackInv, RestsWhenComplete
  <2>6. ~RunSend
    BY <2>5 DEF RunSend, PendingSends
  <2>7. stats \in Counters /\ stats' \in Counters
    BY <2>1, <2>3, UpdateType DEF TypeInv, TypeOK, CountTypes
  <2>8. DataSent(stats') = DataSent(stats)
    <3>1. CASE RunTimeout
      BY <3>1 DEF RunTimeout, TimerIsStale
    <3>2. CASE ~RunTimeout
      BY <2>1, <2>3, <2>6, <3>2, DataSentByCallbacks
    <3> QED BY <3>1, <3>2
  <2> QED BY <2>7, <2>8 DEF DataSent, Counters
<1> QED BY <1>1, RunInvariant, PTL DEF Spec, NoDataAfterCompletion

(* How far the transfer is, in the terms of ReliableTransfer: n packets    *)
(* are acknowledged, and n or n + 1 received.                              *)
Received == IF mode = "TCP" THEN Cardinality(delivered_sequences) ELSE 0

AcknowledgedTcp == IF mode = "TCP" THEN Acknowledged ELSE 0

LEMMA PrefixCount ==
  ASSUME NEW n \in Nat, NEW D, 0..(n - 1) \subseteq D, D \subseteq 0..n
  PROVE  Cardinality(D) = IF n \in D THEN n + 1 ELSE n
<1>1. CASE n \in D
  <2>1. \A k \in 0..n : k = n \/ k \in 0..(n - 1)
    OBVIOUS
  <2>2. D = 0..n
    BY <1>1, <2>1
  <2>3. Cardinality(0..n) = n + 1
    BY FS_Interval
  <2> QED BY <1>1, <2>2, <2>3
<1>2. CASE n \notin D
  <2>1. \A k \in 0..n : k = n \/ k \in 0..(n - 1)
    OBVIOUS
  <2>2. D = 0..(n - 1)
    BY <1>2, <2>1
  <2>3. 0 \in Int /\ n - 1 \in Int
    OBVIOUS
  <2>4. Cardinality(0..(n - 1)) = n
    BY <2>3, FS_Interval
  <2> QED BY <1>2, <2>2, <2>4
<1> QED BY <1>1, <1>2

(* A step of ReliableTransfer, or none. *)
TransferStep ==
  \/ Received = AcknowledgedTcp /\ Received < PacketGoal /\ Received' = Received + 1
       /\ AcknowledgedTcp' = AcknowledgedTcp
  \/ AcknowledgedTcp < Received /\ AcknowledgedTcp' = AcknowledgedTcp + 1 /\ Received' = Received
  \/ Received' = 0 /\ AcknowledgedTcp' = 0
  \/ Received' = Received /\ AcknowledgedTcp' = AcknowledgedTcp

LEMMA UpdateTransferStep ==
  ASSUME RunInv, Update
  PROVE  TransferStep
<1> DEFINE n == next_sequence_to_send
<1>1. mode' = mode
  BY UpdateKeepsSettings DEF settingVars
<1>2. CASE mode # "TCP"
  BY <1>1, <1>2 DEF TransferStep, Received, AcknowledgedTcp
<1>3. CASE mode = "TCP"
  <2>1. TimerInv /\ TransferInv /\ TransferInv' /\ TypeInv
    BY UpdateTransfer DEF RunInv, TimerInv, TransferInv
  <2>2. n \in Nat /\ n < PacketGoal /\ PacketGoal \in Nat
    BY <2>1, TimingAssumption DEF TypeInv, TypeOK, TransferTypes
  <2>3. /\ Received = IF n \in delivered_sequences THEN n + 1 ELSE n
        /\ Received' = IF n' \in delivered_sequences' THEN n' + 1 ELSE n'
    <3>1. n' \in Nat
      BY <2>1 DEF TransferInv, TypeInv, TypeOK, TransferTypes
    <3>2. 0..(n - 1) \subseteq delivered_sequences /\ delivered_sequences \subseteq 0..n
      BY <1>3, <2>1 DEF TransferInv, StopAndWait
    <3>3. 0..(n' - 1) \subseteq delivered_sequences' /\ delivered_sequences' \subseteq 0..n'
      BY <1>1, <1>3, <2>1 DEF TransferInv, StopAndWait
    <3> HIDE DEF n
    <3>4. /\ Cardinality(delivered_sequences) = IF n \in delivered_sequences THEN n + 1 ELSE n
          /\ Cardinality(delivered_sequences') = IF n' \in delivered_sequences' THEN n' + 1 ELSE n'
      BY <2>2, <3>1, <3>2, <3>3, PrefixCount
    <3> QED BY <1>1, <1>3, <3>4 DEF Received
  <2>4. /\ AcknowledgedTcp = IF awaiting_ack = NoAck /\ PendingSends = {} /\ n \in delivered_sequences
                             THEN n + 1 ELSE n
        /\ AcknowledgedTcp' = IF awaiting_ack' = NoAck /\ PendingSends' = {} /\ n' \in delivered_sequences'
                              THEN n' + 1 ELSE n'
    BY <1>1, <1>3 DEF AcknowledgedTcp, Acknowledged
  <2>5. CASE /\ UNCHANGED <<next_sequence_to_send, awaiting_ack, delivered_sequences>>
             /\ PendingSends' = PendingSends
    BY <2>3, <2>4, <2>5 DEF TransferStep
  <2>6. CASE /\ UNCHANGED <<next_sequence_to_send, delivered_sequences>>
             /\ awaiting_ack' # NoAck
             /\ awaiting_ack # NoAck \/ PendingSends # {}
    BY <2>3, <2>4, <2>6 DEF TransferStep
  <2>7. ASSUME NEW p \in NetworkPackets, delivered_sequences' = delivered_sequences \union {p.seq},
               UNCHANGED <<next_sequence_to_send, awaiting_ack, events>>
        PROVE  TransferStep
    <3>1. PendingSends' = PendingSends
      BY <2>7 DEF PendingSends
    <3>2. CASE n \in delivered_sequences
      BY <2>3, <2>4, <2>7, <3>1, <3>2 DEF TransferStep
    <3>3. CASE n \notin delivered_sequences /\ p.seq # n
      BY <2>3, <2>4, <2>7, <3>1, <3>3 DEF TransferStep
    <3>4. CASE n \notin delivered_sequences /\ p.seq = n
      <4>1. awaiting_ack # NoAck
        BY <1>3, <2>2, <3>4 DEF RunInv, NothingSentAhead
      <4>2. Received = n /\ AcknowledgedTcp = n /\ Received' = n + 1 /\ AcknowledgedTcp' = n
        BY <2>3, <2>4, <2>7, <3>4, <4>1
      <4> QED BY <2>2, <4>2 DEF TransferStep
    <3> QED BY <3>2, <3>3, <3>4
  <2>8. CASE /\ n \in delivered_sequences /\ awaiting_ack # NoAck /\ awaiting_ack' = NoAck
             /\ UNCHANGED delivered_sequences
             /\ \/ UNCHANGED next_sequence_to_send /\ PendingSends' = {}
                \/ next_sequence_to_send' = next_sequence_to_send + 1 /\ PendingSends' # {}
    <3>1. Received = n + 1 /\ AcknowledgedTcp = n
      BY <2>3, <2>4, <2>8
    <3>2. AcknowledgedTcp' = n + 1
      BY <2>4, <2>8
    <3>3. n + 1 \notin delivered_sequences
      <4>1. delivered_sequences \subseteq 0..n
        BY <1>3, <2>1 DEF TransferInv, StopAndWait
      <4> QED BY <2>2, <4>1
    <3>4. Received' = n + 1
      BY <2>3, <2>8, <3>3
    <3> QED BY <2>2, <3>1, <3>2, <3>4 DEF TransferStep
  <2> QED BY <1>3, <2>1, <2>5, <2>6, <2>7, <2>8, TcpSteps
<1> QED BY <1>2, <1>3

(* The TCP mode implements a transfer in order, exactly once and one       *)
(* packet ahead of its acknowledgement at most.                            *)
THEOREM TcpIsReliableTransfer == Spec => ImplementsReliableTransfer
<1>1. Init => Transfer!Init
  <2> SUFFICES ASSUME Init PROVE Transfer!Init
    OBVIOUS
  <2>1. Cardinality(delivered_sequences) = 0
    BY FS_EmptySet DEF Init
  <2> QED BY <2>1 DEF Init, Transfer!Init, Acknowledged
<1>2. RunInv /\ [Next]_vars => TransferStep
  <2> SUFFICES ASSUME RunInv, [Next]_vars PROVE TransferStep
    OBVIOUS
  <2>1. CASE UserKey
    <3>1. delivered_sequences' = {} /\ next_sequence_to_send' = 0
      BY <2>1, KeyClears DEF ClearRun, ClearTransfer
    <3>2. Cardinality(delivered_sequences') = 0
      BY <3>1, FS_EmptySet
    <3> QED BY <3>1, <3>2 DEF TransferStep, Received, AcknowledgedTcp, Acknowledged
  <2>2. CASE UNCHANGED vars
    BY <2>2 DEF vars, settingVars, transferVars, eventVars, TransferStep, Received, AcknowledgedTcp,
       Acknowledged, PendingSends
  <2> QED BY <2>1, <2>2, UpdateTransferStep DEF Next
<1>3. TransferStep => [Transfer!Next]_<<Received, AcknowledgedTcp>>
  BY DEF TransferStep, Transfer!Next, Transfer!Receive, Transfer!Acknowledge, Transfer!Restart,
     Received, AcknowledgedTcp
<1> QED BY <1>1, <1>2, <1>3, RunInvariant, PTL
        DEF Spec, ImplementsReliableTransfer, Transfer!Spec, Received, AcknowledgedTcp
=============================================================================
