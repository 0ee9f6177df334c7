---------------------------- MODULE TickNetwork ----------------------------
(***************************************************************************)
(* The network of 05-topology: a Manager that polls its routers in order   *)
(* (manager.cpp, main.cpp), and a Router that holds one message at a time  *)
(* for as long as the link to its next hop takes (router.cpp).             *)
(*                                                                         *)
(* A message is only its destination in the code; here it also carries its *)
(* source and its number, by which the properties tell messages apart.     *)
(* last_sent is kept as the ticks left until it.                           *)
(***************************************************************************)
EXTENDS Integers, Sequences, FiniteSets, FiniteSetsExt

CONSTANTS
  Routers,     \* Manager::routers: the ids of the routers, in the order they are polled
  Tables,      \* Tables[r]: the forwarding table of r, next hops by destination
  Delays,      \* Delays[r]: the delays of the links of r, by neighbour
  Workloads,   \* the sequences of add_message calls, <<source, destination>>
  Horizon      \* bound of the model: times above it are not told apart

N == Len(Routers)
Ids == {Routers[i] : i \in 1..N}
NoRouter == 0        \* what operator[] makes of a missing table entry
NoMsg == [number |-> 0]

ASSUME NetworkAssumption ==
  /\ Routers \in Seq(Nat) /\ NoRouter \notin Ids /\ Cardinality(Ids) = N /\ N > 0
  /\ \A r \in Ids : DOMAIN Tables[r] \subseteq Nat /\ \A d \in DOMAIN Tables[r] : Tables[r][d] \in Nat
  /\ \A r \in Ids : DOMAIN Delays[r] \subseteq Nat /\ \A h \in DOMAIN Delays[r] : Delays[r][h] \in Nat
  /\ \A w \in Workloads : w \in Seq(Nat \X Nat)
  /\ Horizon \in Nat

VARIABLES
  todo,            \* the calls of add_message still to be made
  turn,            \* index of the router polled next; 0 at the test of the loop, N + 1 after it
  message_queue, next_msg, message_queued, wait,   \* each router
  received, lost,  \* messages in the order of their receipt; those sent to no router
  age, idle        \* ticks a message has been under way; ticks of the loop with no router ready

routerVars == <<message_queue, next_msg, message_queued, wait>>
timeVars == <<age, idle>>
vars == <<todo, turn, routerVars, received, lost, timeVars>>

Over == turn = N + 1
Message == [number: Nat \ {0}, source: Nat, destination: Nat]

(* Operator[] of both maps: a missing entry comes out as zero. *)
NextHop(r, d) == IF d \in DOMAIN Tables[r] THEN Tables[r][d] ELSE NoRouter

LinkDelay(r, h) == IF h \in DOMAIN Delays[r] THEN Delays[r][h] ELSE 0

-----------------------------------------------------------------------------

\* Mutant: the latest message goes first.
PushedInFront(q, m) == <<m>> \o q

Pushed(q, m) == Append(q, m)

(* Manager::add_message; a call for an unknown source does nothing. *)
AddMessage ==
  /\ todo # <<>>
  /\ todo' = Tail(todo)
  /\ LET source == Head(todo)[1]
         msg == [number |-> Cardinality(DOMAIN age) + 1, source |-> source, destination |-> Head(todo)[2]]
     IN  /\ message_queue' = IF source \in Ids
                             THEN [message_queue EXCEPT ![source] = Pushed(@, msg)]
                             ELSE message_queue
         /\ lost' = IF source \in Ids THEN lost ELSE lost \union {msg}
         /\ age' = Append(age, 0)
  /\ UNCHANGED <<turn, next_msg, message_queued, wait, received, idle>>

\* Mutants: a message held for its link is forgotten; next_msg, which
\* nobody clears, is looked at instead.
QueuesEmpty == \A r \in Ids : message_queue[r] = <<>>
NothingHeldEver == \A r \in Ids : message_queue[r] = <<>> /\ next_msg[r].msg = NoMsg

Finished == \A r \in Ids : message_queue[r] = <<>> /\ ~message_queued[r]

(* The while loop of main(). *)
TestFinished ==
  /\ todo = <<>>
  /\ turn = 0
  /\ turn' = IF Finished THEN N + 1 ELSE 1
  /\ UNCHANGED <<todo, routerVars, received, lost, timeVars>>

\* Mutant: the delay of the link is not waited for.
ReadyAtOnce(r) == message_queue[r] # <<>> \/ message_queued[r]

Ready(r) == (message_queue[r] # <<>> \/ message_queued[r]) /\ wait[r] = 0

(* One router is polled, and does nothing ... *)
Poll(r) == turn \in 1..N /\ r = Routers[turn] /\ turn' = (turn + 1) % (N + 1)

PollWaiting(r) ==
  /\ Poll(r)
  /\ ~Ready(r)
  /\ UNCHANGED <<todo, routerVars, received, lost, timeVars>>

(* ... or sends the message it holds, if any, to its next hop ... *)
QueuesAfterSend(r) ==
  IF message_queued[r] /\ next_msg[r].hop \in Ids
  THEN [message_queue EXCEPT ![next_msg[r].hop] = Pushed(@, next_msg[r].msg)]
  ELSE message_queue

LostInSend(r) ==
  IF message_queued[r] /\ next_msg[r].hop \notin Ids THEN {next_msg[r].msg} ELSE {}

\* Mutant: the message stays prepared, and goes out again.
HeldStill(r) == message_queued[r]

HeldAfterSend(r) == FALSE

Sending(r) ==
  /\ Poll(r)
  /\ Ready(r)
  /\ lost' = lost \union LostInSend(r)
  /\ UNCHANGED <<todo, timeVars>>

(* ... and then finds no other ... *)
SendLast(r) ==
  /\ Sending(r)
  /\ QueuesAfterSend(r)[r] = <<>>
  /\ message_queue' = QueuesAfterSend(r)
  /\ message_queued' = [message_queued EXCEPT ![r] = HeldAfterSend(r)]
  /\ UNCHANGED <<next_msg, wait, received>>

\* Mutants: the message goes out only after last_sent; the time a poll
\* takes is deducted.
WaitPast(r, h) == LinkDelay(r, h) + 1
WaitLessPoll(r, h) == LinkDelay(r, h) - 1

WaitFor(r, h) == LinkDelay(r, h)

Taken(r) == Head(QueuesAfterSend(r)[r])

(* ... or a message for itself, after which it prepares no other ... *)
Receive(r) ==
  /\ Sending(r)
  /\ QueuesAfterSend(r)[r] # <<>>
  /\ Taken(r).destination = r
  /\ message_queue' = [QueuesAfterSend(r) EXCEPT ![r] = Tail(@)]
  /\ message_queued' = [message_queued EXCEPT ![r] = HeldAfterSend(r)]
  /\ received' = Append(received, Taken(r))
  /\ UNCHANGED <<next_msg, wait>>

(* ... or one to prepare, and to hold for the delay of its link. *)
Prepare(r) ==
  /\ Sending(r)
  /\ QueuesAfterSend(r)[r] # <<>>
  /\ Taken(r).destination # r
  /\ message_queue' = [QueuesAfterSend(r) EXCEPT ![r] = Tail(@)]
  /\ message_queued' = [message_queued EXCEPT ![r] = TRUE]
  /\ LET hop == NextHop(r, Taken(r).destination)
     IN  /\ next_msg' = [next_msg EXCEPT ![r] = [hop |-> hop, msg |-> Taken(r)]]
         /\ wait' = [wait EXCEPT ![r] = WaitFor(r, hop)]
  /\ UNCHANGED received

Main ==
  \/ AddMessage
  \/ TestFinished
  \/ \E r \in Ids : PollWaiting(r) \/ SendLast(r) \/ Receive(r) \/ Prepare(r)

Settled == {received[k] : k \in 1..Len(received)} \union lost

(* Time passes, between any two polls. *)
Waiting == todo = <<>> /\ ~Over /\ \A r \in Ids : ~Ready(r)

Later(n) == IF n < Horizon THEN n + 1 ELSE n

Tick ==
  /\ wait' = [r \in Ids |-> IF wait[r] > 0 THEN wait[r] - 1 ELSE 0]
  /\ age' = [k \in DOMAIN age |-> IF \E m \in Settled : m.number = k THEN age[k] ELSE Later(age[k])]
  /\ idle' = IF Waiting THEN Later(idle) ELSE idle
  /\ UNCHANGED <<todo, turn, message_queue, next_msg, message_queued, received, lost>>

Init ==
  /\ todo \in Workloads
  /\ turn = 0
  /\ message_queue = [r \in Ids |-> <<>>]
  /\ next_msg = [r \in Ids |-> [hop |-> NoRouter, msg |-> NoMsg]]
  /\ message_queued = [r \in Ids |-> FALSE]
  /\ wait = [r \in Ids |-> 0]
  /\ received = <<>>
  /\ lost = {}
  /\ age = <<>>
  /\ idle = 0

Next == Main \/ Tick

Spec == Init /\ [][Next]_vars

(* The loop of main() runs until it is over, and time passes. *)
FairSpec == Spec /\ WF_vars(Main) /\ WF_vars(Tick)

-----------------------------------------------------------------------------
(* Where the tables lead a message, link by link. *)

Way(s, d) ==
  LET at[n \in 0..N] ==
        IF n = 0 THEN s
        ELSE IF at[n - 1] \in Ids \ {d} THEN NextHop(at[n - 1], d) ELSE at[n - 1]
  IN  at

Routable(m) == m.destination \in Ids /\ Way(m.source, m.destination)[N] = m.destination

WayDelay(m) ==
  LET at == Way(m.source, m.destination)
  IN  MapThenSumSet(LAMBDA n : LinkDelay(at[n - 1], at[n]),
                    {n \in 1..N : at[n - 1] \in Ids \ {m.destination}})

Received == {received[k] : k \in 1..Len(received)}

UnderWay ==
  UNION {{message_queue[r][i] : i \in 1..Len(message_queue[r])}
           \union (IF message_queued[r] THEN {next_msg[r].msg} ELSE {}) : r \in Ids}

-----------------------------------------------------------------------------
(* Properties *)

TypeOK ==
  /\ todo \in Seq(Nat \X Nat)
  /\ turn \in 0..(N + 1)
  /\ message_queue \in [Ids -> Seq(Message)]
  /\ next_msg \in [Ids -> [hop: Nat, msg: Message \union {NoMsg}]]
  /\ message_queued \in [Ids -> BOOLEAN]
  /\ wait \in [Ids -> Nat]
  /\ received \in Seq(Message) /\ lost \subseteq Message
  /\ age \in Seq(0..Horizon) /\ idle \in 0..Horizon
  /\ \A r \in Ids : message_queued[r] => next_msg[r].msg # NoMsg

(* No message disappears and none is sent twice while it goes from queue   *)
(* to link to queue (router.cpp:37-69): each is at one place.              *)
Places(k) ==
  (UNION {{<<"queue", r, i>> : i \in {j \in 1..Len(message_queue[r]) : message_queue[r][j].number = k}} : r \in Ids})
    \union {<<"link", r, 0>> : r \in {q \in Ids : message_queued[q] /\ next_msg[q].msg.number = k}}
    \union {<<"received", 0, i>> : i \in {j \in 1..Len(received) : received[j].number = k}}
    \union {<<"lost", 0, 0>> : m \in {l \in lost : l.number = k}}

EachAtOnePlace == \A k \in DOMAIN age : Cardinality(Places(k)) = 1

(* The loop waits until all messages are received (main.cpp:26): it is not *)
(* over while one is under way, and only those the tables lead nowhere are *)
(* lost (manager.cpp:23-30; router.cpp:63).                                *)
OverMeansReceived ==
  /\ Over => UnderWay = {}
  /\ \A m \in Received : Routable(m)
  /\ \A m \in lost : ~Routable(m)

(* However the polls of the routers fall between the ticks, a message is   *)
(* never received before it has waited for every link on its way           *)
(* (router.cpp:32-35, 67-68).                                              *)
NeverTooFast == \A m \in Received : age[m.number] >= WayDelay(m)

(* Two messages of the same source and destination are received in the     *)
(* order they were added, whatever else the routers between them hold      *)
(* (router.cpp:22-24, 51-53).                                              *)
OrderKept ==
  \A i, j \in 1..Len(received) :
    /\ i < j
    /\ received[i].source = received[j].source
    /\ received[i].destination = received[j].destination
    => received[i].number < received[j].number

(* The routers never all wait for nothing: when none of them is ready, a   *)
(* link is busy with some message, so that what is added is received after *)
(* no more such ticks than all the ways take one after the other           *)
(* (router.cpp:26-69).                                                     *)
NeverIdle ==
  idle > MapThenSumSet(WayDelay, Settled \union UnderWay) => UnderWay = {}

(* With tables free of loops, the loop of main() comes to its end          *)
(* (main.cpp:26-29).                                                       *)
LoopEnds == <>Over
=============================================================================
