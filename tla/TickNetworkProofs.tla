-------------------------- MODULE TickNetworkProofs --------------------------
(***************************************************************************)
(* Theorems about TickNetwork, for every network of routers, with any      *)
(* tables and delays, and for every list of messages.                      *)
(***************************************************************************)
EXTENDS TickNetwork, InductionFacts, SequenceTheorems

-----------------------------------------------------------------------------
(* Types. *)

LEMMA RoutersAre ==
  /\ N \in Nat \ {0} /\ Ids \subseteq Nat \ {NoRouter} /\ \A k \in 1..N : Routers[k] \in Ids
  /\ IsFiniteSet(Ids)
<1>1. Routers \in Seq(Nat) /\ N = Len(Routers) /\ N > 0 /\ NoRouter \notin Ids
  BY NetworkAssumption DEF N
<1>2. N \in Nat \ {0} /\ Ids \subseteq Nat \ {NoRouter} /\ \A k \in 1..N : Routers[k] \in Ids
  BY <1>1 DEF Ids
<1>3. [k \in 1..N |-> Routers[k]] \in Surjection(1..N, Ids)
  BY DEF Surjection, Ids
<1>4. IsFiniteSet(Ids)
  BY <1>2, <1>3, FS_Interval, FS_Surjection
<1> QED BY <1>2, <1>4

LEMMA FunctionIsSeq ==
  ASSUME NEW S, NEW n \in Nat, NEW f \in [1..n -> S]
  PROVE  f \in Seq(S)
OBVIOUS

LEMMA AgeIs == TypeOK => Len(age) \in Nat /\ DOMAIN age = 1..Len(age) /\ Cardinality(DOMAIN age) = Len(age)
<1> SUFFICES ASSUME TypeOK PROVE Len(age) \in Nat /\ DOMAIN age = 1..Len(age) /\ Cardinality(DOMAIN age) = Len(age)
  OBVIOUS
<1>1. age \in Seq(0..Horizon)
  BY DEF TypeOK
<1>2. Len(age) \in Nat /\ DOMAIN age = 1..Len(age)
  BY <1>1, LenProperties
<1>3. Cardinality(1..Len(age)) = Len(age)
  <2>1. \A n \in Nat : Cardinality(1..n) = n
    BY FS_Interval
  <2> QED BY <1>2, <2>1
<1> QED BY <1>2, <1>3

LEMMA AgeIsNext == TypeOK' => Cardinality(DOMAIN age') = Len(age')
<1>1. TypeOK => Cardinality(DOMAIN age) = Len(age)
  BY AgeIs
<1>2. (TypeOK => Cardinality(DOMAIN age) = Len(age))'
  BY <1>1, PTL
<1> QED BY <1>2

LEMMA HopsAre ==
  ASSUME NEW r \in Ids
  PROVE  \A d : NextHop(r, d) \in Nat /\ LinkDelay(r, d) \in Nat
BY NetworkAssumption DEF NextHop, LinkDelay, NoRouter

LEMMA InitTypes == Init => TypeOK
<1> SUFFICES ASSUME Init PROVE TypeOK
  OBVIOUS
<1>1. todo \in Seq(Nat \X Nat) /\ Horizon \in Nat
  BY NetworkAssumption DEF Init
<1>2. message_queue \in [Ids -> Seq(Message)] /\ received \in Seq(Message) /\ age \in Seq(0..Horizon)
  <2>1. \A S : <<>> \in Seq(S)
    OBVIOUS
  <2> QED BY <2>1 DEF Init
<1> QED BY <1>1, <1>2, RoutersAre DEF Init, TypeOK, NoRouter

(* What a router sends arrives in queues of messages.                      *)
LEMMA SendTypes ==
  ASSUME TypeOK, NEW r \in Ids
  PROVE  QueuesAfterSend(r) \in [Ids -> Seq(Message)] /\ LostInSend(r) \subseteq Message
<1>1. message_queued[r] => next_msg[r].msg \in Message
  BY DEF TypeOK
<1>2. LostInSend(r) \subseteq Message
  BY <1>1 DEF LostInSend
<1>3. CASE message_queued[r] /\ next_msg[r].hop \in Ids
  <2> DEFINE h == next_msg[r].hop
  <2>1. Pushed(message_queue[h], next_msg[r].msg) \in Seq(Message)
    BY <1>1, <1>3 DEF TypeOK, Pushed
  <2> QED BY <1>2, <1>3, <2>1 DEF QueuesAfterSend, TypeOK
<1>4. CASE ~(message_queued[r] /\ next_msg[r].hop \in Ids)
  BY <1>2, <1>4 DEF QueuesAfterSend, TypeOK
<1> QED BY <1>3, <1>4

LEMMA TakenIs ==
  ASSUME TypeOK, NEW r \in Ids, QueuesAfterSend(r)[r] # <<>>
  PROVE  /\ Taken(r) \in Message
         /\ [QueuesAfterSend(r) EXCEPT ![r] = Tail(@)] \in [Ids -> Seq(Message)]
<1>1. QueuesAfterSend(r) \in [Ids -> Seq(Message)]
  BY SendTypes
<1>2. Taken(r) \in Message /\ Tail(QueuesAfterSend(r)[r]) \in Seq(Message)
  BY <1>1 DEF Taken
<1> QED BY <1>1, <1>2

LEMMA PollTypes ==
  ASSUME TypeOK, NEW r \in Ids, Poll(r)
  PROVE  turn' \in 0..(N + 1)
<1>1. N + 1 \in Nat \ {0} /\ turn + 1 \in Nat /\ N \in Nat
  BY RoutersAre DEF TypeOK, Poll
<1>2. \A a \in Nat, b \in Nat \ {0} : a % b \in 0..(b - 1)
  OBVIOUS
<1>3. (turn + 1) % (N + 1) \in 0..((N + 1) - 1)
  BY <1>1, <1>2
<1> QED BY <1>1, <1>3 DEF Poll

LEMMA NextTypes == TypeOK /\ [Next]_vars => TypeOK'
<1> SUFFICES ASSUME TypeOK, [Next]_vars PROVE TypeOK'
  OBVIOUS
<1> USE RoutersAre
<1>1. CASE UNCHANGED vars
  BY <1>1 DEF vars, routerVars, timeVars, TypeOK
<1>2. CASE AddMessage
  <2> DEFINE msg == [number |-> Cardinality(DOMAIN age) + 1, source |-> Head(todo)[1], destination |-> Head(todo)[2]]
  <2>1. Head(todo) \in Nat \X Nat /\ todo' \in Seq(Nat \X Nat)
    BY <1>2 DEF AddMessage, TypeOK
  <2>2. Cardinality(DOMAIN age) = Len(age) /\ Len(age) \in Nat
    BY AgeIs
  <2>3. msg \in Message
    BY <2>1, <2>2 DEF Message
  <2>4. age' \in Seq(0..Horizon)
    BY <1>2, NetworkAssumption DEF AddMessage, TypeOK
  <2>5. /\ message_queue' = IF msg.source \in Ids
                            THEN [message_queue EXCEPT ![msg.source] = Pushed(@, msg)]
                            ELSE message_queue
        /\ lost' = IF msg.source \in Ids THEN lost ELSE lost \union {msg}
    BY <1>2 DEF AddMessage
  <2> HIDE DEF msg
  <2>6. message_queue' \in [Ids -> Seq(Message)] /\ lost' \subseteq Message
    <3>1. CASE msg.source \in Ids
      <4>0. message_queue[msg.source] \in Seq(Message)
        BY <3>1 DEF TypeOK
      <4>1. Pushed(message_queue[msg.source], msg) \in Seq(Message)
        BY <2>3, <4>0, AppendProperties DEF Pushed
      <4> QED BY <2>5, <3>1, <4>1 DEF TypeOK
    <3>2. CASE msg.source \notin Ids
      BY <2>3, <2>5, <3>2 DEF TypeOK
    <3> QED BY <3>1, <3>2
  <2>7. UNCHANGED <<turn, next_msg, message_queued, wait, received, idle>>
    BY <1>2 DEF AddMessage
  <2> QED BY <2>1, <2>4, <2>6, <2>7 DEF TypeOK
<1>3. CASE TestFinished
  BY <1>3 DEF TestFinished, TypeOK, routerVars, timeVars
<1>4. ASSUME NEW r \in Ids, PollWaiting(r) PROVE TypeOK'
  BY <1>4, PollTypes DEF PollWaiting, TypeOK, routerVars, timeVars
<1>5. ASSUME NEW r \in Ids, SendLast(r) PROVE TypeOK'
  <2>1. turn' \in 0..(N + 1) /\ message_queue' \in [Ids -> Seq(Message)] /\ lost' \subseteq Message
    BY <1>5, PollTypes, SendTypes DEF SendLast, Sending, TypeOK
  <2>2. message_queued' \in [Ids -> BOOLEAN] /\ \A q \in Ids : message_queued'[q] => message_queued[q]
    BY <1>5 DEF SendLast, HeldAfterSend, TypeOK
  <2> QED BY <1>5, <2>1, <2>2 DEF SendLast, Sending, TypeOK, timeVars
<1>6. ASSUME NEW r \in Ids, Receive(r) PROVE TypeOK'
  <2>1. turn' \in 0..(N + 1) /\ message_queue' \in [Ids -> Seq(Message)] /\ lost' \subseteq Message
    BY <1>6, PollTypes, SendTypes, TakenIs DEF Receive, Sending, TypeOK
  <2>2. message_queued' \in [Ids -> BOOLEAN] /\ \A q \in Ids : message_queued'[q] => message_queued[q]
    BY <1>6 DEF Receive, HeldAfterSend, TypeOK
  <2>3. received' \in Seq(Message)
    BY <1>6, TakenIs DEF Receive, TypeOK
  <2> QED BY <1>6, <2>1, <2>2, <2>3 DEF Receive, Sending, TypeOK, timeVars
<1>7. ASSUME NEW r \in Ids, Prepare(r) PROVE TypeOK'
  <2>1. turn' \in 0..(N + 1) /\ message_queue' \in [Ids -> Seq(Message)] /\ lost' \subseteq Message
    BY <1>7, PollTypes, SendTypes, TakenIs DEF Prepare, Sending, TypeOK
  <2> DEFINE hop == NextHop(r, Taken(r).destination)
  <2>2. hop \in Nat /\ WaitFor(r, hop) \in Nat
    BY HopsAre DEF WaitFor
  <2>3. Taken(r) \in Message /\ Taken(r) # NoMsg
    BY <1>7, TakenIs DEF Prepare, Message, NoMsg
  <2>4. /\ message_queued' = [message_queued EXCEPT ![r] = TRUE]
        /\ next_msg' = [next_msg EXCEPT ![r] = [hop |-> hop, msg |-> Taken(r)]]
        /\ wait' = [wait EXCEPT ![r] = WaitFor(r, hop)]
        /\ UNCHANGED <<todo, age, idle, received>>
    BY <1>7 DEF Prepare, Sending, timeVars
  <2> HIDE DEF hop
  <2>5. message_queued' \in [Ids -> BOOLEAN] /\ wait' \in [Ids -> Nat]
    BY <2>2, <2>4 DEF TypeOK
  <2>6. next_msg' \in [Ids -> [hop: Nat, msg: Message \union {NoMsg}]]
    BY <2>2, <2>3, <2>4 DEF TypeOK
  <2>7. \A q \in Ids : message_queued'[q] => next_msg'[q].msg # NoMsg
    BY <2>3, <2>4 DEF TypeOK
  <2> QED BY <2>1, <2>4, <2>5, <2>6, <2>7 DEF TypeOK
<1>8. CASE Tick
  <2>1. wait' \in [Ids -> Nat]
    BY <1>8 DEF Tick, TypeOK
  <2>2. \A t \in 0..Horizon : Later(t) \in 0..Horizon
    BY NetworkAssumption DEF Later
  <2>3. idle' \in 0..Horizon
    BY <1>8, <2>2 DEF Tick, TypeOK
  <2>4. age' \in Seq(0..Horizon)
    <3>1. Len(age) \in Nat /\ DOMAIN age = 1..Len(age) /\ \A k \in 1..Len(age) : age[k] \in 0..Horizon
      BY AgeIs, ElementOfSeq DEF TypeOK
    <3>2. age' \in [1..Len(age) -> 0..Horizon]
      BY <1>8, <2>2, <3>1 DEF Tick
    <3> QED BY <3>1, <3>2, FunctionIsSeq
  <2> QED BY <1>8, <2>1, <2>3, <2>4 DEF Tick, TypeOK
<1> QED BY <1>1, <1>2, <1>3, <1>4, <1>5, <1>6, <1>7, <1>8 DEF Next, Main

(* Queues, links and receipts hold messages, and a link that is held holds *)
(* one.                                                                    *)
THEOREM TickTypes == Spec => []TypeOK
BY InitTypes, NextTypes, PTL DEF Spec

-----------------------------------------------------------------------------
(* Each message at one place.  The places of number k, kind by kind.       *)

QueuePlaces(queue, k) ==
  {p \in {"queue"} \X Ids \X Nat : p[3] \in 1..Len(queue[p[2]]) /\ queue[p[2]][p[3]].number = k}

LinkPlaces(held, next, k) == {p \in {"link"} \X Ids \X {0} : held[p[2]] /\ next[p[2]].msg.number = k}

ReceivedPlaces(got, k) == {p \in {"received"} \X {0} \X Nat : p[3] \in 1..Len(got) /\ got[p[3]].number = k}

LostPlaces(gone, k) == {p \in {"lost"} \X {0} \X {0} : \E m \in gone : m.number = k}

PlacesIn(queue, held, next, got, gone, k) ==
  QueuePlaces(queue, k) \union LinkPlaces(held, next, k) \union ReceivedPlaces(got, k) \union LostPlaces(gone, k)

PlaceOf(m, k, p) == {q \in {p} : m.number = k}

LEMMA PlacesAre ==
  ASSUME TypeOK, NEW k
  PROVE  Places(k) = PlacesIn(message_queue, message_queued, next_msg, received, lost, k)
<1>1. \A r \in Ids : Len(message_queue[r]) \in Nat
  BY DEF TypeOK
<1>2. Len(received) \in Nat
  BY DEF TypeOK
<1> DEFINE Q1 == UNION {{<<"queue", r, i>> : i \in {j \in 1..Len(message_queue[r]) : message_queue[r][j].number = k}} : r \in Ids}
           Q2 == {<<"link", r, 0>> : r \in {q \in Ids : message_queued[q] /\ next_msg[q].msg.number = k}}
           Q3 == {<<"received", 0, i>> : i \in {j \in 1..Len(received) : received[j].number = k}}
           Q4 == {<<"lost", 0, 0>> : m \in {l \in lost : l.number = k}}
<1>3. Q1 = QueuePlaces(message_queue, k)
  <2>1. ASSUME NEW r \in Ids, NEW j \in 1..Len(message_queue[r]), message_queue[r][j].number = k
        PROVE  <<"queue", r, j>> \in QueuePlaces(message_queue, k)
    BY <1>1, <2>1 DEF QueuePlaces
  <2>2. ASSUME NEW p \in QueuePlaces(message_queue, k)
        PROVE  \E r \in Ids : \E j \in 1..Len(message_queue[r]) : p = <<"queue", r, j>> /\ message_queue[r][j].number = k
    BY DEF QueuePlaces
  <2> QED BY <2>1, <2>2
<1>4. Q2 = LinkPlaces(message_queued, next_msg, k)
  BY DEF LinkPlaces
<1>5. Q3 = ReceivedPlaces(received, k)
  BY <1>2 DEF ReceivedPlaces
<1>6. Q4 = LostPlaces(lost, k)
  BY DEF LostPlaces
<1>7. Places(k) = Q1 \union Q2 \union Q3 \union Q4
  BY Zenon DEF Places
<1> HIDE DEF Q1, Q2, Q3, Q4
<1> QED BY <1>3, <1>4, <1>5, <1>6, <1>7 DEF PlacesIn

LEMMA PlacesAreNext ==
  TypeOK' => \A k : Places(k)' = PlacesIn(message_queue', message_queued', next_msg', received', lost', k)
<1>1. TypeOK => \A k : Places(k) = PlacesIn(message_queue, message_queued, next_msg, received, lost, k)
  BY PlacesAre
<1>2. (TypeOK => \A k : Places(k) = PlacesIn(message_queue, message_queued, next_msg, received, lost, k))'
  BY <1>1, PTL
<1> QED BY <1>2

(* What one operation does to the places of one kind.                      *)
LEMMA PushAdds ==
  ASSUME NEW queue \in [Ids -> Seq(Message)], NEW h \in Ids, NEW m \in Message, NEW k
  PROVE  QueuePlaces([queue EXCEPT ![h] = Pushed(@, m)], k)
           = QueuePlaces(queue, k) \union PlaceOf(m, k, <<"queue", h, Len(queue[h]) + 1>>)
<1> DEFINE more == [queue EXCEPT ![h] = Pushed(@, m)]
           n == Len(queue[h])
<1>1. more[h] = Append(queue[h], m) /\ (\A r \in Ids \ {h} : more[r] = queue[r]) /\ queue[h] \in Seq(Message)
  BY DEF Pushed
<1>2. n \in Nat /\ Len(more[h]) = n + 1 /\ more[h][n + 1] = m /\ \A j \in 1..n : more[h][j] = queue[h][j]
  BY <1>1
<1> HIDE DEF more, n
<1>3. ASSUME NEW p \in {"queue"} \X Ids \X Nat
      PROVE  p \in QueuePlaces(more, k) <=> p \in QueuePlaces(queue, k) \/ (m.number = k /\ p = <<"queue", h, n + 1>>)
  <2>1. CASE p[2] # h
    BY <1>1, <2>1 DEF QueuePlaces
  <2>2. CASE p[2] = h /\ p[3] = n + 1
    BY <1>2, <2>2 DEF QueuePlaces, n
  <2>3. CASE p[2] = h /\ p[3] # n + 1
    <3>1. p[3] \in 1..(n + 1) <=> p[3] \in 1..n
      BY <1>2, <2>3
    <3> QED BY <1>2, <2>3, <3>1 DEF QueuePlaces, n
  <2> QED BY <2>1, <2>2, <2>3
<1>4. <<"queue", h, n + 1>> \in {"queue"} \X Ids \X Nat
  BY <1>2
<1>5. \A p : p \in QueuePlaces(more, k) \/ p \in QueuePlaces(queue, k) => p \in {"queue"} \X Ids \X Nat
  BY DEF QueuePlaces
<1> QED BY <1>3, <1>4, <1>5 DEF PlaceOf, more, n

LEMMA HoldAdds ==
  ASSUME NEW on, NEW off, NEW next, NEW new, NEW r \in Ids, NEW k,
         on[r], ~off[r], \A q \in Ids \ {r} : (on[q] <=> off[q]) /\ new[q] = next[q]
  PROVE  LinkPlaces(on, new, k) = LinkPlaces(off, next, k) \union PlaceOf(new[r].msg, k, <<"link", r, 0>>)
BY DEF LinkPlaces, PlaceOf

LEMMA ReceiptAdds ==
  ASSUME NEW got \in Seq(Message), NEW m \in Message, NEW k
  PROVE  ReceivedPlaces(Append(got, m), k)
           = ReceivedPlaces(got, k) \union PlaceOf(m, k, <<"received", 0, Len(got) + 1>>)
<1> DEFINE more == Append(got, m)
           n == Len(got)
<1>1. n \in Nat /\ Len(more) = n + 1 /\ more[n + 1] = m /\ \A j \in 1..n : more[j] = got[j]
  OBVIOUS
<1> HIDE DEF more
<1>2. \A j \in Nat : j \in 1..(n + 1) <=> j \in 1..n \/ j = n + 1
  BY <1>1
<1>3. n + 1 \in Nat /\ n + 1 \notin 1..n
  BY <1>1
<1> QED BY <1>1, <1>2, <1>3 DEF ReceivedPlaces, PlaceOf, more

LEMMA LossAdds ==
  ASSUME NEW gone, NEW m, NEW k
  PROVE  LostPlaces(gone \union {m}, k) = LostPlaces(gone, k) \union PlaceOf(m, k, <<"lost", 0, 0>>)
BY DEF LostPlaces, PlaceOf

(* The first of a queue goes, and the others move up.                      *)
OnePlace(P) == P # {} /\ \A p, q \in P : p = q

LEMMA PopMoves ==
  ASSUME NEW queue \in [Ids -> Seq(Message)], NEW r \in Ids, queue[r] # <<>>, NEW k,
         NEW rest, rest \intersect ({"queue"} \X Ids \X Nat) = {}
  PROVE  LET P == QueuePlaces(queue, k) \union rest
             R == QueuePlaces([queue EXCEPT ![r] = Tail(@)], k) \union rest
         IN  /\ Head(queue[r]).number = k => P # {} /\ (OnePlace(P) => R = {})
             /\ Head(queue[r]).number # k => (P = {} => R = {}) /\ (OnePlace(P) => OnePlace(R))
<1> DEFINE short == [queue EXCEPT ![r] = Tail(@)]
           n == Len(queue[r])
           A == QueuePlaces(queue, k)
           B == QueuePlaces(short, k)
<1>1. queue[r] \in Seq(Message) /\ n \in Nat \ {0}
  BY EmptySeq
<1>2. short[r] = Tail(queue[r]) /\ \A q \in Ids \ {r} : short[q] = queue[q]
  OBVIOUS
<1>3. Len(short[r]) = n - 1 /\ \A j \in 1..(n - 1) : short[r][j] = queue[r][j + 1]
  BY <1>1, <1>2, HeadTailProperties
<1>4. Head(queue[r]) = queue[r][1]
  BY <1>1
<1> HIDE DEF short
<1>5. \A p \in {"queue"} \X Ids \X Nat : p[2] # r => (p \in B <=> p \in A)
  BY <1>2 DEF QueuePlaces
<1>6. \A j \in Nat : <<"queue", r, j>> \in B <=> j # 0 /\ <<"queue", r, j + 1>> \in A
  <2> SUFFICES ASSUME NEW j \in Nat PROVE <<"queue", r, j>> \in B <=> j # 0 /\ <<"queue", r, j + 1>> \in A
    OBVIOUS
  <2>1. j \in 1..(n - 1) <=> j # 0 /\ j + 1 \in 1..n
    BY <1>1
  <2> QED BY <1>3, <2>1 DEF QueuePlaces
<1>7. <<"queue", r, 1>> \in A <=> Head(queue[r]).number = k
  BY <1>1, <1>4 DEF QueuePlaces
<1>8. A \subseteq {"queue"} \X Ids \X Nat /\ B \subseteq {"queue"} \X Ids \X Nat
  BY DEF QueuePlaces
<1>9. \A p \in A : p = <<p[1], p[2], p[3]>> /\ p[1] = "queue" /\ p[2] \in Ids /\ p[3] \in Nat \ {0}
  BY DEF QueuePlaces
<1>10. \A p \in B : p = <<p[1], p[2], p[3]>> /\ p[1] = "queue" /\ p[2] \in Ids /\ p[3] \in Nat \ {0}
  BY DEF QueuePlaces
<1> HIDE DEF A, B
(* What a place in the new queues was before. *)
<1> DEFINE Was(p) == IF p[2] = r THEN <<"queue", r, p[3] + 1>> ELSE p
<1>11. \A p \in B : Was(p) \in A /\ Was(p) # <<"queue", r, 1>>
  BY <1>5, <1>6, <1>8, <1>10
<1>12. \A p, q \in B : Was(p) = Was(q) => p = q
  BY <1>10
<1>13. \A p \in A : p # <<"queue", r, 1>> => \E q \in B : Was(q) = p
  <2> SUFFICES ASSUME NEW p \in A, p # <<"queue", r, 1>> PROVE \E q \in B : Was(q) = p
    OBVIOUS
  <2>1. CASE p[2] # r
    BY <1>5, <1>8, <2>1
  <2>2. CASE p[2] = r
    <3>1. p = <<"queue", r, p[3]>> /\ p[3] \in Nat \ {0} /\ p[3] # 1
      BY <1>9, <2>2
    <3> DEFINE j == p[3] - 1
    <3>2. j \in Nat \ {0} /\ j + 1 = p[3]
      BY <3>1
    <3> HIDE DEF j
    <3>3. <<"queue", r, j>> \in B
      BY <1>6, <3>1, <3>2
    <3> QED BY <3>1, <3>2, <3>3
  <2> QED BY <2>1, <2>2
<1> HIDE DEF Was
<1>14. A \intersect rest = {} /\ B \intersect rest = {}
  BY <1>8
<1>15. CASE Head(queue[r]).number = k
  BY <1>7, <1>11, <1>14, <1>15 DEF OnePlace, A, B, short
<1>16. CASE Head(queue[r]).number # k
  <2>1. (A \union rest = {} => B \union rest = {})
    BY <1>11
  <2>2. ASSUME OnePlace(A \union rest) PROVE OnePlace(B \union rest)
    <3>1. B \union rest # {}
      BY <1>7, <1>13, <1>16, <2>2 DEF OnePlace
    <3>2. ASSUME NEW p \in B \union rest, NEW q \in B \union rest PROVE p = q
      <4>1. CASE p \in B /\ q \in B
        BY <1>11, <1>12, <2>2, <4>1 DEF OnePlace
      <4>2. CASE p \in rest /\ q \in rest
        BY <2>2, <4>2 DEF OnePlace
      <4>3. CASE p \in B /\ q \in rest
        BY <1>11, <1>14, <2>2, <4>3 DEF OnePlace
      <4>4. CASE p \in rest /\ q \in B
        BY <1>11, <1>14, <2>2, <4>4 DEF OnePlace
      <4> QED BY <4>1, <4>2, <4>3, <4>4
    <3> QED BY <3>1, <3>2 DEF OnePlace
  <2> QED BY <1>16, <2>1, <2>2 DEF A, B, short
<1> QED BY <1>15, <1>16

(* What one poll does to them: a send, and then the end of the poll.       *)
SentPlaces(r, k) ==
  PlacesIn(QueuesAfterSend(r), [message_queued EXCEPT ![r] = FALSE], next_msg, received, lost \union LostInSend(r), k)

LEMMA SendKeepsPlace ==
  ASSUME TypeOK, NEW r \in Ids, NEW k
  PROVE  /\ Places(k) = {} => SentPlaces(r, k) = {}
         /\ OnePlace(Places(k)) => OnePlace(SentPlaces(r, k))
<1> DEFINE m == next_msg[r].msg
           h == next_msg[r].hop
           link == <<"link", r, 0>>
           off == [message_queued EXCEPT ![r] = FALSE]
           P == PlacesIn(message_queue, message_queued, next_msg, received, lost, k)
           others == QueuePlaces(message_queue, k) \union ReceivedPlaces(received, k) \union LostPlaces(lost, k)
<1>1. Places(k) = P
  BY PlacesAre
<1>2. LinkPlaces(off, next_msg, k) = LinkPlaces(message_queued, next_msg, k) \ {link}
  <2>1. message_queued \in [Ids -> BOOLEAN] /\ DOMAIN next_msg = Ids
    BY DEF TypeOK
  <2> HIDE DEF P, others, m, h, link, off
  <2>2. LinkPlaces([message_queued EXCEPT ![r] = FALSE], next_msg, k)
          = LinkPlaces(message_queued, next_msg, k) \ {<<"link", r, 0>>}
    BY <2>1 DEF LinkPlaces
  <2> QED BY <2>2 DEF off, link
<1>3. CASE ~message_queued[r]
  <2>1. off = message_queued /\ LostInSend(r) = {} /\ QueuesAfterSend(r) = message_queue
    BY <1>3 DEF TypeOK, LostInSend, QueuesAfterSend
  <2>2. lost \union LostInSend(r) = lost
    BY <2>1
  <2> QED BY <1>1, <2>1, <2>2 DEF SentPlaces
<1>4. CASE message_queued[r]
  <2>1. m \in Message
    BY <1>4 DEF TypeOK
  <2>2. link \in LinkPlaces(message_queued, next_msg, k) <=> m.number = k
    BY <1>4 DEF LinkPlaces
  <2>3. PICK new : /\ SentPlaces(r, k) = (P \ {link}) \union PlaceOf(m, k, new)
    <3>0. link \notin others
      BY DEF QueuePlaces, ReceivedPlaces, LostPlaces
    <3>1. CASE h \in Ids
      <4> DEFINE new == <<"queue", h, Len(message_queue[h]) + 1>>
      <4>1. /\ QueuesAfterSend(r) = [message_queue EXCEPT ![h] = Pushed(@, m)]
            /\ lost \union LostInSend(r) = lost
        BY <1>4, <3>1 DEF QueuesAfterSend, LostInSend
      <4>2. QueuePlaces(QueuesAfterSend(r), k) = QueuePlaces(message_queue, k) \union PlaceOf(m, k, new)
        <5>1. message_queue \in [Ids -> Seq(Message)]
          BY DEF TypeOK
        <5> HIDE DEF m, h, link, off, P, others
        <5>2. QueuePlaces([message_queue EXCEPT ![h] = Pushed(@, m)], k)
                = QueuePlaces(message_queue, k) \union PlaceOf(m, k, new)
          BY <2>1, <3>1, <5>1, PushAdds
        <5> QED BY <4>1, <5>2
      <4> HIDE DEF m, new
      <4>3. SentPlaces(r, k) = (P \ {link}) \union PlaceOf(m, k, new)
        BY <1>2, <3>0, <4>1, <4>2 DEF SentPlaces, PlacesIn
      <4> QED BY <4>3
    <3>2. CASE h \notin Ids
      <4> DEFINE new == <<"lost", 0, 0>>
      <4>1. QueuesAfterSend(r) = message_queue /\ LostInSend(r) = {m}
        BY <1>4, <3>2 DEF QueuesAfterSend, LostInSend
      <4>2. LostPlaces(lost \union LostInSend(r), k) = LostPlaces(lost, k) \union PlaceOf(m, k, new)
        BY <4>1, LossAdds
      <4> HIDE DEF m, new
      <4>3. SentPlaces(r, k) = (P \ {link}) \union PlaceOf(m, k, new)
        BY <1>2, <3>0, <4>1, <4>2 DEF SentPlaces, PlacesIn
      <4> QED BY <4>3
    <3> QED BY <3>1, <3>2
  <2>4. m.number = k <=> link \in P
    <3>1. link \notin others
      BY DEF QueuePlaces, ReceivedPlaces, LostPlaces
    <3> QED BY <2>2, <3>1 DEF PlacesIn
  <2> HIDE DEF P, m, link
  <2>5. P = {} => SentPlaces(r, k) = {}
    BY <2>3, <2>4 DEF PlaceOf
  <2>6. OnePlace(P) => OnePlace(SentPlaces(r, k))
    <3>1. CASE m.number = k
      BY <2>3, <2>4, <3>1 DEF PlaceOf, OnePlace
    <3>2. CASE m.number # k
      BY <2>3, <2>4, <3>2 DEF PlaceOf, OnePlace
    <3> QED BY <3>1, <3>2
  <2> QED BY <1>1, <2>5, <2>6
<1> QED BY <1>3, <1>4

(* The first of the queue comes to a place that is new.                    *)
LEMMA TakeKeepsPlace ==
  ASSUME TypeOK, NEW r \in Ids, QueuesAfterSend(r)[r] # <<>>, NEW k,
         NEW Q, NEW new, new \notin {"queue"} \X Ids \X Nat,
         NEW rest, rest \intersect ({"queue"} \X Ids \X Nat) = {},
         SentPlaces(r, k) = QueuePlaces(QueuesAfterSend(r), k) \union rest,
         Q = QueuePlaces([QueuesAfterSend(r) EXCEPT ![r] = Tail(@)], k) \union rest \union PlaceOf(Taken(r), k, new)
  PROVE  /\ Places(k) = {} => Q = {}
         /\ OnePlace(Places(k)) => OnePlace(Q)
<1> DEFINE P == QueuePlaces(QueuesAfterSend(r), k) \union rest
           R == QueuePlaces([QueuesAfterSend(r) EXCEPT ![r] = Tail(@)], k) \union rest
<1>1. QueuesAfterSend(r) \in [Ids -> Seq(Message)]
  BY SendTypes
<1>2. /\ Taken(r).number = k => P # {} /\ (OnePlace(P) => R = {})
      /\ Taken(r).number # k => (P = {} => R = {}) /\ (OnePlace(P) => OnePlace(R))
  BY <1>1, PopMoves DEF Taken
<1>3. SentPlaces(r, k) = P /\ Q = R \union PlaceOf(Taken(r), k, new)
  OBVIOUS
<1> HIDE DEF P, R
<1>4. /\ Places(k) = {} => P = {}
      /\ OnePlace(Places(k)) => OnePlace(P)
  BY <1>3, SendKeepsPlace
<1>5. CASE Taken(r).number = k
  BY <1>2, <1>3, <1>4, <1>5 DEF PlaceOf, OnePlace
<1>6. CASE Taken(r).number # k
  <2>1. Q = R
    BY <1>3, <1>6 DEF PlaceOf
  <2> QED BY <1>2, <1>4, <1>6, <2>1
<1> QED BY <1>5, <1>6

PlaceInv ==
  /\ \A k \in DOMAIN age : OnePlace(Places(k))
  /\ \A k \in Nat \ DOMAIN age : Places(k) = {}

LEMMA PlacesKept ==
  ASSUME TypeOK, PlaceInv, DOMAIN age' = DOMAIN age,
         \A k \in Nat : /\ Places(k) = {} => Places(k)' = {}
                        /\ OnePlace(Places(k)) => OnePlace(Places(k))'
  PROVE  PlaceInv'
<1>1. \A k \in Nat \ DOMAIN age : Places(k)' = {}
  BY DEF PlaceInv
<1>2. \A k \in DOMAIN age : OnePlace(Places(k))'
  BY AgeIs DEF PlaceInv
<1> QED BY <1>1, <1>2 DEF PlaceInv

LEMMA InitPlaces == Init => PlaceInv
<1> SUFFICES ASSUME Init, NEW k \in Nat PROVE Places(k) = {} /\ DOMAIN age = {}
  BY DEF PlaceInv
<1>1. TypeOK
  BY InitTypes
<1>2. Len(received) = 0 /\ lost = {} /\ \A r \in Ids : Len(message_queue[r]) = 0 /\ ~message_queued[r]
  BY DEF Init
<1>3. PlacesIn(message_queue, message_queued, next_msg, received, lost, k) = {}
  BY <1>2 DEF PlacesIn, QueuePlaces, LinkPlaces, ReceivedPlaces, LostPlaces
<1>4. DOMAIN age = {}
  BY DEF Init
<1> QED BY <1>1, <1>3, <1>4, PlacesAre

(* A message is added under a number of its own. *)
LEMMA AddPlaces == TypeOK /\ TypeOK' /\ PlaceInv /\ AddMessage => PlaceInv'
<1> SUFFICES ASSUME TypeOK, TypeOK', PlaceInv, AddMessage PROVE PlaceInv'
  OBVIOUS
<1> DEFINE n == Len(age)
           msg == [number |-> n + 1, source |-> Head(todo)[1], destination |-> Head(todo)[2]]
<1>1. n \in Nat /\ DOMAIN age = 1..n /\ DOMAIN age' = 1..(n + 1) /\ Cardinality(DOMAIN age) = n
  <2>1. n \in Nat /\ DOMAIN age = 1..n /\ Cardinality(DOMAIN age) = n /\ age' = Append(age, 0)
    BY AgeIs DEF AddMessage
  <2>2. age \in Seq(0..Horizon) /\ 0 \in 0..Horizon
    BY NetworkAssumption DEF TypeOK
  <2>3. Len(age') = n + 1
    BY <2>1, <2>2, AppendProperties
  <2> QED BY <2>1, <2>3, AgeIs
<1>2. msg \in Message
  <2>1. Head(todo) \in Nat \X Nat
    BY DEF AddMessage, TypeOK
  <2> QED BY <1>1, <2>1 DEF Message
<1>3. /\ message_queue' = IF msg.source \in Ids
                          THEN [message_queue EXCEPT ![msg.source] = Pushed(@, msg)]
                          ELSE message_queue
      /\ lost' = IF msg.source \in Ids THEN lost ELSE lost \union {msg}
      /\ UNCHANGED <<next_msg, message_queued, received>>
  BY <1>1 DEF AddMessage
<1>4. msg.number = n + 1
  OBVIOUS
<1> HIDE DEF msg, n
<1>5. ASSUME NEW k \in Nat
      PROVE  \E new : Places(k)' = Places(k) \union PlaceOf(msg, k, new)
  <2>1. Places(k) = PlacesIn(message_queue, message_queued, next_msg, received, lost, k)
    BY PlacesAre
  <2>2. Places(k)' = PlacesIn(message_queue', message_queued, next_msg, received, lost', k)
    BY <1>3, PlacesAreNext
  <2>3. CASE msg.source \in Ids
    <3>1. QueuePlaces(message_queue', k)
            = QueuePlaces(message_queue, k) \union PlaceOf(msg, k, <<"queue", msg.source, Len(message_queue[msg.source]) + 1>>)
      <4>1. message_queue \in [Ids -> Seq(Message)]
        BY DEF TypeOK
      <4>2. message_queue' = [message_queue EXCEPT ![msg.source] = Pushed(@, msg)]
        BY <1>3, <2>3
      <4> QED BY <1>2, <2>3, <4>1, <4>2, PushAdds
    <3>2. lost' = lost
      BY <1>3, <2>3
    <3> QED BY <2>1, <2>2, <3>1, <3>2 DEF PlacesIn
  <2>4. CASE msg.source \notin Ids
    <3>1. LostPlaces(lost', k) = LostPlaces(lost, k) \union PlaceOf(msg, k, <<"lost", 0, 0>>)
      BY <1>3, <2>4, LossAdds
    <3>2. message_queue' = message_queue
      BY <1>3, <2>4
    <3> QED BY <2>1, <2>2, <3>1, <3>2 DEF PlacesIn
  <2> QED BY <2>3, <2>4
<1>6. ASSUME NEW k \in 1..(n + 1) PROVE OnePlace(Places(k))'
  <2>1. PICK new : Places(k)' = Places(k) \union PlaceOf(msg, k, new)
    BY <1>1, <1>5
  <2>2. CASE k = n + 1
    <3>1. Places(k) = {}
      BY <1>1, <2>2 DEF PlaceInv
    <3> QED BY <1>4, <2>1, <2>2, <3>1 DEF OnePlace, PlaceOf
  <2>3. CASE k # n + 1
    <3>1. k \in DOMAIN age
      BY <1>1, <2>3
    <3>2. OnePlace(Places(k))
      BY <3>1 DEF PlaceInv
    <3> QED BY <1>4, <2>1, <2>3, <3>2 DEF OnePlace, PlaceOf
  <2> QED BY <2>2, <2>3
<1>7. ASSUME NEW k \in Nat \ 1..(n + 1) PROVE Places(k)' = {}
  <2>1. PICK new : Places(k)' = Places(k) \union PlaceOf(msg, k, new)
    BY <1>5
  <2>2. Places(k) = {} /\ k # n + 1
    BY <1>1 DEF PlaceInv
  <2> QED BY <1>4, <2>1, <2>2 DEF PlaceOf
<1> QED BY <1>1, <1>6, <1>7 DEF PlaceInv

LEMMA PollPlaces ==
  ASSUME TypeOK, TypeOK', PlaceInv, NEW r \in Ids, SendLast(r) \/ Receive(r) \/ Prepare(r)
  PROVE  PlaceInv'
<1> DEFINE queues == QueuesAfterSend(r)
           off == [message_queued EXCEPT ![r] = FALSE]
<1>1. age' = age /\ lost' = lost \union LostInSend(r)
  BY DEF SendLast, Receive, Prepare, Sending, timeVars
<1>2. queues \in [Ids -> Seq(Message)] /\ message_queued \in [Ids -> BOOLEAN] /\ DOMAIN next_msg = Ids
      /\ received \in Seq(Message)
  BY SendTypes DEF TypeOK
<1> SUFFICES ASSUME NEW k \in Nat
             PROVE  /\ Places(k) = {} => Places(k)' = {}
                    /\ OnePlace(Places(k)) => OnePlace(Places(k))'
  BY <1>1, PlacesKept
<1>3. Places(k)' = PlacesIn(message_queue', message_queued', next_msg', received', lost', k)
  BY PlacesAreNext
<1>4. SentPlaces(r, k) = PlacesIn(queues, off, next_msg, received, lost', k)
  BY <1>1 DEF SentPlaces
<1> HIDE DEF off, queues
<1>5. CASE SendLast(r)
  <2>1. /\ message_queue' = queues /\ message_queued' = off
        /\ next_msg' = next_msg /\ received' = received
    BY <1>5 DEF SendLast, HeldAfterSend, off, queues
  <2>2. Places(k)' = SentPlaces(r, k)
    BY <1>3, <1>4, <2>1
  <2> QED BY <2>2, SendKeepsPlace DEF OnePlace
<1>6. CASE Receive(r)
  <2> DEFINE rest == LinkPlaces(off, next_msg, k) \union ReceivedPlaces(received, k) \union LostPlaces(lost', k)
             new == <<"received", 0, Len(received) + 1>>
  <2>1. /\ queues[r] # <<>> /\ message_queue' = [queues EXCEPT ![r] = Tail(@)] /\ message_queued' = off
        /\ next_msg' = next_msg /\ received' = Append(received, Taken(r))
    BY <1>6 DEF Receive, HeldAfterSend, off, queues
  <2>2. Taken(r) \in Message
    BY <2>1, TakenIs DEF queues
  <2>3. ReceivedPlaces(received', k) = ReceivedPlaces(received, k) \union PlaceOf(Taken(r), k, new)
    BY <1>2, <2>1, <2>2, ReceiptAdds
  <2>4. rest \intersect ({"queue"} \X Ids \X Nat) = {} /\ new \notin {"queue"} \X Ids \X Nat
    BY DEF LinkPlaces, ReceivedPlaces, LostPlaces
  <2>5. SentPlaces(r, k) = QueuePlaces(queues, k) \union rest
    BY <1>4 DEF PlacesIn
  <2>6. Places(k)' = QueuePlaces([queues EXCEPT ![r] = Tail(@)], k) \union rest \union PlaceOf(Taken(r), k, new)
    BY <1>3, <2>1, <2>3 DEF PlacesIn
  <2> HIDE DEF rest, new
  <2>7. ASSUME NEW Q, Q = Places(k)'
        PROVE  /\ Places(k) = {} => Q = {}
               /\ OnePlace(Places(k)) => OnePlace(Q)
    BY <2>1, <2>4, <2>5, <2>6, <2>7, TakeKeepsPlace DEF queues
  <2> QED BY <2>7 DEF OnePlace
<1>7. CASE Prepare(r)
  <2> DEFINE rest == LinkPlaces(off, next_msg, k) \union ReceivedPlaces(received, k) \union LostPlaces(lost', k)
             new == <<"link", r, 0>>
             e == [hop |-> NextHop(r, Taken(r).destination), msg |-> Taken(r)]
  <2>1. /\ queues[r] # <<>> /\ message_queue' = [queues EXCEPT ![r] = Tail(@)]
        /\ message_queued' = [message_queued EXCEPT ![r] = TRUE]
        /\ next_msg' = [next_msg EXCEPT ![r] = e] /\ received' = received
    BY <1>7 DEF Prepare, queues
  <2>2. e.msg = Taken(r)
    OBVIOUS
  <2> HIDE DEF e
  <2>3. LinkPlaces(message_queued', next_msg', k) = LinkPlaces(off, next_msg, k) \union PlaceOf(Taken(r), k, new)
    <3>1. message_queued'[r] /\ ~off[r] /\ next_msg'[r] = e
      BY <1>2, <2>1 DEF off
    <3>2. \A q \in Ids \ {r} : (message_queued'[q] <=> off[q]) /\ next_msg'[q] = next_msg[q]
      BY <1>2, <2>1 DEF off
    <3> QED BY <2>2, <3>1, <3>2, HoldAdds
  <2>4. rest \intersect ({"queue"} \X Ids \X Nat) = {} /\ new \notin {"queue"} \X Ids \X Nat
    BY DEF LinkPlaces, ReceivedPlaces, LostPlaces
  <2>5. SentPlaces(r, k) = QueuePlaces(queues, k) \union rest
    BY <1>4 DEF PlacesIn
  <2>6. Places(k)' = QueuePlaces([queues EXCEPT ![r] = Tail(@)], k) \union rest \union PlaceOf(Taken(r), k, new)
    BY <1>3, <2>1, <2>3 DEF PlacesIn
  <2> HIDE DEF rest, new
  <2>7. ASSUME NEW Q, Q = Places(k)'
        PROVE  /\ Places(k) = {} => Q = {}
               /\ OnePlace(Places(k)) => OnePlace(Q)
    BY <2>1, <2>4, <2>5, <2>6, <2>7, TakeKeepsPlace DEF queues
  <2> QED BY <2>7 DEF OnePlace
<1> QED BY <1>5, <1>6, <1>7

LEMMA NextPlaces == TypeOK /\ TypeOK' /\ PlaceInv /\ [Next]_vars => PlaceInv'
<1> SUFFICES ASSUME TypeOK, TypeOK', PlaceInv, [Next]_vars PROVE PlaceInv'
  OBVIOUS
<1>1. CASE UNCHANGED <<routerVars, received, lost>> /\ DOMAIN age' = DOMAIN age
  <2>1. \A k \in Nat : Places(k)' = Places(k)
    BY <1>1, PlacesAre, PlacesAreNext DEF routerVars
  <2> QED BY <1>1, <2>1, PlacesKept DEF OnePlace
<1>2. CASE Tick
  <2>1. DOMAIN age' = DOMAIN age
    BY <1>2 DEF Tick
  <2>2. UNCHANGED <<message_queue, next_msg, message_queued, received, lost>>
    BY <1>2 DEF Tick
  <2>3. \A k \in Nat : Places(k)' = Places(k)
    BY <2>2, PlacesAre, PlacesAreNext
  <2> QED BY <2>1, <2>3, PlacesKept DEF OnePlace
<1>3. CASE AddMessage
  BY <1>3, AddPlaces
<1>4. CASE \E r \in Ids : SendLast(r) \/ Receive(r) \/ Prepare(r)
  BY <1>4, PollPlaces
<1>5. CASE TestFinished \/ (\E r \in Ids : PollWaiting(r)) \/ UNCHANGED vars
  BY <1>1, <1>5 DEF TestFinished, PollWaiting, vars, timeVars
<1> QED BY <1>2, <1>3, <1>4, <1>5 DEF Next, Main

(* A number that was given out is at one place, any other at none.         *)
THEOREM PlaceInvariant == Spec => []PlaceInv
BY InitTypes, NextTypes, InitPlaces, NextPlaces, PTL DEF Spec

(* On its way from queue to link to queue no message disappears and none   *)
(* is sent twice.                                                          *)
THEOREM MessagesKeepOnePlace == Spec => []EachAtOnePlace
<1>1. PlaceInv => EachAtOnePlace
  <2> SUFFICES ASSUME NEW k, OnePlace(Places(k)) PROVE Cardinality(Places(k)) = 1
    BY DEF PlaceInv, EachAtOnePlace
  <2>1. \E p : Places(k) = {p}
    BY DEF OnePlace
  <2> QED BY <2>1, FS_Singleton
<1> QED BY <1>1, PlaceInvariant, PTL

-----------------------------------------------------------------------------
(* The way of a message: N hops are enough to come wherever the tables     *)
(* lead, because the routers on it repeat after that.                      *)

Onward(x, d) == IF x \in Ids \ {d} THEN NextHop(x, d) ELSE x

IsWay(w, n, s, d) == w = [m \in 0..n |-> IF m = 0 THEN s ELSE Onward(w[m - 1], d)]

LEMMA WayIs ==
  ASSUME NEW s, NEW d
  PROVE  IsWay(Way(s, d), N, s, d)
<1> DEFINE T == {n \in Nat : \E w : IsWay(w, n, s, d)}
           at[n \in 0..N] == IF n = 0 THEN s
                             ELSE IF at[n - 1] \in Ids \ {d} THEN NextHop(at[n - 1], d) ELSE at[n - 1]
<1>1. 0 \in T
  <2>1. IsWay([m \in 0..0 |-> s], 0, s, d)
    BY DEF IsWay
  <2> QED BY <2>1
<1>2. ASSUME NEW n \in Nat, n \in T PROVE n + 1 \in T
  <2>1. PICK w : IsWay(w, n, s, d)
    BY <1>2
  <2> DEFINE v == [m \in 0..(n + 1) |-> IF m = n + 1 THEN Onward(w[n], d) ELSE w[m]]
  <2>2. \A m \in 0..n : w[m] = IF m = 0 THEN s ELSE Onward(w[m - 1], d)
    BY <2>1 DEF IsWay
  <2>3. ASSUME NEW m \in 0..(n + 1) PROVE v[m] = IF m = 0 THEN s ELSE Onward(v[m - 1], d)
    <3>1. CASE m = n + 1
      BY <3>1
    <3>2. CASE m # n + 1
      <4>1. m \in 0..n /\ v[m] = w[m] /\ (m # 0 => v[m - 1] = w[m - 1])
        BY <3>2
      <4> QED BY <2>2, <4>1
    <3> QED BY <3>1, <3>2
  <2>4. v = [m \in 0..(n + 1) |-> v[m]]
    OBVIOUS
  <2> HIDE DEF v
  <2>5. IsWay(v, n + 1, s, d)
    BY <2>3, <2>4 DEF IsWay
  <2> QED BY <2>5
<1>3. N \in T
  <2> HIDE DEF T
  <2>1. Nat \subseteq T
    BY <1>1, <1>2, NatInSet
  <2> QED BY <2>1, RoutersAre
<1>4. Way(s, d) = at
  BY Zenon DEF Way
<1>5. IsWay(at, N, s, d)
  BY <1>3, Zenon DEF IsWay, Onward
<1> QED BY <1>4, <1>5

LEMMA WaySteps ==
  ASSUME NEW s, NEW d
  PROVE  /\ Way(s, d)[0] = s
         /\ \A n \in Nat : n < N => Way(s, d)[n + 1] = Onward(Way(s, d)[n], d)
<1>1. \A m \in 0..N : Way(s, d)[m] = IF m = 0 THEN s ELSE Onward(Way(s, d)[m - 1], d)
  <2>1. ASSUME NEW w, IsWay(w, N, s, d)
        PROVE  \A m \in 0..N : w[m] = IF m = 0 THEN s ELSE Onward(w[m - 1], d)
    BY <2>1 DEF IsWay
  <2> QED BY <2>1, WayIs
<1>2. \A n \in Nat : n < N => n + 1 \in 0..N /\ n + 1 # 0 /\ (n + 1) - 1 = n
  BY RoutersAre
<1>3. 0 \in 0..N
  BY RoutersAre
<1> QED BY <1>1, <1>2, <1>3

(* It ends at the destination, or where there is no router.                *)
LEMMA WayEnds ==
  ASSUME NEW s, NEW d, NEW n \in 0..N, Way(s, d)[n] \notin Ids \ {d}
  PROVE  \A m \in n..N : Way(s, d)[m] = Way(s, d)[n]
<1> DEFINE w == Way(s, d)
           T == {j \in Nat : n + j <= N => w[n + j] = w[n]}
<1>1. 0 \in T
  OBVIOUS
<1>2. ASSUME NEW j \in Nat, j \in T PROVE j + 1 \in T
  <2>1. CASE n + (j + 1) <= N
    <3>1. n + j \in Nat /\ n + j < N /\ (n + j) + 1 = n + (j + 1)
      BY <2>1, RoutersAre
    <3>2. w[n + j] = w[n]
      BY <1>2, <3>1, RoutersAre
    <3>3. w[(n + j) + 1] = Onward(w[n + j], d)
      BY <3>1, WaySteps
    <3> QED BY <3>1, <3>2, <3>3 DEF Onward
  <2> QED BY <2>1
<1>3. Nat \subseteq T
  <2> HIDE DEF T
  <2> QED BY <1>1, <1>2, NatInSet
<1>4. \A m \in n..N : m - n \in Nat /\ n + (m - n) = m
  BY RoutersAre
<1> QED BY <1>3, <1>4, RoutersAre

LEMMA WayRepeats ==
  ASSUME NEW s, NEW d, NEW a \in 0..N, NEW b \in 0..N, a < b, Way(s, d)[a] = Way(s, d)[b]
  PROVE  \A j \in Nat : b + j <= N => Way(s, d)[a + j] = Way(s, d)[b + j]
<1> DEFINE w == Way(s, d)
           T == {j \in Nat : b + j <= N => w[a + j] = w[b + j]}
<1>1. 0 \in T
  OBVIOUS
<1>2. ASSUME NEW j \in Nat, j \in T PROVE j + 1 \in T
  <2>1. CASE b + (j + 1) <= N
    <3>1. /\ a + j \in Nat /\ a + j < N /\ (a + j) + 1 = a + (j + 1)
          /\ b + j \in Nat /\ b + j < N /\ (b + j) + 1 = b + (j + 1)
      BY <2>1, RoutersAre
    <3>2. w[a + j] = w[b + j]
      BY <1>2, <3>1, RoutersAre
    <3>3. w[(a + j) + 1] = Onward(w[a + j], d) /\ w[(b + j) + 1] = Onward(w[b + j], d)
      BY <3>1, WaySteps
    <3> QED BY <3>1, <3>2, <3>3
  <2> QED BY <2>1
<1>3. Nat \subseteq T
  <2> HIDE DEF T
  <2> QED BY <1>1, <1>2, NatInSet
<1> QED BY <1>3

(* A router that the way is still at after N hops it was at before.         *)
LEMMA WayTurns ==
  ASSUME NEW s, NEW d, NEW x \in Ids \ {d}, Way(s, d)[N] = x
  PROVE  \E n \in Nat : n < N /\ Way(s, d)[n] = x
<1> DEFINE w == Way(s, d)
<1>1. \A m \in 0..N : w[m] \in Ids \ {d}
  <2> SUFFICES ASSUME NEW m \in 0..N, w[m] \notin Ids \ {d} PROVE FALSE
    OBVIOUS
  <2>1. N \in m..N
    BY RoutersAre
  <2>2. w[N] = w[m]
    BY <2>1, WayEnds
  <2> QED BY <2>2
<1> DEFINE f == [m \in 0..N |-> w[m]]
<1>2. \E a, b \in 0..N : a # b /\ w[a] = w[b]
  <2>1. IsFiniteSet(0..N) /\ Cardinality(0..N) = N + 1
    <3>1. \A n \in Nat : IsFiniteSet(0..n) /\ Cardinality(0..n) = n + 1
      BY FS_Interval
    <3> QED BY <3>1, RoutersAre
  <2>2. IsFiniteSet(Ids) /\ Cardinality(Ids) < Cardinality(0..N)
    BY <2>1, RoutersAre, NetworkAssumption
  <2>3. f \in [0..N -> Ids]
    BY <1>1
  <2> DEFINE D == 0..N
  <2> HIDE DEF f, D
  <2>4. \E a, b \in D : a # b /\ f[a] = f[b]
    <3>1. IsFiniteSet(D) /\ Cardinality(Ids) < Cardinality(D) /\ f \in [D -> Ids]
      BY <2>1, <2>2, <2>3 DEF D
    <3> QED BY <2>2, <3>1, FS_PigeonHole
  <2> QED BY <2>4 DEF f, D
<1>3. PICK a \in 0..N, b \in 0..N : a < b /\ w[a] = w[b]
  <2>1. \A a, b \in 0..N : a # b => a < b \/ b < a
    BY RoutersAre
  <2> QED BY <1>2, <2>1
<1> DEFINE j == N - b
<1>4. j \in Nat /\ b + j = N /\ a + j \in Nat /\ a + j < N
  BY <1>3, RoutersAre
<1>5. w[a + j] = w[b + j]
  <2>1. \A i \in Nat : b + i <= N => Way(s, d)[a + i] = Way(s, d)[b + i]
    BY <1>3, WayRepeats
  <2>2. b + j <= N
    BY <1>4, RoutersAre
  <2> QED BY <1>4, <2>1, <2>2
<1>6. w[a + j] = x
  BY <1>4, <1>5
<1> HIDE DEF j
<1> QED BY <1>4, <1>6

OnWay(x, s, d) == \E n \in 0..N : Way(s, d)[n] = x

LEMMA WayGoesOn ==
  ASSUME NEW s, NEW d, NEW x \in Ids \ {d}, OnWay(x, s, d)
  PROVE  OnWay(NextHop(x, d), s, d)
<1> DEFINE w == Way(s, d)
<1>1. PICK n \in Nat : n < N /\ w[n] = x
  <2>1. PICK m \in 0..N : w[m] = x
    BY DEF OnWay
  <2> QED BY <2>1, WayTurns, RoutersAre
<1>2. n + 1 \in 0..N /\ w[n + 1] = NextHop(x, d)
  BY <1>1, RoutersAre, WaySteps DEF Onward
<1> QED BY <1>2 DEF OnWay

-----------------------------------------------------------------------------
(* Every message is on its way; the loop ends when nothing is left.        *)

ComesBy(x) == {m \in Message : OnWay(x, m.source, m.destination)}

Arrivals == {m \in Message : m.destination \in Ids /\ m \in ComesBy(m.destination)}

Strays == {m \in Message : \E x : x \notin Ids /\ m \in ComesBy(x)}

WayInv ==
  /\ \A r \in Ids : message_queue[r] \in Seq(ComesBy(r))
  /\ \A r \in Ids : message_queued[r] =>
       /\ next_msg[r].msg \in ComesBy(r)
       /\ next_msg[r].msg.destination # r
       /\ next_msg[r].hop = NextHop(r, next_msg[r].msg.destination)
  /\ received \in Seq(Arrivals)
  /\ lost \subseteq Strays

LoopInv ==
  /\ turn # 0 => todo = <<>>
  /\ Over => Finished

LEMMA StartsOnWay == \A m \in Message : m \in ComesBy(m.source)
<1>1. 0 \in 0..N
  BY RoutersAre
<1> QED BY <1>1, WaySteps DEF ComesBy, OnWay

(* A send brings a message on. *)
LEMMA SendGoesOn ==
  ASSUME TypeOK, WayInv, NEW r \in Ids
  PROVE  /\ \A q \in Ids : QueuesAfterSend(r)[q] \in Seq(ComesBy(q))
         /\ LostInSend(r) \subseteq Strays
<1> DEFINE m == next_msg[r].msg
           h == next_msg[r].hop
<1>1. CASE message_queued[r]
  <2>1. m \in ComesBy(h)
    <3>1. m \in Message /\ OnWay(r, m.source, m.destination) /\ m.destination # r /\ h = NextHop(r, m.destination)
      BY <1>1 DEF WayInv, ComesBy
    <3> HIDE DEF m, h
    <3>2. OnWay(NextHop(r, m.destination), m.source, m.destination)
      BY <3>1, WayGoesOn
    <3> QED BY <3>1, <3>2 DEF ComesBy
  <2>2. m \in Message
    BY <2>1 DEF ComesBy
  <2>3. CASE h \in Ids
    <3>1. QueuesAfterSend(r) = [message_queue EXCEPT ![h] = Append(@, m)] /\ LostInSend(r) = {}
      BY <1>1, <2>3 DEF QueuesAfterSend, LostInSend, Pushed
    <3>2. \A q \in Ids : message_queue[q] \in Seq(ComesBy(q))
      BY DEF WayInv
    <3> HIDE DEF m, h
    <3>3. Append(message_queue[h], m) \in Seq(ComesBy(h))
      BY <2>1, <2>3, <3>2, AppendProperties
    <3>4. QueuesAfterSend(r)[h] = Append(message_queue[h], m) /\ \A q \in Ids \ {h} : QueuesAfterSend(r)[q] = message_queue[q]
      BY <2>3, <3>1 DEF TypeOK
    <3> QED BY <3>1, <3>2, <3>3, <3>4
  <2>4. CASE h \notin Ids
    <3>1. QueuesAfterSend(r) = message_queue /\ LostInSend(r) = {m}
      BY <2>4, <1>1 DEF QueuesAfterSend, LostInSend
    <3>2. m \in Strays
      BY <2>1, <2>2, <2>4 DEF Strays
    <3> QED BY <3>1, <3>2 DEF WayInv
  <2> QED BY <2>3, <2>4
<1>2. CASE ~message_queued[r]
  BY <1>2 DEF QueuesAfterSend, LostInSend, WayInv
<1> QED BY <1>1, <1>2

LEMMA TakenOnWay ==
  ASSUME TypeOK, WayInv, NEW r \in Ids, QueuesAfterSend(r)[r] # <<>>
  PROVE  /\ Taken(r) \in ComesBy(r) /\ Taken(r) \in Message
         /\ \A q \in Ids : [QueuesAfterSend(r) EXCEPT ![r] = Tail(@)][q] \in Seq(ComesBy(q))
<1>1. \A q \in Ids : QueuesAfterSend(r)[q] \in Seq(ComesBy(q))
  BY SendGoesOn
<1>2. Taken(r) \in ComesBy(r) /\ Tail(QueuesAfterSend(r)[r]) \in Seq(ComesBy(r))
  BY <1>1, HeadTailProperties DEF Taken
<1>3. DOMAIN QueuesAfterSend(r) = Ids
  BY SendTypes
<1> QED BY <1>1, <1>2, <1>3 DEF ComesBy

LEMMA InitWay == Init => WayInv /\ LoopInv
<1> SUFFICES ASSUME Init PROVE WayInv /\ LoopInv
  OBVIOUS
<1>1. \A S : <<>> \in Seq(S)
  OBVIOUS
<1>2. WayInv
  BY <1>1 DEF Init, WayInv
<1>3. LoopInv
  BY RoutersAre DEF Init, LoopInv, Over
<1> QED BY <1>2, <1>3

LEMMA NextWay == TypeOK /\ WayInv /\ [Next]_vars => WayInv'
<1> SUFFICES ASSUME TypeOK, WayInv, [Next]_vars PROVE WayInv'
  OBVIOUS
<1>1. CASE UNCHANGED <<message_queue, next_msg, message_queued, received, lost>>
  BY <1>1 DEF WayInv
<1>2. CASE Tick \/ TestFinished \/ (\E r \in Ids : PollWaiting(r)) \/ UNCHANGED vars
  BY <1>1, <1>2 DEF Tick, TestFinished, PollWaiting, vars, routerVars
<1>3. CASE AddMessage
  <2> DEFINE msg == [number |-> Cardinality(DOMAIN age) + 1, source |-> Head(todo)[1], destination |-> Head(todo)[2]]
  <2>1. msg \in Message
    <3>1. Head(todo) \in Nat \X Nat
      BY <1>3 DEF AddMessage, TypeOK
    <3>2. Cardinality(DOMAIN age) \in Nat
      BY AgeIs
    <3> QED BY <3>1, <3>2 DEF Message
  <2>2. /\ message_queue' = IF msg.source \in Ids
                            THEN [message_queue EXCEPT ![msg.source] = Append(@, msg)]
                            ELSE message_queue
        /\ lost' = IF msg.source \in Ids THEN lost ELSE lost \union {msg}
        /\ UNCHANGED <<next_msg, message_queued, received>>
    BY <1>3 DEF AddMessage, Pushed
  <2> HIDE DEF msg
  <2>3. msg \in ComesBy(msg.source)
    BY <2>1, StartsOnWay
  <2>4. ASSUME NEW r \in Ids PROVE message_queue'[r] \in Seq(ComesBy(r))
    <3>1. message_queue[r] \in Seq(ComesBy(r)) /\ DOMAIN message_queue = Ids
      BY DEF WayInv, TypeOK
    <3>2. CASE r = msg.source
      <4>1. Append(message_queue[r], msg) \in Seq(ComesBy(r))
        BY <2>3, <3>1, <3>2, AppendProperties
      <4> QED BY <2>2, <3>1, <3>2, <4>1
    <3>3. CASE r # msg.source
      BY <2>2, <3>1, <3>3
    <3> QED BY <3>2, <3>3
  <2>5. lost' \subseteq Strays
    BY <2>1, <2>2, <2>3 DEF WayInv, Strays
  <2> QED BY <2>2, <2>4, <2>5 DEF WayInv
<1>4. ASSUME NEW r \in Ids, SendLast(r) \/ Receive(r) \/ Prepare(r) PROVE WayInv'
  <2>1. lost' \subseteq Strays
    BY <1>4, SendGoesOn DEF SendLast, Receive, Prepare, Sending, WayInv
  <2>2. CASE SendLast(r)
    <3>1. /\ message_queue' = QueuesAfterSend(r) /\ UNCHANGED <<next_msg, received>>
          /\ \A q \in Ids : message_queued'[q] => message_queued[q]
      BY <2>2 DEF SendLast, HeldAfterSend, TypeOK
    <3> QED BY <2>1, <3>1, SendGoesOn DEF WayInv
  <2>3. CASE Receive(r)
    <3>1. /\ message_queue' = [QueuesAfterSend(r) EXCEPT ![r] = Tail(@)] /\ UNCHANGED next_msg
          /\ received' = Append(received, Taken(r))
          /\ Taken(r).destination = r /\ QueuesAfterSend(r)[r] # <<>>
          /\ \A q \in Ids : message_queued'[q] => message_queued[q]
      BY <2>3 DEF Receive, HeldAfterSend, TypeOK
    <3>2. Taken(r) \in Arrivals
      BY <3>1, TakenOnWay DEF Arrivals
    <3>3. received' \in Seq(Arrivals)
      BY <3>1, <3>2, AppendProperties DEF WayInv
    <3> QED BY <2>1, <3>1, <3>3, TakenOnWay DEF WayInv
  <2>4. CASE Prepare(r)
    <3>1. /\ message_queue' = [QueuesAfterSend(r) EXCEPT ![r] = Tail(@)] /\ UNCHANGED received
          /\ Taken(r).destination # r /\ QueuesAfterSend(r)[r] # <<>>
          /\ message_queued' = [message_queued EXCEPT ![r] = TRUE]
          /\ next_msg' = [next_msg EXCEPT ![r] = [hop |-> NextHop(r, Taken(r).destination), msg |-> Taken(r)]]
      BY <2>4 DEF Prepare
    <3>2. Taken(r) \in ComesBy(r)
      BY <3>1, TakenOnWay
    <3>3. ASSUME NEW q \in Ids, message_queued'[q]
          PROVE  /\ next_msg'[q].msg \in ComesBy(q)
                 /\ next_msg'[q].msg.destination # q
                 /\ next_msg'[q].hop = NextHop(q, next_msg'[q].msg.destination)
      <4>1. CASE q = r
        BY <3>1, <3>2, <4>1 DEF TypeOK
      <4>2. CASE q # r
        <5>1. message_queued[q] /\ next_msg'[q] = next_msg[q]
          BY <3>1, <3>3, <4>2 DEF TypeOK
        <5> QED BY <5>1 DEF WayInv
      <4> QED BY <4>1, <4>2
    <3> QED BY <2>1, <3>1, <3>3, TakenOnWay DEF WayInv
  <2> QED BY <1>4, <2>2, <2>3, <2>4
<1> QED BY <1>2, <1>3, <1>4 DEF Next, Main

LEMMA NextLoop == TypeOK /\ LoopInv /\ [Next]_vars => LoopInv'
<1> SUFFICES ASSUME TypeOK, LoopInv, [Next]_vars PROVE LoopInv'
  OBVIOUS
<1> USE RoutersAre
<1>1. CASE AddMessage
  BY <1>1 DEF AddMessage, LoopInv, Over
<1>2. CASE TestFinished
  BY <1>2 DEF TestFinished, LoopInv, Over, Finished, routerVars
<1>3. CASE UNCHANGED <<todo, turn, message_queue, message_queued>>
  BY <1>3 DEF LoopInv, Over, Finished
<1>4. ASSUME NEW r \in Ids, PollWaiting(r) \/ SendLast(r) \/ Receive(r) \/ Prepare(r) PROVE LoopInv'
  <2>1. turn \in 1..N /\ turn' = (turn + 1) % (N + 1) /\ UNCHANGED todo
    BY <1>4 DEF PollWaiting, SendLast, Receive, Prepare, Sending, Poll
  <2>2. turn' # N + 1
    <3>1. \A a \in Nat, b \in Nat \ {0} : a % b \in 0..(b - 1)
      OBVIOUS
    <3>2. turn + 1 \in Nat /\ N + 1 \in Nat \ {0}
      BY <2>1
    <3>3. turn' \in 0..((N + 1) - 1)
      BY <2>1, <3>1, <3>2
    <3> QED BY <3>3
  <2> QED BY <2>1, <2>2 DEF LoopInv, Over
<1>5. CASE Tick \/ UNCHANGED vars
  BY <1>3, <1>5 DEF Tick, vars, routerVars
<1> QED BY <1>1, <1>2, <1>4, <1>5 DEF Next, Main

(* Messages are found on the way their tables lead them only, and the loop *)
(* of main() does not end while a router holds one.                        *)
THEOREM WayInvariant == Spec => [](TypeOK /\ WayInv /\ LoopInv)
BY InitTypes, NextTypes, InitWay, NextWay, NextLoop, PTL DEF Spec

(* The loop of main() is not over while a message is under way; those      *)
(* received are those the tables lead to their destination, however long   *)
(* and crossing the ways are, and those lost are the others.               *)
THEOREM OverHoldsNothingBack == Spec => []OverMeansReceived
<1>1. TypeOK /\ WayInv /\ LoopInv => OverMeansReceived
  <2> SUFFICES ASSUME TypeOK, WayInv, LoopInv PROVE OverMeansReceived
    OBVIOUS
  <2>1. Over => UnderWay = {}
    <3> SUFFICES ASSUME Over PROVE UnderWay = {}
      OBVIOUS
    <3>1. \A r \in Ids : message_queue[r] = <<>> /\ ~message_queued[r]
      BY DEF LoopInv, Finished
    <3>2. \A r \in Ids : 1..Len(message_queue[r]) = {}
      BY <3>1
    <3> QED BY <3>1, <3>2 DEF UnderWay
  <2>2. ASSUME NEW m \in Received PROVE Routable(m)
    <3>1. m \in Arrivals
      BY ElementOfSeq DEF Received, WayInv
    <3>2. PICK n \in 0..N : Way(m.source, m.destination)[n] = m.destination
      BY <3>1 DEF Arrivals, ComesBy, OnWay
    <3>3. N \in n..N
      BY RoutersAre
    <3>4. \A k \in n..N : Way(m.source, m.destination)[k] = m.destination
      BY <3>2, WayEnds
    <3> QED BY <3>1, <3>3, <3>4 DEF Routable, Arrivals
  <2>3. ASSUME NEW m \in lost PROVE ~Routable(m)
    <3>1. m \in Strays
      BY DEF WayInv
    <3>0. PICK x : x \notin Ids /\ OnWay(x, m.source, m.destination)
      BY <3>1 DEF Strays, ComesBy
    <3>2. PICK n \in 0..N : Way(m.source, m.destination)[n] = x
      BY <3>0 DEF OnWay
    <3>3. N \in n..N
      BY RoutersAre
    <3>4. \A k \in n..N : Way(m.source, m.destination)[k] = x
      BY <3>0, <3>2, WayEnds
    <3> QED BY <3>0, <3>2, <3>3, <3>4 DEF Routable
  <2> QED BY <2>1, <2>2, <2>3 DEF OverMeansReceived
<1> QED BY <1>1, WayInvariant, PTL

-----------------------------------------------------------------------------
(* Order.  A way that leads to its destination goes through no router      *)
(* twice, so that every router on it has one position.                     *)

Pos(x, s, d) == CHOOSE n \in 0..N : Way(s, d)[n] = x /\ \A k \in 0..(n - 1) : Way(s, d)[k] # x

LEMMA PosIs ==
  ASSUME NEW s, NEW d, NEW x, OnWay(x, s, d)
  PROVE  /\ Pos(x, s, d) \in 0..N
         /\ Way(s, d)[Pos(x, s, d)] = x
         /\ \A k \in 0..(Pos(x, s, d) - 1) : Way(s, d)[k] # x
<1> DEFINE M == {n \in 0..N : Way(s, d)[n] = x}
<1>1. M \in SUBSET Nat /\ M # {}
  BY DEF OnWay
<1>2. PICK n \in M : \A m \in M : n <= m
  <2> HIDE DEF M
  <2> QED BY <1>1, LeastMember
<1>3. ASSUME NEW k \in 0..(n - 1) PROVE Way(s, d)[k] # x
  <2>1. k \in 0..N /\ ~(n <= k)
    BY <1>1, RoutersAre
  <2> QED BY <1>2, <2>1
<1>4. \E a \in 0..N : Way(s, d)[a] = x /\ \A k \in 0..(a - 1) : Way(s, d)[k] # x
  BY <1>3
<1> QED BY <1>4, Zenon DEF Pos

LEMMA PosSource ==
  ASSUME NEW s, NEW d
  PROVE  OnWay(s, s, d) /\ Pos(s, s, d) = 0
<1>1. 0 \in 0..N /\ Way(s, d)[0] = s
  BY RoutersAre, WaySteps
<1>2. OnWay(s, s, d)
  BY <1>1 DEF OnWay
<1>3. Pos(s, s, d) \in Nat /\ (0 \in 0..(Pos(s, s, d) - 1) => FALSE)
  BY <1>1, <1>2, PosIs
<1> QED BY <1>2, <1>3

Leads(s, d) == d \in Ids /\ Way(s, d)[N] = d

LEMMA PosLast ==
  ASSUME NEW s, NEW d, Leads(s, d), NEW x, OnWay(x, s, d)
  PROVE  OnWay(d, s, d) /\ Pos(x, s, d) <= Pos(d, s, d)
<1> DEFINE a == Pos(d, s, d)
           b == Pos(x, s, d)
<1>1. OnWay(d, s, d)
  BY RoutersAre DEF Leads, OnWay
<1>2. a \in 0..N /\ Way(s, d)[a] = d
  BY <1>1, PosIs
<1>3. b \in 0..N /\ Way(s, d)[b] = x /\ \A k \in 0..(b - 1) : Way(s, d)[k] # x
  BY PosIs
<1> HIDE DEF a, b
<1>4. ASSUME a < b PROVE FALSE
  <2>1. b \in a..N /\ a \in 0..(b - 1)
    BY <1>2, <1>3, <1>4, RoutersAre
  <2>2. Way(s, d)[b] = Way(s, d)[a]
    BY <1>2, <2>1, WayEnds
  <2> QED BY <1>2, <1>3, <2>1, <2>2
<1>5. a \in Nat /\ b \in Nat
  BY <1>2, <1>3
<1>6. b <= a
  BY <1>4, <1>5
<1> QED BY <1>1, <1>6 DEF a, b

LEMMA PosNext ==
  ASSUME NEW s, NEW d, Leads(s, d), NEW x \in Ids \ {d}, OnWay(x, s, d)
  PROVE  Pos(NextHop(x, d), s, d) = Pos(x, s, d) + 1
<1> DEFINE w == Way(s, d)
           y == NextHop(x, d)
           a == Pos(x, s, d)
           l == Pos(d, s, d)
           c == Pos(y, s, d)
<1>1. a \in 0..N /\ w[a] = x /\ \A k \in 0..(a - 1) : w[k] # x
  BY PosIs
<1>2. l \in 0..N /\ w[l] = d /\ \A k \in 0..(l - 1) : w[k] # d
  BY PosIs, PosLast
<1>3. a < l
  <2>1. a <= l
    BY PosLast
  <2> HIDE DEF a, l, w
  <2>2. a # l
    BY <1>1, <1>2
  <2> QED BY <1>1, <1>2, <2>1, <2>2
<1>4. w[a + 1] = y
  <2>1. a \in Nat /\ a < N
    BY <1>1, <1>2, <1>3, RoutersAre
  <2>2. w[a + 1] = Onward(w[a], d)
    BY <2>1, WaySteps
  <2> QED BY <1>1, <2>2 DEF Onward
<1>5. OnWay(y, s, d)
  BY WayGoesOn
<1>6. c \in 0..N /\ w[c] = y /\ \A k \in 0..(c - 1) : w[k] # y
  BY <1>5, PosIs
<1> HIDE DEF a, l, c, y
<1>7. c <= a + 1
  <2>1. ~(a + 1 \in 0..(c - 1))
    BY <1>4, <1>6
  <2> QED BY <1>1, <1>6, <2>1
<1>8. ASSUME c <= a PROVE FALSE
  (* The way would repeat from c on, and never come to l. *)
  <2> DEFINE e == a + 1
             j == l - e
  <2>1. e \in 0..N /\ c < e /\ w[c] = w[e] /\ j \in Nat /\ e + j = l /\ e + j <= N /\ c + j \in 0..(l - 1)
    BY <1>1, <1>2, <1>3, <1>4, <1>6, <1>8, RoutersAre
  <2> HIDE DEF e, j
  <2>2. w[c + j] = w[e + j]
    <3>1. \A i \in Nat : e + i <= N => Way(s, d)[c + i] = Way(s, d)[e + i]
      BY <1>6, <2>1, WayRepeats
    <3> QED BY <2>1, <3>1
  <2> QED BY <1>2, <2>1, <2>2
<1>9. c = a + 1
  BY <1>1, <1>6, <1>7, <1>8
<1> QED BY <1>9 DEF a, c, y

(* The messages under way: <<router, place, message>>, where place 0 is    *)
(* the link and place i the i-th of the queue.                             *)
Items(queue, held, next) ==
  {t \in Ids \X Nat \X Message :
     \/ t[2] = 0 /\ held[t[1]] /\ t[3] = next[t[1]].msg
     \/ t[2] \in 1..Len(queue[t[1]]) /\ t[3] = queue[t[1]][t[2]]}

SameFlow(a, b) == a.source = b.source /\ a.destination = b.destination

At(t) == Pos(t[1], t[3].source, t[3].destination)

Ahead(p, q) == At(q) < At(p) \/ (p[1] = q[1] /\ p[2] < q[2])

(* Of two messages of one flow, the earlier is ahead of the later.         *)
InOrder(S) ==
  \A p, q \in S : p # q /\ SameFlow(p[3], q[3]) /\ Leads(p[3].source, p[3].destination) =>
    p[3].number # q[3].number /\ (p[3].number < q[3].number => Ahead(p, q))

Placed(S) ==
  \A t \in S : /\ t \in Ids \X Nat \X Message
               /\ OnWay(t[1], t[3].source, t[3].destination)
               /\ t[2] = 0 => t[3].destination # t[1]

LEMMA AtIs ==
  ASSUME NEW S, Placed(S), NEW t \in S
  PROVE  At(t) \in Nat /\ t[2] \in Nat /\ t[3].number \in Nat
<1>1. OnWay(t[1], t[3].source, t[3].destination)
  BY DEF Placed
<1>2. At(t) \in 0..N
  BY <1>1, PosIs DEF At
<1> QED BY <1>2 DEF Placed, Message

(* An item that is new is in order if it is with each of the others.       *)
Fits(S, n) ==
  \A t \in S : SameFlow(t[3], n[3]) /\ Leads(n[3].source, n[3].destination) =>
    /\ t[3].number # n[3].number
    /\ t[3].number < n[3].number => Ahead(t, n)
    /\ n[3].number < t[3].number => Ahead(n, t)

LEMMA OrderAdds ==
  ASSUME NEW S, InOrder(S), NEW n, Fits(S, n), NEW T, \A t \in T : t \in S \/ t = n
  PROVE  InOrder(T)
<1> SUFFICES ASSUME NEW p \in T, NEW q \in T, p # q, SameFlow(p[3], q[3]),
                    Leads(p[3].source, p[3].destination)
             PROVE  p[3].number # q[3].number /\ (p[3].number < q[3].number => Ahead(p, q))
  BY DEF InOrder
<1>1. CASE p \in S /\ q \in S
  BY <1>1 DEF InOrder
<1>2. CASE p = n /\ q \in S
  BY <1>2 DEF Fits, SameFlow
<1>3. CASE p \in S /\ q = n
  BY <1>3 DEF Fits, SameFlow
<1> QED BY <1>1, <1>2, <1>3

LEMMA ItemsPlaced ==
  ASSUME NEW queue \in [Ids -> Seq(Message)], \A r \in Ids : queue[r] \in Seq(ComesBy(r)),
         NEW held, NEW next,
         \A r \in Ids : held[r] => next[r].msg \in ComesBy(r) /\ next[r].msg.destination # r
  PROVE  Placed(Items(queue, held, next))
<1> SUFFICES ASSUME NEW t \in Items(queue, held, next)
             PROVE  /\ t \in Ids \X Nat \X Message
                    /\ OnWay(t[1], t[3].source, t[3].destination)
                    /\ t[2] = 0 => t[3].destination # t[1]
  BY DEF Placed
<1>1. t \in Ids \X Nat \X Message
  BY DEF Items
<1>2. CASE t[2] = 0
  <2>1. t[3] \in ComesBy(t[1]) /\ t[3].destination # t[1]
    BY <1>1, <1>2 DEF Items
  <2> QED BY <1>1, <2>1 DEF ComesBy
<1>3. CASE t[2] # 0
  <2>1. t[2] \in 1..Len(queue[t[1]]) /\ t[3] = queue[t[1]][t[2]]
    BY <1>3 DEF Items
  <2>2. t[3] \in ComesBy(t[1])
    BY <1>1, <2>1, ElementOfSeq
  <2> QED BY <1>1, <1>3, <2>2 DEF ComesBy
<1> QED BY <1>2, <1>3

(* What one operation does to the items. *)
LEMMA ItemsPush ==
  ASSUME NEW queue \in [Ids -> Seq(Message)], NEW h \in Ids, NEW m \in Message, NEW held, NEW next,
         NEW more, more[h] = Append(queue[h], m), \A q \in Ids \ {h} : more[q] = queue[q]
  PROVE  \A t : t \in Items(more, held, next) <=> t \in Items(queue, held, next) \/ t = <<h, Len(queue[h]) + 1, m>>
<1> DEFINE n == Len(queue[h])
<1>1. more[h] = Append(queue[h], m) /\ (\A r \in Ids \ {h} : more[r] = queue[r]) /\ queue[h] \in Seq(Message)
  OBVIOUS
<1>2. n \in Nat /\ Len(more[h]) = n + 1 /\ more[h][n + 1] = m /\ \A j \in 1..n : more[h][j] = queue[h][j]
  BY <1>1
<1> HIDE DEF n
<1>3. ASSUME NEW t \in Ids \X Nat \X Message
      PROVE  t \in Items(more, held, next) <=> t \in Items(queue, held, next) \/ t = <<h, n + 1, m>>
  <2>1. CASE t[1] # h
    BY <1>1, <2>1 DEF Items
  <2>2. CASE t[1] = h /\ t[2] = n + 1
    BY <1>2, <2>2 DEF Items, n
  <2>3. CASE t[1] = h /\ t[2] # n + 1
    <3>1. t[2] \in 1..(n + 1) <=> t[2] \in 1..n
      BY <1>2, <2>3
    <3> QED BY <1>2, <2>3, <3>1 DEF Items, n
  <2> QED BY <2>1, <2>2, <2>3
<1>4. <<h, n + 1, m>> \in Ids \X Nat \X Message
  BY <1>2
<1>5. \A t : t \in Items(more, held, next) \/ t \in Items(queue, held, next) => t \in Ids \X Nat \X Message
  BY DEF Items
<1> QED BY <1>3, <1>4, <1>5 DEF n

LEMMA ItemsPop ==
  ASSUME NEW queue \in [Ids -> Seq(Message)], NEW r \in Ids, queue[r] # <<>>, NEW held, NEW next,
         NEW short, short = [queue EXCEPT ![r] = Tail(@)]
  PROVE  /\ <<r, 1, Head(queue[r])>> \in Items(queue, held, next)
         /\ \A t \in Items(short, held, next) :
              \/ t[1] = r /\ t[2] # 0 /\ <<r, t[2] + 1, t[3]>> \in Items(queue, held, next)
              \/ (t[1] # r \/ t[2] = 0) /\ t \in Items(queue, held, next)
<1> DEFINE n == Len(queue[r])
<1>1. queue[r] \in Seq(Message) /\ n \in Nat \ {0}
  BY EmptySeq
<1>2. short[r] = Tail(queue[r]) /\ \A q \in Ids \ {r} : short[q] = queue[q]
  OBVIOUS
<1>3. Len(short[r]) = n - 1 /\ \A j \in 1..(n - 1) : short[r][j] = queue[r][j + 1]
  BY <1>1, <1>2, HeadTailProperties
<1>4. Head(queue[r]) = queue[r][1] /\ queue[r][1] \in Message
  BY <1>1
<1>5. <<r, 1, Head(queue[r])>> \in Items(queue, held, next)
  BY <1>1, <1>4 DEF Items
<1>6. ASSUME NEW t \in Items(short, held, next)
      PROVE  \/ t[1] = r /\ t[2] # 0 /\ <<r, t[2] + 1, t[3]>> \in Items(queue, held, next)
             \/ (t[1] # r \/ t[2] = 0) /\ t \in Items(queue, held, next)
  <2>1. CASE t[1] # r \/ t[2] = 0
    BY <1>2, <2>1 DEF Items
  <2>2. CASE t[1] = r /\ t[2] # 0
    <3>1. t[2] \in 1..(n - 1) /\ t[3] = queue[r][t[2] + 1]
      BY <1>3, <2>2 DEF Items
    <3>2. t[2] + 1 \in 1..n /\ t[2] + 1 \in Nat /\ t[3] \in Message
      BY <1>1, <3>1 DEF Items
    <3> QED BY <2>2, <3>1, <3>2 DEF Items
  <2> QED BY <2>1, <2>2
<1> QED BY <1>5, <1>6

AllItems == Items(message_queue, message_queued, next_msg)

LinkOff(r) == [message_queued EXCEPT ![r] = FALSE]

SentItems(r) == Items(QueuesAfterSend(r), LinkOff(r), next_msg)

RestItems(r) == Items([QueuesAfterSend(r) EXCEPT ![r] = Tail(@)], LinkOff(r), next_msg)

LEMMA AllPlaced == TypeOK /\ WayInv => Placed(AllItems)
<1> SUFFICES ASSUME TypeOK, WayInv PROVE Placed(AllItems)
  OBVIOUS
<1>1. message_queue \in [Ids -> Seq(Message)] /\ \A r \in Ids : message_queue[r] \in Seq(ComesBy(r))
  BY DEF TypeOK, WayInv
<1>2. \A r \in Ids : message_queued[r] => next_msg[r].msg \in ComesBy(r) /\ next_msg[r].msg.destination # r
  BY DEF WayInv
<1> QED BY <1>1, <1>2, ItemsPlaced DEF AllItems

LEMMA SentPlaced ==
  ASSUME TypeOK, WayInv, NEW r \in Ids
  PROVE  Placed(SentItems(r))
<1>1. QueuesAfterSend(r) \in [Ids -> Seq(Message)] /\ \A q \in Ids : QueuesAfterSend(r)[q] \in Seq(ComesBy(q))
  BY SendTypes, SendGoesOn
<1>2. \A q \in Ids : LinkOff(r)[q] => next_msg[q].msg \in ComesBy(q) /\ next_msg[q].msg.destination # q
  BY DEF WayInv, TypeOK, LinkOff
<1> QED BY <1>1, <1>2, ItemsPlaced DEF SentItems

(* Two routers at the same position are one. *)
LEMMA SamePlace ==
  ASSUME NEW s, NEW d, NEW x, NEW y, OnWay(x, s, d), OnWay(y, s, d), Pos(x, s, d) = Pos(y, s, d)
  PROVE  x = y
<1>1. Way(s, d)[Pos(x, s, d)] = x /\ Way(s, d)[Pos(y, s, d)] = y
  BY PosIs
<1> QED BY <1>1

(* A send puts the message behind those that are at the next router.       *)
LEMMA SendKeepsOrder ==
  ASSUME TypeOK, WayInv, InOrder(AllItems), NEW r \in Ids
  PROVE  /\ InOrder(SentItems(r))
         /\ \A t \in SentItems(r) : t[1] = r => t[2] # 0
         /\ \A t \in SentItems(r) : \E u \in AllItems : u[3] = t[3]
<1> DEFINE m == next_msg[r].msg
           h == next_msg[r].hop
           old == Items(message_queue, LinkOff(r), next_msg)
<1>0. \A t \in SentItems(r) : t[1] = r => t[2] # 0
  <2>1. ~LinkOff(r)[r]
    BY DEF LinkOff, TypeOK
  <2>2. QueuesAfterSend(r) \in [Ids -> Seq(Message)]
    BY SendTypes
  <2> QED BY <2>1, <2>2 DEF SentItems, Items
<1>1. CASE ~message_queued[r]
  <2>1. LinkOff(r) = message_queued /\ QueuesAfterSend(r) = message_queue
    BY <1>1 DEF LinkOff, QueuesAfterSend, TypeOK
  <2>2. SentItems(r) = AllItems
    BY <2>1 DEF SentItems, AllItems
  <2> QED BY <1>0, <2>2
<1>2. CASE message_queued[r]
  <2>1. m \in Message /\ m.destination # r /\ h = NextHop(r, m.destination) /\ OnWay(r, m.source, m.destination)
    BY <1>2 DEF WayInv, ComesBy
  <2>2. /\ \A t : t \in AllItems <=> t \in old \/ t = <<r, 0, m>>
        /\ \A t \in old : t[1] = r => t[2] # 0
    <3>1. /\ message_queued[r] /\ ~LinkOff(r)[r]
          /\ \A q \in Ids \ {r} : (message_queued[q] <=> LinkOff(r)[q]) /\ next_msg[q] = next_msg[q]
      BY <1>2 DEF LinkOff, TypeOK
    <3>2. next_msg[r].msg \in Message
      BY <2>1
    <3> HIDE DEF m
    <3>3. /\ \A t : t \in Items(message_queue, message_queued, next_msg)
                     <=> t \in Items(message_queue, LinkOff(r), next_msg) \/ t = <<r, 0, next_msg[r].msg>>
          /\ \A t \in Items(message_queue, LinkOff(r), next_msg) : t[1] = r => t[2] # 0
      BY <3>1, <3>2 DEF Items
    <3> QED BY <3>3 DEF AllItems, m
  <2>3. InOrder(old) /\ Placed(old)
    BY <2>2, AllPlaced DEF InOrder, Placed
  <2>4. CASE h \notin Ids
    <3>1. QueuesAfterSend(r) = message_queue
      BY <2>4 DEF QueuesAfterSend
    <3>2. SentItems(r) = old
      BY <3>1 DEF SentItems
    <3> HIDE DEF old, m
    <3> QED BY <1>0, <2>2, <2>3, <3>2
  <2>5. CASE h \in Ids
    <3> DEFINE n == Len(message_queue[h])
               new == <<h, n + 1, m>>
               link == <<r, 0, m>>
    <3>1. n \in Nat /\ \A t \in old : t[1] = h => t[2] <= n
      <4>1. n \in Nat
        BY <2>5 DEF TypeOK
      <4> HIDE DEF n
      <4>2. ASSUME NEW t \in old, t[1] = h PROVE t[2] <= n
        <5>1. t[2] \in Nat /\ (t[2] = 0 \/ t[2] \in 1..n)
          BY <4>2 DEF Items, n
        <5> QED BY <4>1, <5>1
      <4> QED BY <4>1, <4>2
    <3>2. \A t : t \in SentItems(r) <=> t \in old \/ t = new
      <4>1. QueuesAfterSend(r) = [message_queue EXCEPT ![h] = Append(@, m)]
        BY <1>2, <2>5 DEF QueuesAfterSend, Pushed
      <4>2. message_queue \in [Ids -> Seq(Message)]
        BY DEF TypeOK
      <4> HIDE DEF m, h
      <4>3. QueuesAfterSend(r)[h] = Append(message_queue[h], m)
            /\ \A q \in Ids \ {h} : QueuesAfterSend(r)[q] = message_queue[q]
        BY <2>5, <4>1, <4>2
      <4>4. \A t : t \in Items(QueuesAfterSend(r), LinkOff(r), next_msg)
                    <=> t \in Items(message_queue, LinkOff(r), next_msg) \/ t = <<h, Len(message_queue[h]) + 1, m>>
        BY <2>1, <2>5, <4>2, <4>3, ItemsPush
      <4> QED BY <4>4 DEF SentItems
    <3>3. link \in AllItems /\ link \notin old /\ new[3] = m /\ link[3] = m
      BY <2>2
    <3> HIDE DEF old, m, h, n
    <3>4. Fits(old, new)
      <4> SUFFICES ASSUME NEW t \in old, SameFlow(t[3], m), Leads(m.source, m.destination)
                   PROVE  /\ t[3].number # m.number
                          /\ t[3].number < m.number => Ahead(t, new)
                          /\ m.number < t[3].number => Ahead(new, t)
        BY DEF Fits
      <4>1. t \in AllItems /\ t # link /\ link[3] = m
        BY <2>2, <3>3
      <4>2. t[3].number # m.number /\ (t[3].number < m.number => Ahead(t, link)) /\ (m.number < t[3].number => Ahead(link, t))
        <5>1. Leads(t[3].source, t[3].destination) /\ SameFlow(m, t[3])
          BY DEF SameFlow
        <5> QED BY <3>3, <4>1, <5>1 DEF InOrder
      <4>3. At(new) = At(link) + 1 /\ At(link) \in Nat /\ At(t) \in Nat /\ t[2] \in Nat
        <5>1. Pos(NextHop(r, m.destination), m.source, m.destination) = Pos(r, m.source, m.destination) + 1
          BY <2>1, PosNext
        <5>2. At(new) = Pos(h, m.source, m.destination) /\ At(link) = Pos(r, m.source, m.destination)
          BY DEF At
        <5>3. At(link) \in Nat
          BY <3>3, AllPlaced, AtIs
        <5>4. At(t) \in Nat /\ t[2] \in Nat
          BY <2>3, AtIs
        <5> QED BY <2>1, <5>1, <5>2, <5>3, <5>4
      <4>4. ASSUME Ahead(t, link) PROVE Ahead(t, new)
        <5>1. At(link) < At(t)
          BY <4>3, <4>4 DEF Ahead
        <5>2. CASE At(t) = At(new)
          <6>1. OnWay(t[1], m.source, m.destination) /\ OnWay(h, m.source, m.destination)
            BY <2>1, <2>3, WayGoesOn DEF Placed, SameFlow
          <6>2. At(t) = Pos(t[1], m.source, m.destination) /\ At(new) = Pos(h, m.source, m.destination)
            BY DEF At, SameFlow
          <6>3. t[1] = h
            BY <5>2, <6>1, <6>2, SamePlace
          <6>4. t[2] < n + 1
            BY <3>1, <4>3, <6>3
          <6> QED BY <6>3, <6>4 DEF Ahead
        <5>3. CASE At(t) # At(new)
          <6>1. At(new) < At(t)
            BY <4>3, <5>1, <5>3
          <6> QED BY <6>1 DEF Ahead
        <5> QED BY <5>2, <5>3
      <4>5. ASSUME Ahead(link, t) PROVE Ahead(new, t)
        <5>1. At(t) <= At(link)
          <6>1. CASE At(t) < At(link)
            BY <4>3, <6>1
          <6>2. CASE t[1] = r
            <7>1. At(t) = At(link)
              BY <6>2 DEF At, SameFlow
            <7> QED BY <4>3, <7>1
          <6> QED BY <4>5, <6>1, <6>2 DEF Ahead
        <5>2. At(t) < At(new)
          BY <4>3, <5>1
        <5> QED BY <5>2 DEF Ahead
      <4> QED BY <4>2, <4>4, <4>5
    <3>5. InOrder(SentItems(r))
      BY <2>3, <3>2, <3>4, OrderAdds
    <3>6. \A t \in SentItems(r) : \E u \in AllItems : u[3] = t[3]
      BY <2>2, <3>2, <3>3
    <3> QED BY <1>0, <3>5, <3>6
  <2> QED BY <2>4, <2>5
<1> QED BY <1>1, <1>2

(* The message taken was the first at its router: those of its flow that   *)
(* are left and earlier have come further, the later ones have not.        *)
Leading(S, r, m) ==
  \A t \in S : SameFlow(t[3], m) /\ Leads(m.source, m.destination) =>
    /\ t[3].number # m.number
    /\ t[3].number < m.number => Pos(r, m.source, m.destination) < At(t)
    /\ m.number < t[3].number => At(t) < Pos(r, m.source, m.destination) \/ (t[1] = r /\ t[2] # 0)

LEMMA TakeKeepsOrder ==
  ASSUME TypeOK, WayInv, InOrder(AllItems), NEW r \in Ids, QueuesAfterSend(r)[r] # <<>>
  PROVE  /\ InOrder(RestItems(r)) /\ Placed(RestItems(r)) /\ Leading(RestItems(r), r, Taken(r))
         /\ \A t \in RestItems(r) : \E u \in SentItems(r) : u[3] = t[3]
         /\ \E u \in SentItems(r) : u[3] = Taken(r)
<1> DEFINE S == SentItems(r)
           T == RestItems(r)
           m == Taken(r)
           first == <<r, 1, m>>
           Was(t) == IF t[1] = r THEN <<r, t[2] + 1, t[3]>> ELSE t
<1>1. InOrder(S) /\ Placed(S) /\ \A t \in S : t[1] = r => t[2] # 0
  BY SendKeepsOrder, SentPlaced
<1>2. /\ first \in S
      /\ \A t \in T : \/ t[1] = r /\ t[2] # 0 /\ <<r, t[2] + 1, t[3]>> \in S
                      \/ (t[1] # r \/ t[2] = 0) /\ t \in S
  <2>1. QueuesAfterSend(r) \in [Ids -> Seq(Message)]
    BY SendTypes
  <2> QED BY <2>1, ItemsPop DEF Taken, SentItems, RestItems
<1>3. first[1] = r /\ first[2] = 1 /\ first[3] = m
  OBVIOUS
<1> HIDE DEF S, T, m, first
<1>4. \A t \in T : t \in Ids \X Nat \X Message
  BY DEF T, RestItems, Items
<1>5. \A t \in T : /\ Was(t) \in S /\ Was(t) # first /\ (t[1] = r => t[2] # 0 /\ Was(t)[2] = t[2] + 1)
                   /\ Was(t)[1] = t[1] /\ Was(t)[3] = t[3] /\ (t[1] # r => Was(t)[2] = t[2])
  <2> SUFFICES ASSUME NEW t \in T
               PROVE  /\ Was(t) \in S /\ Was(t) # first /\ (t[1] = r => t[2] # 0 /\ Was(t)[2] = t[2] + 1)
                      /\ Was(t)[1] = t[1] /\ Was(t)[3] = t[3] /\ (t[1] # r => Was(t)[2] = t[2])
    OBVIOUS
  <2>1. CASE t[1] = r
    <3>1. t[2] # 0 /\ <<r, t[2] + 1, t[3]>> \in S
      BY <1>1, <1>2, <2>1
    <3>2. t[2] \in Nat /\ t[2] + 1 # 1
      BY <1>4, <3>1
    <3> QED BY <1>3, <2>1, <3>1, <3>2
  <2>2. CASE t[1] # r
    BY <1>2, <1>3, <2>2
  <2> QED BY <2>1, <2>2
<1>6. \A t \in T : At(Was(t)) = At(t)
  BY <1>5 DEF At
<1>7. \A p, q \in T : p # q => Was(p) # Was(q)
  <2> SUFFICES ASSUME NEW p \in T, NEW q \in T, Was(p) = Was(q) PROVE p = q
    OBVIOUS
  <2>1. p[1] = q[1] /\ p[3] = q[3]
    BY <1>5
  <2>2. p[2] = q[2]
    <3>1. p[2] \in Nat /\ q[2] \in Nat
      BY <1>4
    <3> QED BY <1>5, <2>1, <3>1
  <2>3. p = <<p[1], p[2], p[3]>> /\ q = <<q[1], q[2], q[3]>>
    BY <1>4
  <2> QED BY <2>1, <2>2, <2>3
<1>8. \A p, q \in T : Ahead(Was(p), Was(q)) => Ahead(p, q)
  <2> SUFFICES ASSUME NEW p \in T, NEW q \in T, Ahead(Was(p), Was(q)) PROVE Ahead(p, q)
    OBVIOUS
  <2>1. p[2] \in Nat /\ q[2] \in Nat
    BY <1>4
  <2>2. CASE At(Was(q)) < At(Was(p))
    BY <1>6, <2>2 DEF Ahead
  <2>3. CASE Was(p)[1] = Was(q)[1] /\ Was(p)[2] < Was(q)[2]
    BY <1>5, <2>1, <2>3 DEF Ahead
  <2> QED BY <2>2, <2>3 DEF Ahead
<1>9. Placed(T)
  <2> SUFFICES ASSUME NEW t \in T
               PROVE  /\ t \in Ids \X Nat \X Message
                      /\ OnWay(t[1], t[3].source, t[3].destination)
                      /\ t[2] = 0 => t[3].destination # t[1]
    BY DEF Placed
  <2> QED BY <1>1, <1>4, <1>5 DEF Placed
<1>10. \A t \in T : \E u \in S : u[3] = t[3]
  BY <1>5
<1> HIDE DEF Was
<1>11. InOrder(T)
  <2> SUFFICES ASSUME NEW p \in T, NEW q \in T, p # q, SameFlow(p[3], q[3]), Leads(p[3].source, p[3].destination)
               PROVE  p[3].number # q[3].number /\ (p[3].number < q[3].number => Ahead(p, q))
    BY DEF InOrder
  <2>1. Was(p) \in S /\ Was(q) \in S /\ Was(p) # Was(q) /\ Was(p)[3] = p[3] /\ Was(q)[3] = q[3]
    BY <1>5, <1>7
  <2>2. p[3].number # q[3].number /\ (p[3].number < q[3].number => Ahead(Was(p), Was(q)))
    BY <1>1, <2>1 DEF InOrder
  <2> QED BY <1>8, <2>2
<1>12. Leading(T, r, m)
  <2> SUFFICES ASSUME NEW t \in T, SameFlow(t[3], m), Leads(m.source, m.destination)
               PROVE  /\ t[3].number # m.number
                      /\ t[3].number < m.number => Pos(r, m.source, m.destination) < At(t)
                      /\ m.number < t[3].number => At(t) < Pos(r, m.source, m.destination) \/ (t[1] = r /\ t[2] # 0)
    BY DEF Leading
  <2>1. Was(t) \in S /\ Was(t) # first /\ Was(t)[3] = t[3] /\ Was(t)[1] = t[1]
    BY <1>5
  <2>2. SameFlow(m, t[3]) /\ Leads(t[3].source, t[3].destination)
    BY DEF SameFlow
  <2>3. /\ t[3].number # m.number
        /\ t[3].number < m.number => Ahead(Was(t), first)
        /\ m.number < t[3].number => Ahead(first, Was(t))
    BY <1>1, <1>2, <1>3, <2>1, <2>2 DEF InOrder
  <2>4. At(first) = Pos(r, m.source, m.destination)
    BY <1>3 DEF At
  <2>5. t[2] \in Nat /\ ~(Was(t)[1] = r /\ Was(t)[2] < 1)
    BY <1>4, <1>5
  <2>6. ASSUME Ahead(Was(t), first) PROVE Pos(r, m.source, m.destination) < At(t)
    BY <1>3, <1>6, <2>4, <2>5, <2>6 DEF Ahead
  <2>7. ASSUME Ahead(first, Was(t)) PROVE At(t) < Pos(r, m.source, m.destination) \/ (t[1] = r /\ t[2] # 0)
    BY <1>3, <1>5, <1>6, <2>4, <2>7 DEF Ahead
  <2> QED BY <2>3, <2>6, <2>7
<1> QED BY <1>2, <1>3, <1>9, <1>10, <1>11, <1>12 DEF S, T, m

ReceivedFirst(S, got) ==
  \A t \in S : \A j \in 1..Len(got) : SameFlow(t[3], got[j]) => got[j].number < t[3].number

Counted(S, got, n) == (\A t \in S : t[3].number <= n) /\ \A j \in 1..Len(got) : got[j].number <= n

OrderInv ==
  /\ InOrder(AllItems)
  /\ ReceivedFirst(AllItems, received)
  /\ Counted(AllItems, received, Len(age))
  /\ OrderKept

LEMMA InitOrder == Init => OrderInv
<1> SUFFICES ASSUME Init PROVE OrderInv
  OBVIOUS
<1>1. (\A r \in Ids : message_queue[r] = <<>> /\ ~message_queued[r]) /\ received = <<>>
  BY DEF Init
<1>2. AllItems = {}
  BY <1>1 DEF AllItems, Items
<1>3. Len(received) = 0
  BY <1>1
<1>4. InOrder(AllItems) /\ ReceivedFirst(AllItems, received) /\ Counted(AllItems, received, Len(age))
  BY <1>2, <1>3 DEF InOrder, ReceivedFirst, Counted
<1>5. OrderKept
  BY <1>3 DEF OrderKept
<1> QED BY <1>4, <1>5 DEF OrderInv

(* The number of a message that is added is the highest so far.            *)
LEMMA AddOrder == TypeOK /\ TypeOK' /\ WayInv /\ OrderInv /\ AddMessage => OrderInv'
<1> SUFFICES ASSUME TypeOK, TypeOK', WayInv, OrderInv, AddMessage PROVE OrderInv'
  OBVIOUS
<1> DEFINE n == Len(age)
           msg == [number |-> n + 1, source |-> Head(todo)[1], destination |-> Head(todo)[2]]
           h == msg.source
           new == <<h, Len(message_queue[h]) + 1, msg>>
           S == AllItems
           T == Items(message_queue', message_queued, next_msg)
<1>1. n \in Nat /\ Cardinality(DOMAIN age) = n /\ Len(age') = n + 1
  <2>1. n \in Nat /\ DOMAIN age = 1..n /\ Cardinality(DOMAIN age) = n /\ age' = Append(age, 0)
    BY AgeIs DEF AddMessage
  <2>2. age \in Seq(0..Horizon) /\ 0 \in 0..Horizon
    BY NetworkAssumption DEF TypeOK
  <2>3. Len(age') = n + 1
    BY <2>1, <2>2, AppendProperties
  <2> QED BY <2>1, <2>3
<1>2. msg \in Message /\ msg.number = n + 1
  <2>1. Head(todo) \in Nat \X Nat
    BY DEF AddMessage, TypeOK
  <2> QED BY <1>1, <2>1 DEF Message
<1>3. /\ message_queue' = IF h \in Ids THEN [message_queue EXCEPT ![h] = Append(@, msg)] ELSE message_queue
      /\ UNCHANGED <<next_msg, message_queued, received>>
  BY <1>1 DEF AddMessage, Pushed
<1>4. new[1] = h /\ new[2] = Len(message_queue[h]) + 1 /\ new[3] = msg
  OBVIOUS
<1>5. Placed(S) /\ message_queue \in [Ids -> Seq(Message)]
  BY AllPlaced DEF TypeOK
<1> HIDE DEF n, msg
<1>6. \A t : t \in T => t \in S \/ (h \in Ids /\ t = new)
  <2>1. CASE h \in Ids
    <3>1. message_queue'[h] = Append(message_queue[h], msg) /\ \A q \in Ids \ {h} : message_queue'[q] = message_queue[q]
      BY <1>3, <1>5, <2>1
    <3> HIDE DEF h
    <3>2. \A t : t \in Items(message_queue', message_queued, next_msg)
                   <=> t \in Items(message_queue, message_queued, next_msg) \/ t = <<h, Len(message_queue[h]) + 1, msg>>
      BY <1>2, <1>5, <2>1, <3>1, ItemsPush
    <3> QED BY <2>1, <3>2 DEF AllItems
  <2>2. CASE h \notin Ids
    BY <1>3, <2>2 DEF AllItems
  <2> QED BY <2>1, <2>2
<1>7. ASSUME h \in Ids PROVE Fits(S, new)
  <2> SUFFICES ASSUME NEW t \in S, SameFlow(t[3], msg), Leads(msg.source, msg.destination)
               PROVE  t[3].number < msg.number /\ Ahead(t, new)
    <3>1. \A t \in S : t[3].number \in Nat
      BY <1>5, AtIs
    <3> HIDE DEF new, S
    <3> QED BY <1>1, <1>2, <1>4, <3>1 DEF Fits
  <2>1. t[3].number < msg.number
    <3>1. t[3].number <= n /\ t[3].number \in Nat
      BY <1>5, AtIs DEF OrderInv, Counted, n
    <3> QED BY <1>1, <1>2, <3>1
  <2>2. At(new) = 0 /\ OnWay(h, msg.source, msg.destination)
    BY <1>4, PosSource DEF At
  <2>3. At(t) \in Nat /\ t[2] \in Nat /\ OnWay(t[1], msg.source, msg.destination)
        /\ At(t) = Pos(t[1], msg.source, msg.destination)
    BY <1>5, AtIs DEF Placed, SameFlow, At
  <2>4. CASE At(t) = 0
    <3>1. At(new) = Pos(h, msg.source, msg.destination)
      BY <1>4 DEF At
    <3>2. t[1] = h
      BY <2>2, <2>3, <2>4, <3>1, SamePlace
    <3>3. t[2] < Len(message_queue[h]) + 1
      <4>1. Len(message_queue[h]) \in Nat
        BY <1>5, <1>7
      <4>2. t[2] = 0 \/ t[2] \in 1..Len(message_queue[h])
        BY <3>2 DEF AllItems, Items
      <4> QED BY <2>3, <4>1, <4>2
    <3> QED BY <1>4, <2>1, <3>2, <3>3 DEF Ahead
  <2>5. CASE At(t) # 0
    <3>1. At(new) < At(t)
      BY <2>2, <2>3, <2>5
    <3> QED BY <2>1, <3>1 DEF Ahead
  <2> QED BY <2>4, <2>5
<1> HIDE DEF h, new, S, T
<1>8. InOrder(T)
  <2>1. InOrder(S)
    BY DEF OrderInv, S
  <2>2. CASE h \in Ids
    BY <1>6, <1>7, <2>1, <2>2, OrderAdds
  <2>3. CASE h \notin Ids
    BY <1>6, <2>1, <2>3 DEF InOrder
  <2> QED BY <2>2, <2>3
<1>9. \A t \in S : t[3].number <= n /\ t[3].number \in Nat
  BY <1>5, AtIs DEF OrderInv, Counted, n, S
<1>10. \A j \in 1..Len(received) : received[j].number <= n /\ received[j].number \in Nat
  <2>1. received \in Seq(Message)
    BY DEF TypeOK
  <2>2. \A j \in 1..Len(received) : received[j] \in Message
    BY <2>1, ElementOfSeq
  <2> QED BY <2>2 DEF OrderInv, Counted, n, Message
<1>11. ReceivedFirst(T, received)
  <2>1. ASSUME NEW t \in T, NEW j \in 1..Len(received), SameFlow(t[3], received[j])
        PROVE  received[j].number < t[3].number
    <3>1. CASE t \in S
      BY <2>1, <3>1 DEF OrderInv, ReceivedFirst, S
    <3>2. CASE t = new
      BY <1>1, <1>2, <1>4, <1>10, <3>2
    <3> QED BY <1>6, <3>1, <3>2
  <2> QED BY <2>1 DEF ReceivedFirst
<1>12. Counted(T, received, n + 1)
  <2>1. \A t \in T : t[3].number <= n + 1
    <3>1. \A t \in S : t[3].number <= n + 1
      BY <1>1, <1>9
    <3>2. new[3].number <= n + 1
      BY <1>1, <1>2, <1>4
    <3> QED BY <1>6, <3>1, <3>2
  <2>2. \A j \in 1..Len(received) : received[j].number <= n + 1
    BY <1>1, <1>10
  <2> QED BY <2>1, <2>2 DEF Counted
<1>13. AllItems' = T /\ OrderKept'
  BY <1>3 DEF AllItems, T, OrderInv, OrderKept
<1> QED BY <1>1, <1>3, <1>8, <1>11, <1>12, <1>13 DEF OrderInv

(* No message comes to the items, or goes from them to the receipts, with  *)
(* a number of its own.                                                    *)
LEMMA NumbersKept ==
  ASSUME NEW S, NEW T, \A t \in T : \E u \in S : u[3] = t[3], NEW got, NEW n
  PROVE  /\ ReceivedFirst(S, got) => ReceivedFirst(T, got)
         /\ Counted(S, got, n) => Counted(T, got, n)
BY DEF ReceivedFirst, Counted

LEMMA SendLastOrder ==
  ASSUME TypeOK, WayInv, OrderInv, NEW r \in Ids, SendLast(r)
  PROVE  OrderInv'
<1>1. /\ message_queue' = QueuesAfterSend(r) /\ message_queued' = LinkOff(r)
      /\ UNCHANGED <<next_msg, received, age>>
  BY DEF SendLast, Sending, HeldAfterSend, LinkOff, timeVars
<1>2. AllItems' = SentItems(r) /\ OrderKept'
  BY <1>1 DEF AllItems, SentItems, OrderInv, OrderKept
<1>3. InOrder(SentItems(r)) /\ \A t \in SentItems(r) : \E u \in AllItems : u[3] = t[3]
  BY SendKeepsOrder DEF OrderInv
<1>4. ReceivedFirst(SentItems(r), received) /\ Counted(SentItems(r), received, Len(age))
  BY <1>3, NumbersKept DEF OrderInv
<1> QED BY <1>1, <1>2, <1>3, <1>4 DEF OrderInv

(* What holds of the items when a message is taken. *)
LEMMA TakeOrder ==
  ASSUME TypeOK, WayInv, OrderInv, NEW r \in Ids, QueuesAfterSend(r)[r] # <<>>
  PROVE  /\ InOrder(RestItems(r)) /\ Placed(RestItems(r)) /\ Leading(RestItems(r), r, Taken(r))
         /\ ReceivedFirst(RestItems(r), received) /\ Counted(RestItems(r), received, Len(age))
         /\ Taken(r).number <= Len(age)
         /\ \A j \in 1..Len(received) : SameFlow(Taken(r), received[j]) => received[j].number < Taken(r).number
<1> DEFINE T == RestItems(r)
           S == SentItems(r)
           n == Len(age)
<1>1. /\ InOrder(T) /\ Placed(T) /\ Leading(T, r, Taken(r))
      /\ \A t \in T : \E u \in S : u[3] = t[3]
      /\ \E u \in S : u[3] = Taken(r)
  BY TakeKeepsOrder DEF OrderInv
<1>2. \A t \in S : \E u \in AllItems : u[3] = t[3]
  BY SendKeepsOrder DEF OrderInv
<1>3. ReceivedFirst(AllItems, received) /\ Counted(AllItems, received, n)
  BY DEF OrderInv
<1> HIDE DEF T, S, n
<1>4. ReceivedFirst(S, received) /\ Counted(S, received, n)
  BY <1>2, <1>3, NumbersKept
<1>5. ReceivedFirst(T, received) /\ Counted(T, received, n)
  BY <1>1, <1>4, NumbersKept
<1>6. Taken(r).number <= n /\ \A j \in 1..Len(received) : SameFlow(Taken(r), received[j]) => received[j].number < Taken(r).number
  BY <1>1, <1>4 DEF ReceivedFirst, Counted
<1> QED BY <1>1, <1>5, <1>6 DEF T, n

LEMMA PrepareOrder ==
  ASSUME TypeOK, WayInv, OrderInv, NEW r \in Ids, Prepare(r)
  PROVE  OrderInv'
<1> DEFINE S == RestItems(r)
           T == AllItems'
           m == Taken(r)
           new == <<r, 0, m>>
           e == [hop |-> NextHop(r, m.destination), msg |-> m]
           n == Len(age)
<1>1. /\ message_queue' = [QueuesAfterSend(r) EXCEPT ![r] = Tail(@)]
      /\ message_queued' = [message_queued EXCEPT ![r] = TRUE]
      /\ next_msg' = [next_msg EXCEPT ![r] = e] /\ UNCHANGED <<received, age>>
      /\ QueuesAfterSend(r)[r] # <<>>
  BY DEF Prepare, Sending, timeVars
<1>2. /\ InOrder(S) /\ Placed(S) /\ Leading(S, r, m)
      /\ ReceivedFirst(S, received) /\ Counted(S, received, n)
      /\ m.number <= n
      /\ \A j \in 1..Len(received) : SameFlow(m, received[j]) => received[j].number < m.number
  BY <1>1, TakeOrder
<1>3. m \in Message /\ OnWay(r, m.source, m.destination)
  BY <1>1, TakenOnWay DEF ComesBy
<1>4. new[1] = r /\ new[2] = 0 /\ new[3] = m /\ e.msg = m
  OBVIOUS
<1> HIDE DEF m, e, n
<1>5. \A t \in T : t \in S \/ t = new
  <2>1. message_queued'[r] /\ next_msg'[r].msg = m
    BY <1>1, <1>4 DEF TypeOK
  <2>2. \A q \in Ids \ {r} : (message_queued'[q] <=> LinkOff(r)[q]) /\ next_msg'[q] = next_msg[q]
    BY <1>1 DEF LinkOff, TypeOK
  <2> SUFFICES ASSUME NEW t \in T, t # new PROVE t \in S
    OBVIOUS
  <2>3. t \in Items(message_queue', message_queued', next_msg')
    BY DEF AllItems
  <2>4. t = <<t[1], t[2], t[3]>>
    BY <2>3 DEF Items
  <2>5. t \in Items(message_queue', LinkOff(r), next_msg)
    BY <2>1, <2>2, <2>3, <2>4 DEF Items
  <2> QED BY <1>1, <2>5 DEF RestItems
<1> HIDE DEF S, T, new
<1>6. Fits(S, new)
  <2> SUFFICES ASSUME NEW t \in S, SameFlow(t[3], m), Leads(m.source, m.destination)
               PROVE  /\ t[3].number # m.number
                      /\ t[3].number < m.number => Ahead(t, new)
                      /\ m.number < t[3].number => Ahead(new, t)
    BY <1>4 DEF Fits
  <2>1. At(new) = Pos(r, m.source, m.destination) /\ t[2] \in Nat
    BY <1>2, <1>4, AtIs DEF At
  <2> QED BY <1>2, <1>4, <2>1 DEF Leading, Ahead
<1>7. InOrder(T)
  BY <1>2, <1>5, <1>6, OrderAdds
<1>8. ReceivedFirst(T, received)
  BY <1>2, <1>4, <1>5 DEF ReceivedFirst
<1>9. Counted(T, received, n)
  BY <1>2, <1>4, <1>5 DEF Counted
<1>10. OrderKept'
  BY <1>1 DEF OrderInv, OrderKept
<1> QED BY <1>1, <1>7, <1>8, <1>9, <1>10 DEF OrderInv, T, n

LEMMA ReceiveOrder ==
  ASSUME TypeOK, WayInv, OrderInv, NEW r \in Ids, Receive(r)
  PROVE  OrderInv'
<1> DEFINE S == RestItems(r)
           m == Taken(r)
           n == Len(age)
           got == Len(received)
<1>1. /\ message_queue' = [QueuesAfterSend(r) EXCEPT ![r] = Tail(@)]
      /\ message_queued' = LinkOff(r) /\ next_msg' = next_msg
      /\ received' = Append(received, m) /\ age' = age
      /\ QueuesAfterSend(r)[r] # <<>> /\ m.destination = r
  BY DEF Receive, Sending, HeldAfterSend, LinkOff, timeVars
<1>2. /\ InOrder(S) /\ Placed(S) /\ Leading(S, r, m)
      /\ ReceivedFirst(S, received) /\ Counted(S, received, n)
      /\ m.number <= n
      /\ \A j \in 1..Len(received) : SameFlow(m, received[j]) => received[j].number < m.number
  BY <1>1, TakeOrder
<1>3. m \in Message /\ OnWay(r, m.source, m.destination)
  BY <1>1, TakenOnWay DEF ComesBy
<1>4. /\ got \in Nat /\ Len(received') = got + 1 /\ received'[got + 1] = m
      /\ \A j \in 1..got : received'[j] = received[j]
  <2>1. received \in Seq(Message)
    BY DEF TypeOK
  <2> QED BY <1>1, <1>3, <2>1, AppendProperties
<1>5. AllItems' = S
  BY <1>1 DEF AllItems, RestItems
<1>6. Leads(m.source, r)
  <2>1. PICK k \in 0..N : Way(m.source, r)[k] = r
    BY <1>1, <1>3 DEF OnWay
  <2>2. N \in k..N
    BY RoutersAre
  <2>3. \A j \in k..N : Way(m.source, r)[j] = r
    BY <2>1, WayEnds
  <2> QED BY <2>2, <2>3 DEF Leads
<1> HIDE DEF S, m, n, got
(* None of its flow is further than at the destination, or there before. *)
<1>7. ASSUME NEW t \in S, SameFlow(t[3], m) PROVE m.number < t[3].number
  <2>1. OnWay(t[1], m.source, r) /\ At(t) = Pos(t[1], m.source, r)
    BY <1>1, <1>2, <1>7 DEF Placed, SameFlow, At
  <2>2. At(t) <= Pos(r, m.source, r)
    BY <1>6, <2>1, PosLast
  <2>3. OnWay(r, m.source, r)
    BY <1>1, <1>3
  <2>4. At(t) \in Nat /\ Pos(r, m.source, r) \in Nat /\ t[3].number \in Nat /\ m.number \in Nat
    <3>1. At(t) \in Nat /\ t[3].number \in Nat
      BY <1>2, AtIs
    <3>2. Pos(r, m.source, r) \in 0..N
      BY <2>3, PosIs
    <3> QED BY <1>3, <3>1, <3>2 DEF Message
  <2>5. /\ t[3].number # m.number
        /\ t[3].number < m.number => Pos(r, m.source, r) < At(t)
    BY <1>1, <1>2, <1>6, <1>7 DEF Leading
  <2> QED BY <2>2, <2>4, <2>5
<1>8. ASSUME NEW j \in 1..(got + 1) PROVE j = got + 1 \/ j \in 1..got
  BY <1>4
<1>9. ReceivedFirst(S, received')
  <2>1. ASSUME NEW t \in S, NEW j \in 1..(got + 1), SameFlow(t[3], received'[j])
        PROVE  received'[j].number < t[3].number
    <3>1. CASE j = got + 1
      BY <1>4, <1>7, <2>1, <3>1
    <3>2. CASE j \in 1..got
      BY <1>2, <1>4, <2>1, <3>2 DEF ReceivedFirst, got
    <3> QED BY <1>8, <3>1, <3>2
  <2> QED BY <1>4, <2>1 DEF ReceivedFirst
<1>10. Counted(S, received', n)
  <2>1. \A j \in 1..(got + 1) : received'[j].number <= n
    BY <1>2, <1>4, <1>8 DEF Counted, got
  <2> QED BY <1>2, <1>4, <2>1 DEF Counted
<1>11. OrderKept'
  <2> SUFFICES ASSUME NEW a \in 1..(got + 1), NEW b \in 1..(got + 1), a < b,
                      received'[a].source = received'[b].source, received'[a].destination = received'[b].destination
               PROVE  received'[a].number < received'[b].number
    BY <1>4 DEF OrderKept
  <2>1. CASE b = got + 1
    <3>1. a \in 1..got
      BY <1>4, <1>8, <2>1
    <3> QED BY <1>2, <1>4, <2>1, <3>1 DEF SameFlow, got
  <2>2. CASE b # got + 1
    <3>1. a \in 1..got /\ b \in 1..got
      BY <1>4, <2>2
    <3> QED BY <1>4, <3>1 DEF OrderInv, OrderKept, got
  <2> QED BY <2>1, <2>2
<1> QED BY <1>1, <1>2, <1>5, <1>9, <1>10, <1>11 DEF OrderInv, n

LEMMA NextOrder == TypeOK /\ TypeOK' /\ WayInv /\ OrderInv /\ [Next]_vars => OrderInv'
<1> SUFFICES ASSUME TypeOK, TypeOK', WayInv, OrderInv, [Next]_vars PROVE OrderInv'
  OBVIOUS
<1>1. ASSUME UNCHANGED <<message_queue, next_msg, message_queued, received>>, Len(age') = Len(age) PROVE OrderInv'
  BY <1>1 DEF OrderInv, AllItems, OrderKept
<1>2. CASE Tick
  <2>1. UNCHANGED <<message_queue, next_msg, message_queued, received>> /\ DOMAIN age' = DOMAIN age
    BY <1>2 DEF Tick
  <2>2. Len(age') = Len(age)
    <3>1. Cardinality(DOMAIN age) = Len(age)
      BY AgeIs
    <3>2. Cardinality(DOMAIN age') = Len(age')
      BY AgeIsNext
    <3> QED BY <2>1, <3>1, <3>2
  <2> QED BY <1>1, <2>1, <2>2
<1>3. CASE AddMessage
  BY <1>3, AddOrder
<1>4. CASE \E r \in Ids : SendLast(r) \/ Receive(r) \/ Prepare(r)
  BY <1>4, SendLastOrder, ReceiveOrder, PrepareOrder
<1>5. CASE TestFinished \/ (\E r \in Ids : PollWaiting(r)) \/ UNCHANGED vars
  BY <1>1, <1>5 DEF TestFinished, PollWaiting, vars, routerVars, timeVars
<1> QED BY <1>2, <1>3, <1>4, <1>5 DEF Next, Main

(* Of two messages of one flow the earlier is never behind the later.      *)
THEOREM OrderInvariant == Spec => []OrderInv
BY WayInvariant, InitOrder, NextOrder, PTL DEF Spec

(* Two messages of the same source and destination are received in the     *)
(* order they were added, whatever tables, delays and other messages there *)
(* are.                                                                    *)
THEOREM OrderIsKept == Spec => []OrderKept
<1>1. OrderInv => OrderKept
  BY DEF OrderInv
<1> QED BY <1>1, OrderInvariant, PTL

(* The time a message takes at least: the delays of the links on its way,  *)
(* added up as far as it has come.                                         *)

Turns(s, d, n) == {j \in 1..n : Way(s, d)[j - 1] \in Ids \ {d}}

Delay(s, d) == [j \in 1..N |-> LinkDelay(Way(s, d)[j - 1], Way(s, d)[j])]

Far(s, d, n) == Cardinality(Cells(Delay(s, d), Turns(s, d, n)))

LEMMA TurnsAre ==
  ASSUME NEW s, NEW d, NEW n \in 0..N
  PROVE  /\ IsFiniteSet(Turns(s, d, n))
         /\ \A j \in Turns(s, d, n) : Delay(s, d)[j] \in Nat
<1>1. IsFiniteSet(1..n)
  <2>1. n \in Nat
    BY RoutersAre
  <2> QED BY <2>1, FS_Interval
<1>2. IsFiniteSet(Turns(s, d, n))
  BY <1>1, FS_Subset DEF Turns
<1>3. ASSUME NEW j \in Turns(s, d, n) PROVE Delay(s, d)[j] \in Nat
  <2>1. j \in 1..N /\ Way(s, d)[j - 1] \in Ids
    BY RoutersAre DEF Turns
  <2> QED BY <2>1, HopsAre DEF Delay
<1> QED BY <1>2, <1>3

LEMMA FarIs ==
  ASSUME NEW s, NEW d, NEW n \in 0..N
  PROVE  Far(s, d, n) \in Nat /\ \A k \in n..N : Far(s, d, n) <= Far(s, d, k)
<1>1. IsFiniteSet(Cells(Delay(s, d), Turns(s, d, n)))
  BY TurnsAre, CellsFinite
<1>2. Far(s, d, n) \in Nat
  BY <1>1, FS_CardinalityType DEF Far
<1>3. ASSUME NEW k \in n..N PROVE Far(s, d, n) <= Far(s, d, k)
  <2>1. k \in 0..N
    BY RoutersAre
  <2>2. IsFiniteSet(Cells(Delay(s, d), Turns(s, d, k)))
    BY <2>1, TurnsAre, CellsFinite
  <2>3. Turns(s, d, n) \subseteq Turns(s, d, k)
    BY <2>1, RoutersAre DEF Turns
  <2>4. Cells(Delay(s, d), Turns(s, d, n)) \subseteq Cells(Delay(s, d), Turns(s, d, k))
    BY <2>3 DEF Cells
  <2> QED BY <2>2, <2>4, FS_Subset DEF Far
<1> QED BY <1>2, <1>3

LEMMA FarStarts == ASSUME NEW s, NEW d PROVE Far(s, d, 0) = 0
<1>1. Turns(s, d, 0) = {}
  BY DEF Turns
<1>2. Cells(Delay(s, d), {}) = {}
  BY DEF Cells
<1> QED BY <1>1, <1>2, FS_EmptySet DEF Far

LEMMA FarGoesOn ==
  ASSUME NEW s, NEW d, NEW n \in Nat, n < N, Way(s, d)[n] \in Ids \ {d}
  PROVE  Far(s, d, n + 1) = Far(s, d, n) + LinkDelay(Way(s, d)[n], Way(s, d)[n + 1])
<1>1. n + 1 \in 0..N /\ n + 1 \in 1..N /\ (n + 1) - 1 = n
  BY RoutersAre
<1>2. n + 1 \in Turns(s, d, n + 1)
  BY <1>1 DEF Turns
<1>3. Turns(s, d, n + 1) \ {n + 1} = Turns(s, d, n)
  <2>1. \A j : j \in 1..n <=> j \in 1..(n + 1) /\ j # n + 1
    OBVIOUS
  <2> QED BY <2>1 DEF Turns
<1>4. Delay(s, d)[n + 1] = LinkDelay(Way(s, d)[n], Way(s, d)[n + 1])
  BY <1>1 DEF Delay
<1>5. IsFiniteSet(Turns(s, d, n + 1)) /\ \A j \in Turns(s, d, n + 1) : Delay(s, d)[j] \in Nat
  BY <1>1, TurnsAre
<1> QED BY <1>2, <1>3, <1>4, <1>5, CellsSplit DEF Far

LEMMA FarEnds ==
  ASSUME NEW s, NEW d, NEW n \in 0..N, Way(s, d)[n] = d
  PROVE  Far(s, d, n) = Far(s, d, N)
<1>1. ASSUME NEW j \in 1..N, j \notin 1..n PROVE j \notin Turns(s, d, N)
  <2>1. j - 1 \in n..N
    BY <1>1, RoutersAre
  <2>2. Way(s, d)[j - 1] = d
    BY <2>1, WayEnds
  <2> QED BY <2>2 DEF Turns
<1>2. 1..n \subseteq 1..N
  BY RoutersAre
<1>3. Turns(s, d, n) = Turns(s, d, N)
  BY <1>1, <1>2 DEF Turns
<1> QED BY <1>3 DEF Far

LEMMA FarIsWayDelay ==
  ASSUME NEW m \in Message
  PROVE  WayDelay(m) = Far(m.source, m.destination, N)
<1> DEFINE s == m.source
           d == m.destination
           S == Turns(s, d, N)
           size == [t \in SUBSET S |-> Cardinality(Cells(Delay(s, d), t))]
           iter[t \in SUBSET S] ==
             IF t = {} THEN 0
             ELSE LinkDelay(Way(s, d)[First(t) - 1], Way(s, d)[First(t)]) + iter[t \ {First(t)}]
<1>1. WayDelay(m) = iter[S]
  BY Zenon DEF WayDelay, MapThenSumSet, MapThenFoldSet, First, Turns
<1>2. IsFiniteSet(S) /\ \A j \in S : Delay(s, d)[j] \in Nat
  BY RoutersAre, TurnsAre
<1>3. \A j \in S : Delay(s, d)[j] = LinkDelay(Way(s, d)[j - 1], Way(s, d)[j])
  BY DEF Turns, Delay
<1> HIDE DEF S
<1>4. \A t \in SUBSET S : t \ {First(t)} \in SUBSET S /\ (t # {} => First(t) \in S)
  BY DEF First
<1>5. \A t \in SUBSET S : size[t] = IF t = {} THEN 0
                                    ELSE LinkDelay(Way(s, d)[First(t) - 1], Way(s, d)[First(t)]) + size[t \ {First(t)}]
  <2> SUFFICES ASSUME NEW t \in SUBSET S
               PROVE  size[t] = IF t = {} THEN 0
                                ELSE LinkDelay(Way(s, d)[First(t) - 1], Way(s, d)[First(t)]) + size[t \ {First(t)}]
    BY Zenon
  <2>1. Cardinality(Cells(Delay(s, d), t)) =
          IF t = {} THEN 0 ELSE Delay(s, d)[First(t)] + Cardinality(Cells(Delay(s, d), t \ {First(t)}))
    <3>1. \A f : (\A x \in S : f[x] \in Nat) =>
            Cardinality(Cells(f, t)) = IF t = {} THEN 0 ELSE f[First(t)] + Cardinality(Cells(f, t \ {First(t)}))
      BY <1>2, CellsRecur
    <3> QED BY <1>2, <3>1, Zenon
  <2>2. size[t] = IF t = {} THEN 0 ELSE Delay(s, d)[First(t)] + size[t \ {First(t)}]
    BY <1>4, <2>1
  <2> HIDE DEF size
  <2> QED BY <1>3, <1>4, <2>2
<1>6. size = [t \in SUBSET S |-> IF t = {} THEN 0
                                 ELSE LinkDelay(Way(s, d)[First(t) - 1], Way(s, d)[First(t)]) + size[t \ {First(t)}]]
  BY <1>5, Zenon
<1>7. iter = [t \in SUBSET S |-> IF t = {} THEN 0
                                 ELSE LinkDelay(Way(s, d)[First(t) - 1], Way(s, d)[First(t)]) + iter[t \ {First(t)}]]
  <2> HIDE DEF size
  <2>1. \E h : h = [t \in SUBSET S |-> IF t = {} THEN 0
                                 ELSE LinkDelay(Way(s, d)[First(t) - 1], Way(s, d)[First(t)]) + h[t \ {First(t)}]]
    BY <1>6
  <2> QED BY <2>1, Zenon DEF iter
<1> HIDE DEF iter, size
<1>8. \A t \in SUBSET S : iter[t] = IF t = {} THEN 0
                                    ELSE LinkDelay(Way(s, d)[First(t) - 1], Way(s, d)[First(t)]) + iter[t \ {First(t)}]
  BY <1>7, Zenon
<1>9. \A t \in SUBSET S : iter[t] = IF t = {} THEN 0 ELSE Delay(s, d)[First(t)] + iter[t \ {First(t)}]
  BY <1>3, <1>4, <1>8
<1> QED BY <1>1, <1>2, <1>9, RecursionIsCells DEF Far, S

-----------------------------------------------------------------------------
(* A message that comes to x in w ticks will have been under way for at    *)
(* least the delays of the links it has left; what is at Horizon is not    *)
(* counted further.                                                        *)
Timely(x, w, a) ==
  {m \in Message :
     /\ m.number \in DOMAIN a
     /\ \/ a[m.number] = Horizon
        \/ \E n \in 0..N : /\ Way(m.source, m.destination)[n] = x
                           /\ Far(m.source, m.destination, n) <= a[m.number] + w}

OnTime(a) == {m \in Message : m \in Timely(m.destination, 0, a)}

TimeInv ==
  /\ \A r \in Ids : message_queue[r] \in Seq(Timely(r, 0, age))
  /\ \A r \in Ids : message_queued[r] => next_msg[r].msg \in Timely(next_msg[r].hop, wait[r], age)
  /\ received \in Seq(OnTime(age))

LEMMA AgesAre ==
  ASSUME TypeOK, NEW k \in DOMAIN age
  PROVE  age[k] \in 0..Horizon
<1>1. age \in Seq(0..Horizon) /\ DOMAIN age = 1..Len(age)
  BY AgeIs DEF TypeOK
<1> QED BY <1>1, ElementOfSeq

LEMMA NewIsTimely ==
  ASSUME NEW m \in Message, NEW a, m.number \in DOMAIN a, a[m.number] = 0
  PROVE  m \in Timely(m.source, 0, a)
<1>1. 0 \in 0..N
  BY RoutersAre
<1>2. Way(m.source, m.destination)[0] = m.source /\ Far(m.source, m.destination, 0) = 0
  BY WaySteps, FarStarts
<1> QED BY <1>1, <1>2 DEF Timely

(* A link takes at least its delay.                                        *)
LEMMA LinkIsTimely ==
  ASSUME TypeOK, NEW r \in Ids, NEW m \in Timely(r, 0, age), m.destination # r
  PROVE  LET hop == NextHop(r, m.destination)
         IN  m \in Timely(hop, LinkDelay(r, hop), age)
<1> DEFINE s == m.source
           d == m.destination
           hop == NextHop(r, d)
           t == age[m.number]
<1>1. m \in Message /\ m.number \in DOMAIN age
  BY DEF Timely
<1> HIDE DEF s, d, hop, t
<1>2. CASE t = Horizon
  BY <1>1, <1>2 DEF Timely, t, hop, d
<1>3. CASE t # Horizon
  <2>1. PICK k \in 0..N : Way(s, d)[k] = r /\ Far(s, d, k) <= t + 0
    BY <1>3 DEF Timely, s, d, t
  <2>2. t \in Nat /\ LinkDelay(r, hop) \in Nat
    <3>1. t \in 0..Horizon /\ Horizon \in Nat
      BY <1>1, AgesAre, NetworkAssumption DEF t
    <3> QED BY <3>1, HopsAre
  <2>3. PICK n \in Nat : n < N /\ Way(s, d)[n] = r /\ Far(s, d, n) <= t
    <3>1. CASE k < N
      BY <2>1, <2>2, <3>1, FarIs, RoutersAre
    <3>2. CASE k = N
      <4>1. r \in Ids \ {d}
        BY DEF d
      <4>2. PICK n \in Nat : n < N /\ Way(s, d)[n] = r
        BY <2>1, <3>2, <4>1, WayTurns
      <4>3. n \in 0..N /\ N \in n..N /\ N \in 0..N
        BY <4>2, RoutersAre
      <4>4. Far(s, d, n) <= Far(s, d, N) /\ Far(s, d, n) \in Nat /\ Far(s, d, N) \in Nat
        BY <4>3, FarIs
      <4> QED BY <2>1, <2>2, <3>2, <4>2, <4>4
    <3> QED BY <3>1, <3>2, RoutersAre
  <2>4. n + 1 \in 0..N /\ n \in 0..N
    BY <2>3, RoutersAre
  <2>5. Way(s, d)[n + 1] = hop
    BY <2>3, WaySteps DEF Onward, hop, d
  <2>6. Far(s, d, n + 1) = Far(s, d, n) + LinkDelay(r, hop)
    <3>1. Way(s, d)[n] \in Ids \ {d}
      BY <2>3 DEF d
    <3> QED BY <2>3, <2>5, <3>1, FarGoesOn
  <2>7. Far(s, d, n + 1) <= t + LinkDelay(r, hop)
    <3>1. Far(s, d, n) \in Nat
      BY <2>4, FarIs
    <3> QED BY <2>2, <2>3, <2>6, <3>1
  <2> QED BY <1>1, <2>4, <2>5, <2>7 DEF Timely, s, d, hop, t
<1> QED BY <1>2, <1>3

(* Later on, or with less to wait for as time goes by, it stays so.        *)
LEMMA StaysTimely ==
  ASSUME NEW x, NEW w \in Nat, NEW v \in Nat, NEW a, NEW b, NEW m \in Timely(x, w, a),
         m.number \in DOMAIN b, a[m.number] \in Nat, b[m.number] \in Nat,
         a[m.number] = Horizon => b[m.number] = Horizon,
         b[m.number] = Horizon \/ b[m.number] + v >= a[m.number] + w
  PROVE  m \in Timely(x, v, b)
<1>1. CASE b[m.number] = Horizon
  BY <1>1 DEF Timely
<1>2. CASE b[m.number] # Horizon
  <2>1. PICK n \in 0..N : /\ Way(m.source, m.destination)[n] = x
                          /\ Far(m.source, m.destination, n) <= a[m.number] + w
    BY <1>2 DEF Timely
  <2>2. Far(m.source, m.destination, n) \in Nat
    BY FarIs
  <2>3. Far(m.source, m.destination, n) <= b[m.number] + v
    BY <1>2, <2>1, <2>2
  <2> QED BY <2>1, <2>3 DEF Timely
<1> QED BY <1>1, <1>2

LEMMA SendIsTimely ==
  ASSUME TypeOK, TimeInv, NEW r \in Ids, wait[r] = 0
  PROVE  \A q \in Ids : QueuesAfterSend(r)[q] \in Seq(Timely(q, 0, age))
<1> DEFINE m == next_msg[r].msg
           h == next_msg[r].hop
<1>1. \A q \in Ids : message_queue[q] \in Seq(Timely(q, 0, age))
  BY DEF TimeInv
<1>2. CASE message_queued[r] /\ h \in Ids
  <2>1. m \in Timely(h, 0, age)
    BY <1>2 DEF TimeInv
  <2>2. QueuesAfterSend(r) = [message_queue EXCEPT ![h] = Append(@, m)]
    BY <1>2 DEF QueuesAfterSend, Pushed
  <2> HIDE DEF m, h
  <2>3. Append(message_queue[h], m) \in Seq(Timely(h, 0, age))
    BY <1>1, <1>2, <2>1, AppendProperties
  <2>4. QueuesAfterSend(r)[h] = Append(message_queue[h], m) /\ \A q \in Ids \ {h} : QueuesAfterSend(r)[q] = message_queue[q]
    BY <1>2, <2>2 DEF TypeOK
  <2> QED BY <1>1, <2>3, <2>4
<1>3. CASE ~(message_queued[r] /\ h \in Ids)
  BY <1>1, <1>3 DEF QueuesAfterSend
<1> QED BY <1>2, <1>3

LEMMA TakenIsTimely ==
  ASSUME TypeOK, TimeInv, NEW r \in Ids, wait[r] = 0, QueuesAfterSend(r)[r] # <<>>
  PROVE  /\ Taken(r) \in Timely(r, 0, age)
         /\ \A q \in Ids : [QueuesAfterSend(r) EXCEPT ![r] = Tail(@)][q] \in Seq(Timely(q, 0, age))
<1>1. \A q \in Ids : QueuesAfterSend(r)[q] \in Seq(Timely(q, 0, age))
  BY SendIsTimely
<1>2. Taken(r) \in Timely(r, 0, age) /\ Tail(QueuesAfterSend(r)[r]) \in Seq(Timely(r, 0, age))
  BY <1>1, HeadTailProperties DEF Taken
<1>3. DOMAIN QueuesAfterSend(r) = Ids
  BY SendTypes
<1> QED BY <1>1, <1>2, <1>3

LEMMA InitTime == Init => TimeInv
<1>1. \A S : <<>> \in Seq(S)
  OBVIOUS
<1> QED BY <1>1 DEF Init, TimeInv

LEMMA PollTime ==
  ASSUME TypeOK, TimeInv, NEW r \in Ids, SendLast(r) \/ Receive(r) \/ Prepare(r)
  PROVE  TimeInv'
<1>1. wait[r] = 0 /\ age' = age
  BY DEF SendLast, Receive, Prepare, Sending, Ready, timeVars
<1>2. CASE SendLast(r)
  <2>1. /\ message_queue' = QueuesAfterSend(r) /\ UNCHANGED <<next_msg, wait, received>>
        /\ \A q \in Ids : message_queued'[q] => message_queued[q]
    BY <1>2 DEF SendLast, HeldAfterSend, TypeOK
  <2> QED BY <1>1, <2>1, SendIsTimely DEF TimeInv
<1>3. CASE Receive(r)
  <2>1. /\ message_queue' = [QueuesAfterSend(r) EXCEPT ![r] = Tail(@)] /\ UNCHANGED <<next_msg, wait>>
        /\ received' = Append(received, Taken(r))
        /\ Taken(r).destination = r /\ QueuesAfterSend(r)[r] # <<>>
        /\ \A q \in Ids : message_queued'[q] => message_queued[q]
    BY <1>3 DEF Receive, HeldAfterSend, TypeOK
  <2>2. Taken(r) \in OnTime(age)
    <3>1. Taken(r) \in Timely(r, 0, age)
      BY <1>1, <2>1, TakenIsTimely
    <3> QED BY <2>1, <3>1 DEF OnTime, Timely
  <2>3. received' \in Seq(OnTime(age))
    BY <2>1, <2>2, AppendProperties DEF TimeInv
  <2> QED BY <1>1, <2>1, <2>3, TakenIsTimely DEF TimeInv
<1>4. CASE Prepare(r)
  <2> DEFINE hop == NextHop(r, Taken(r).destination)
  <2>1. /\ message_queue' = [QueuesAfterSend(r) EXCEPT ![r] = Tail(@)] /\ UNCHANGED received
        /\ Taken(r).destination # r /\ QueuesAfterSend(r)[r] # <<>>
        /\ message_queued' = [message_queued EXCEPT ![r] = TRUE]
        /\ next_msg' = [next_msg EXCEPT ![r] = [hop |-> hop, msg |-> Taken(r)]]
        /\ wait' = [wait EXCEPT ![r] = LinkDelay(r, hop)]
    BY <1>4 DEF Prepare, WaitFor
  <2>2. Taken(r) \in Timely(hop, LinkDelay(r, hop), age)
    BY <1>1, <2>1, TakenIsTimely, LinkIsTimely
  <2> HIDE DEF hop
  <2>3. ASSUME NEW q \in Ids, message_queued'[q]
        PROVE  next_msg'[q].msg \in Timely(next_msg'[q].hop, wait'[q], age)
    <3>1. CASE q = r
      BY <2>1, <2>2, <3>1 DEF TypeOK
    <3>2. CASE q # r
      <4>1. message_queued[q] /\ next_msg'[q] = next_msg[q] /\ wait'[q] = wait[q]
        BY <2>1, <2>3, <3>2 DEF TypeOK
      <4> QED BY <4>1 DEF TimeInv
    <3> QED BY <3>1, <3>2
  <2> QED BY <1>1, <2>1, <2>3, TakenIsTimely DEF TimeInv
<1> QED BY <1>2, <1>3, <1>4

LEMMA AddTime == TypeOK /\ TypeOK' /\ TimeInv /\ AddMessage => TimeInv'
<1> SUFFICES ASSUME TypeOK, TypeOK', TimeInv, AddMessage PROVE TimeInv'
  OBVIOUS
<1> DEFINE n == Len(age)
           msg == [number |-> n + 1, source |-> Head(todo)[1], destination |-> Head(todo)[2]]
<1>1. /\ n \in Nat /\ DOMAIN age = 1..n /\ DOMAIN age' = 1..(n + 1) /\ Cardinality(DOMAIN age) = n
      /\ age'[n + 1] = 0 /\ \A k \in 1..n : age'[k] = age[k] /\ age[k] \in Nat
  <2>1. n \in Nat /\ DOMAIN age = 1..n /\ Cardinality(DOMAIN age) = n /\ age' = Append(age, 0)
    BY AgeIs DEF AddMessage
  <2>2. age \in Seq(0..Horizon) /\ 0 \in 0..Horizon /\ Horizon \in Nat
    BY NetworkAssumption DEF TypeOK
  <2> QED BY <2>1, <2>2, AppendProperties, AgesAre
<1>2. msg \in Message
  <2>1. Head(todo) \in Nat \X Nat
    BY DEF AddMessage, TypeOK
  <2> QED BY <1>1, <2>1 DEF Message
<1>3. /\ message_queue' = IF msg.source \in Ids
                          THEN [message_queue EXCEPT ![msg.source] = Append(@, msg)]
                          ELSE message_queue
      /\ UNCHANGED <<next_msg, message_queued, received, wait>>
  BY <1>1 DEF AddMessage, Pushed
<1>4. msg.number = n + 1
  OBVIOUS
<1> HIDE DEF msg, n
<1>5. msg \in Timely(msg.source, 0, age')
  BY <1>1, <1>2, <1>4, NewIsTimely
<1>6. ASSUME NEW x, NEW w \in Nat PROVE Timely(x, w, age) \subseteq Timely(x, w, age')
  <2> SUFFICES ASSUME NEW m \in Timely(x, w, age) PROVE m \in Timely(x, w, age')
    OBVIOUS
  <2>1. m.number \in 1..n /\ m.number \in 1..(n + 1)
    BY <1>1 DEF Timely
  <2>2. age'[m.number] = age[m.number] /\ age[m.number] \in Nat
    BY <1>1, <2>1
  <2> QED BY <1>1, <2>1, <2>2, StaysTimely
<1>7. OnTime(age) \subseteq OnTime(age')
  BY <1>6 DEF OnTime
<1>8. ASSUME NEW r \in Ids PROVE message_queue'[r] \in Seq(Timely(r, 0, age'))
  <2>1. message_queue[r] \in Seq(Timely(r, 0, age')) /\ DOMAIN message_queue = Ids
    BY <1>6 DEF TimeInv, TypeOK
  <2>2. CASE r = msg.source
    <3>1. Append(message_queue[r], msg) \in Seq(Timely(r, 0, age'))
      BY <1>5, <2>1, <2>2, AppendProperties
    <3> QED BY <1>3, <2>1, <2>2, <3>1
  <2>3. CASE r # msg.source
    BY <1>3, <2>1, <2>3
  <2> QED BY <2>2, <2>3
<1>9. received' \in Seq(OnTime(age'))
  BY <1>3, <1>7 DEF TimeInv
<1>10. \A r \in Ids : wait[r] \in Nat
  BY DEF TypeOK
<1> QED BY <1>3, <1>6, <1>8, <1>9, <1>10 DEF TimeInv

(* A message that is held is not settled, and so grows older.              *)
LEMMA HeldIsUnsettled ==
  ASSUME TypeOK, PlaceInv, NEW r \in Ids, message_queued[r], NEW m \in Settled
  PROVE  m.number # next_msg[r].msg.number
<1> DEFINE k == next_msg[r].msg.number
           P == PlacesIn(message_queue, message_queued, next_msg, received, lost, k)
<1> SUFFICES ASSUME m.number = k PROVE FALSE
  OBVIOUS
<1>1. k \in Nat
  BY DEF TypeOK, Message
<1>2. Places(k) = P
  BY PlacesAre
<1>3. \A p, q \in P : p = q
  BY <1>1, <1>2 DEF PlaceInv, OnePlace
<1>4. <<"link", r, 0>> \in P
  BY DEF PlacesIn, LinkPlaces
<1> HIDE DEF k
<1>5. CASE m \in lost
  <2>1. <<"lost", 0, 0>> \in LostPlaces(lost, k)
    BY <1>5 DEF LostPlaces
  <2>2. <<"lost", 0, 0>> \in P
    BY <2>1 DEF PlacesIn
  <2> QED BY <1>3, <1>4, <2>2
<1>6. CASE m \notin lost
  <2>1. PICK j \in 1..Len(received) : received[j] = m
    BY <1>6 DEF Settled
  <2>2. j \in Nat
    BY DEF TypeOK
  <2>3. <<"received", 0, j>> \in ReceivedPlaces(received, k)
    BY <2>1, <2>2 DEF ReceivedPlaces
  <2>4. <<"received", 0, j>> \in P
    BY <2>3 DEF PlacesIn
  <2> QED BY <1>3, <1>4, <2>4
<1> QED BY <1>5, <1>6

LEMMA TickTime == TypeOK /\ TypeOK' /\ PlaceInv /\ TimeInv /\ Tick => TimeInv'
<1> SUFFICES ASSUME TypeOK, TypeOK', PlaceInv, TimeInv, Tick PROVE TimeInv'
  OBVIOUS
<1>1. /\ UNCHANGED <<message_queue, next_msg, message_queued, received>>
      /\ DOMAIN age' = DOMAIN age
      /\ \A k \in DOMAIN age : age'[k] = IF \E m \in Settled : m.number = k THEN age[k] ELSE Later(age[k])
      /\ \A r \in Ids : wait'[r] = IF wait[r] > 0 THEN wait[r] - 1 ELSE 0
  BY DEF Tick
<1>2. Horizon \in Nat
  BY NetworkAssumption
<1>3. ASSUME NEW k \in DOMAIN age
      PROVE  /\ age[k] \in 0..Horizon /\ age'[k] \in 0..Horizon /\ age'[k] >= age[k]
             /\ (\A m \in Settled : m.number # k) => age'[k] = Later(age[k])
  <2>1. age[k] \in 0..Horizon
    BY AgesAre
  <2> QED BY <1>1, <1>2, <2>1 DEF Later
<1>4. ASSUME NEW x PROVE Timely(x, 0, age) \subseteq Timely(x, 0, age')
  <2> SUFFICES ASSUME NEW m \in Timely(x, 0, age) PROVE m \in Timely(x, 0, age')
    OBVIOUS
  <2>1. m.number \in DOMAIN age
    BY DEF Timely
  <2>2. /\ age[m.number] \in Nat /\ age'[m.number] \in Nat /\ age'[m.number] + 0 >= age[m.number] + 0
        /\ age[m.number] = Horizon => age'[m.number] = Horizon
    BY <1>2, <1>3, <2>1
  <2> QED BY <1>1, <2>1, <2>2, StaysTimely
<1>5. OnTime(age) \subseteq OnTime(age')
  BY <1>4 DEF OnTime
<1>6. ASSUME NEW r \in Ids, message_queued[r]
      PROVE  next_msg[r].msg \in Timely(next_msg[r].hop, wait'[r], age')
  <2> DEFINE m == next_msg[r].msg
             k == m.number
  <2>1. m \in Timely(next_msg[r].hop, wait[r], age)
    BY <1>6 DEF TimeInv
  <2>2. k \in DOMAIN age
    BY <2>1 DEF Timely
  <2>3. age'[k] = Later(age[k])
    BY <1>3, <1>6, <2>2, HeldIsUnsettled
  <2>4. wait[r] \in Nat /\ wait'[r] \in Nat
    BY DEF TypeOK
  <2> HIDE DEF m, k
  <2>5. /\ age[k] \in Nat /\ age'[k] \in Nat
        /\ age[k] = Horizon => age'[k] = Horizon
        /\ age'[k] = Horizon \/ age'[k] + wait'[r] >= age[k] + wait[r]
    BY <1>1, <1>2, <1>3, <2>2, <2>3, <2>4 DEF Later
  <2> QED BY <1>1, <2>1, <2>2, <2>4, <2>5, StaysTimely DEF m, k
<1>7. \A r \in Ids : message_queue[r] \in Seq(Timely(r, 0, age'))
  BY <1>4 DEF TimeInv
<1>8. received \in Seq(OnTime(age'))
  BY <1>5 DEF TimeInv
<1> QED BY <1>1, <1>6, <1>7, <1>8 DEF TimeInv

LEMMA NextTime == TypeOK /\ TypeOK' /\ PlaceInv /\ TimeInv /\ [Next]_vars => TimeInv'
<1> SUFFICES ASSUME TypeOK, TypeOK', PlaceInv, TimeInv, [Next]_vars PROVE TimeInv'
  OBVIOUS
<1>1. CASE UNCHANGED <<routerVars, received, age>>
  BY <1>1 DEF TimeInv, routerVars
<1>2. CASE TestFinished \/ (\E r \in Ids : PollWaiting(r)) \/ UNCHANGED vars
  BY <1>1, <1>2 DEF TestFinished, PollWaiting, vars, timeVars
<1> QED BY <1>2, AddTime, PollTime, TickTime DEF Next, Main

(* Ages are counted up to Horizon, which has to be far enough to tell.     *)
HorizonIsFar == \A m \in Received : WayDelay(m) <= Horizon

(* No message is received before it has waited for every link on its way.  *)
THEOREM NothingIsTooFast == Spec => [](HorizonIsFar => NeverTooFast)
<1>1. TypeOK /\ TimeInv => (HorizonIsFar => NeverTooFast)
  <2> SUFFICES ASSUME TypeOK, TimeInv, HorizonIsFar, NEW m \in Received
               PROVE  age[m.number] >= WayDelay(m)
    BY DEF NeverTooFast
  <2> DEFINE s == m.source
             d == m.destination
  <2>1. m \in OnTime(age)
    BY ElementOfSeq DEF Received, TimeInv
  <2>2. m \in Timely(d, 0, age) /\ m \in Message
    BY <2>1 DEF OnTime
  <2>3. m.number \in DOMAIN age
    BY <2>2 DEF Timely
  <2>4. age[m.number] \in Nat
    BY <2>3, AgesAre, NetworkAssumption
  <2>5. WayDelay(m) = Far(s, d, N) /\ WayDelay(m) \in Nat /\ WayDelay(m) <= Horizon
    <3>1. N \in 0..N
      BY RoutersAre
    <3> QED BY <2>2, <3>1, FarIsWayDelay, FarIs DEF HorizonIsFar
  <2>6. CASE age[m.number] = Horizon
    BY <2>4, <2>5, <2>6
  <2>7. CASE age[m.number] # Horizon
    <3>1. PICK n \in 0..N : Way(s, d)[n] = d /\ Far(s, d, n) <= age[m.number] + 0
      BY <2>2, <2>7 DEF Timely
    <3>2. Far(s, d, n) = WayDelay(m)
      BY <2>5, <3>1, FarEnds
    <3> QED BY <2>4, <2>5, <3>1, <3>2
  <2> QED BY <2>6, <2>7
<1>2. Spec => []TimeInv
  BY InitTypes, NextTypes, InitPlaces, NextPlaces, InitTime, NextTime, PTL DEF Spec
<1> QED BY <1>1, <1>2, TickTypes, PTL

-----------------------------------------------------------------------------
(* All messages so far stay known, and are finitely many.                  *)

All == Settled \union UnderWay

LEMMA UnderWayIs ==
  UnderWay = {m \in UnderWay \union Settled :
                \E r \in Ids : \/ \E i \in 1..Len(message_queue[r]) : message_queue[r][i] = m
                               \/ message_queued[r] /\ next_msg[r].msg = m}
BY DEF UnderWay

LEMMA QueuedIsUnderWay ==
  /\ \A r \in Ids : \A i \in 1..Len(message_queue[r]) : message_queue[r][i] \in UnderWay
  /\ \A r \in Ids : message_queued[r] => next_msg[r].msg \in UnderWay
BY DEF UnderWay

LEMMA QueuedIsUnderWayNext ==
  /\ \A r \in Ids : \A i \in 1..Len(message_queue'[r]) : message_queue'[r][i] \in UnderWay'
  /\ \A r \in Ids : message_queued'[r] => next_msg'[r].msg \in UnderWay'
BY DEF UnderWay

LEMMA AllFinite == TypeOK /\ IsFiniteSet(lost) => IsFiniteSet(All) /\ All \subseteq Message
<1> SUFFICES ASSUME TypeOK, IsFiniteSet(lost) PROVE IsFiniteSet(All) /\ All \subseteq Message
  OBVIOUS
<1>1. ASSUME NEW s, Len(s) \in Nat PROVE IsFiniteSet({s[i] : i \in 1..Len(s)})
  <2> DEFINE f == [i \in 1..Len(s) |-> s[i]]
  <2>1. f \in Surjection(1..Len(s), {s[i] : i \in 1..Len(s)})
    BY DEF Surjection
  <2>2. IsFiniteSet(1..Len(s))
    BY <1>1, FS_Interval
  <2> QED BY <2>1, <2>2, FS_Surjection
<1>2. \A r \in Ids : Len(message_queue[r]) \in Nat
  BY DEF TypeOK
<1>3. IsFiniteSet(Settled)
  <2>0. Len(received) \in Nat
    BY DEF TypeOK
  <2>1. IsFiniteSet({received[k] : k \in 1..Len(received)})
    BY <1>1, <2>0
  <2> QED BY <2>1, FS_Union DEF Settled
<1>4. IsFiniteSet(UnderWay)
  <2> DEFINE Here(r) == {message_queue[r][i] : i \in 1..Len(message_queue[r])}
                          \union (IF message_queued[r] THEN {next_msg[r].msg} ELSE {})
             f == [r \in Ids |-> Here(r)]
  <2>1. ASSUME NEW r \in Ids PROVE IsFiniteSet(Here(r))
    <3>1. IsFiniteSet({message_queue[r][i] : i \in 1..Len(message_queue[r])})
      BY <1>1, <1>2
    <3>2. IsFiniteSet(IF message_queued[r] THEN {next_msg[r].msg} ELSE {})
      BY FS_EmptySet, FS_Singleton
    <3> QED BY <3>1, <3>2, FS_Union
  <2>2. f \in Surjection(Ids, {Here(r) : r \in Ids})
    BY DEF Surjection
  <2>3. IsFiniteSet({Here(r) : r \in Ids})
    BY <2>2, RoutersAre, FS_Surjection
  <2>4. UnderWay = UNION {Here(r) : r \in Ids}
    BY DEF UnderWay
  <2> HIDE DEF Here, f
  <2>5. \A T \in {Here(r) : r \in Ids} : IsFiniteSet(T)
    BY <2>1
  <2> QED BY <2>3, <2>4, <2>5, FS_UNION
<1>5. All \subseteq Message
  <2>1. \A i \in 1..Len(received) : received[i] \in Message
    BY ElementOfSeq DEF TypeOK
  <2>2. \A r \in Ids : \A i \in 1..Len(message_queue[r]) : message_queue[r][i] \in Message
    BY ElementOfSeq DEF TypeOK
  <2>3. \A r \in Ids : message_queued[r] => next_msg[r].msg \in Message
    BY DEF TypeOK
  <2> QED BY <2>1, <2>2, <2>3 DEF All, Settled, UnderWay, TypeOK
<1> QED BY <1>3, <1>4, <1>5, FS_Union DEF All

LEMMA AllFiniteNext == TypeOK' /\ IsFiniteSet(lost') => IsFiniteSet(All') /\ All' \subseteq Message
<1>1. (TypeOK /\ IsFiniteSet(lost) => IsFiniteSet(All) /\ All \subseteq Message)'
  BY AllFinite, PTL
<1> QED BY <1>1

(* A poll moves messages only.                                             *)
LEMMA PollKeepsAll ==
  ASSUME TypeOK, NEW r \in Ids, SendLast(r) \/ Receive(r) \/ Prepare(r)
  PROVE  All \subseteq All'
<1> DEFINE queues == QueuesAfterSend(r)
<1>1. lost' = lost \union LostInSend(r)
  BY DEF SendLast, Receive, Prepare, Sending
<1>2. queues \in [Ids -> Seq(Message)] /\ received \in Seq(Message) /\ message_queue \in [Ids -> Seq(Message)]
  BY SendTypes DEF TypeOK
<1>3. \A m \in lost' : m \in All'
  BY DEF All, Settled
<1>4. ASSUME NEW i \in 1..Len(received') PROVE received'[i] \in All'
  BY DEF All, Settled
<1>5. ASSUME NEW i \in 1..Len(received) PROVE received[i] \in All'
  <2>1. CASE received' = received
    BY <1>4, <2>1
  <2>2. CASE Receive(r)
    <3>1. received' = Append(received, Taken(r)) /\ Taken(r) \in Message
      BY <2>2, TakenIs DEF Receive
    <3>2. i \in 1..Len(received') /\ received'[i] = received[i]
      BY <1>2, <3>1, AppendProperties
    <3> QED BY <1>4, <3>2
  <2> QED BY <2>1, <2>2 DEF SendLast, Prepare
<1>6. ASSUME NEW q \in Ids, NEW i \in 1..Len(queues[q]) PROVE queues[q][i] \in All'
  <2>1. CASE SendLast(r)
    <3>1. message_queue' = queues
      BY <2>1 DEF SendLast
    <3> QED BY <3>1, QueuedIsUnderWayNext DEF All
  <2>2. CASE Receive(r) \/ Prepare(r)
    <3>1. message_queue' = [queues EXCEPT ![r] = Tail(@)] /\ queues[r] # <<>>
      BY <2>2 DEF Receive, Prepare
    <3>2. CASE q # r
      <4>1. message_queue'[q] = queues[q]
        BY <1>2, <3>1, <3>2
      <4> QED BY <4>1, QueuedIsUnderWayNext DEF All
    <3>3. CASE q = r /\ i # 1
      <4> DEFINE s == queues[r]
      <4>1. message_queue'[r] = Tail(s) /\ s \in Seq(Message) /\ s # <<>> /\ i \in 1..Len(s)
        BY <1>2, <3>1, <3>3
      <4> HIDE DEF s
      <4>2. /\ Len(s) \in Nat /\ Len(Tail(s)) = Len(s) - 1
            /\ \A j \in 1..Len(Tail(s)) : Tail(s)[j] = s[j + 1]
        BY <4>1, HeadTailProperties
      <4>3. i - 1 \in 1..Len(Tail(s)) /\ (i - 1) + 1 = i
        BY <3>3, <4>1, <4>2
      <4>4. message_queue'[r][i - 1] = s[i] /\ i - 1 \in 1..Len(message_queue'[r])
        BY <4>1, <4>2, <4>3
      <4> QED BY <3>3, <4>4, QueuedIsUnderWayNext DEF All, s
    <3>4. CASE q = r /\ i = 1
      <4>1. queues[q][i] = Taken(r)
        BY <1>2, <3>1, <3>4 DEF Taken
      <4>2. CASE Receive(r)
        <5>1. received' = Append(received, Taken(r)) /\ Taken(r) \in Message
          BY <4>2, TakenIs DEF Receive
        <5>2. Len(received') \in 1..Len(received') /\ received'[Len(received')] = Taken(r)
          BY <1>2, <5>1, AppendProperties
        <5> QED BY <1>4, <4>1, <5>2
      <4>3. CASE Prepare(r)
        <5>1. message_queued'[r] /\ next_msg'[r].msg = Taken(r)
          BY <4>3 DEF Prepare, TypeOK
        <5> QED BY <4>1, <5>1, QueuedIsUnderWayNext DEF All
      <4> QED BY <2>2, <4>2, <4>3
    <3> QED BY <3>2, <3>3, <3>4
  <2> QED BY <2>1, <2>2
<1>7. ASSUME NEW q \in Ids, NEW i \in 1..Len(message_queue[q]) PROVE message_queue[q][i] \in All'
  <2>1. i \in 1..Len(queues[q]) /\ queues[q][i] = message_queue[q][i]
    <3>1. CASE message_queued[r] /\ next_msg[r].hop = q
      <4>1. queues[q] = Append(message_queue[q], next_msg[r].msg) /\ message_queue[q] \in Seq(Message)
        BY <1>2, <3>1 DEF QueuesAfterSend, Pushed
      <4>2. next_msg[r].msg \in Message
        BY <3>1 DEF TypeOK
      <4> HIDE DEF queues
      <4> QED BY <4>1, <4>2, AppendProperties
    <3>2. CASE ~(message_queued[r] /\ next_msg[r].hop = q)
      <4>1. queues[q] = message_queue[q]
        BY <1>2, <3>2 DEF QueuesAfterSend
      <4> QED BY <4>1
    <3> QED BY <3>1, <3>2
  <2> QED BY <1>6, <2>1
<1>8. ASSUME NEW q \in Ids, message_queued[q] PROVE next_msg[q].msg \in All'
  <2>1. CASE q # r
    <3>1. message_queued'[q] /\ next_msg'[q] = next_msg[q]
      BY <1>8, <2>1 DEF SendLast, Receive, Prepare, HeldAfterSend, TypeOK
    <3> QED BY <3>1, QueuedIsUnderWayNext DEF All
  <2>2. CASE q = r /\ next_msg[r].hop \in Ids
    <3> DEFINE h == next_msg[r].hop
    <3>1. queues[h] = Append(message_queue[h], next_msg[r].msg) /\ message_queue[h] \in Seq(Message)
      BY <1>2, <1>8, <2>2 DEF QueuesAfterSend, Pushed
    <3>2. next_msg[r].msg \in Message
      BY <1>8, <2>2 DEF TypeOK
    <3> HIDE DEF queues, h
    <3>3. Len(queues[h]) \in 1..Len(queues[h]) /\ queues[h][Len(queues[h])] = next_msg[r].msg
      BY <3>1, <3>2, AppendProperties
    <3> QED BY <1>6, <2>2, <3>3 DEF h
  <2>3. CASE q = r /\ next_msg[r].hop \notin Ids
    <3>1. next_msg[r].msg \in lost'
      BY <1>1, <1>8, <2>3 DEF LostInSend
    <3> QED BY <1>3, <2>3, <3>1
  <2> QED BY <2>1, <2>2, <2>3
<1> HIDE DEF queues
<1>9. ASSUME NEW m \in UnderWay PROVE m \in All'
  <2>1. \E q \in Ids : \/ \E i \in 1..Len(message_queue[q]) : message_queue[q][i] = m
                       \/ message_queued[q] /\ next_msg[q].msg = m
    BY UnderWayIs
  <2> QED BY <1>7, <1>8, <2>1
<1>10. ASSUME NEW m \in Settled PROVE m \in All'
  BY <1>1, <1>3, <1>5 DEF Settled
<1> QED BY <1>9, <1>10 DEF All

-----------------------------------------------------------------------------
(* Every tick at which no router is ready is spent on a link, which takes  *)
(* no more of them than its delay.  g[m] says how many such ticks are put  *)
(* down to message m: a message that comes to x in w ticks has a way so    *)
(* far that allows them.                                                   *)
Within(x, w, g) ==
  {m \in Message : \E n \in 0..N : /\ Way(m.source, m.destination)[n] = x
                                   /\ g[m] + w <= Far(m.source, m.destination, n)}

Spent(g) == {m \in Message : g[m] <= Far(m.source, m.destination, N)}

Budget(g) ==
  /\ \A r \in Ids : message_queue[r] \in Seq(Within(r, 0, g))
  /\ \A r \in Ids : message_queued[r] => next_msg[r].msg \in Within(next_msg[r].hop, wait[r], g)
  /\ received \in Seq(Spent(g)) /\ lost \subseteq Spent(g)
  /\ \A m \in Message \ All : g[m] = 0

Paid(g) == idle <= Cardinality(Cells(g, All)) \/ (UnderWay = {} /\ todo = <<>>)

IdleInv == \E g \in [Message -> Nat] : Budget(g) /\ Paid(g)

(* A router that waits holds a message; only messages are lost.            *)
HoldInv ==
  /\ IsFiniteSet(lost)
  /\ \A r \in Ids : wait[r] > 0 => message_queued[r]

LEMMA InitHold == Init => HoldInv
BY FS_EmptySet DEF Init, HoldInv

LEMMA NextHold == TypeOK /\ HoldInv /\ [Next]_vars => HoldInv'
<1> SUFFICES ASSUME TypeOK, HoldInv, [Next]_vars PROVE HoldInv'
  OBVIOUS
<1>1. CASE AddMessage
  <2>1. \E m : lost' = lost \/ lost' = lost \union {m}
    BY <1>1 DEF AddMessage
  <2>2. IsFiniteSet(lost')
    BY <2>1, FS_AddElement DEF HoldInv
  <2> QED BY <1>1, <2>2 DEF AddMessage, HoldInv
<1>2. ASSUME NEW r \in Ids, SendLast(r) \/ Receive(r) \/ Prepare(r) PROVE HoldInv'
  <2>1. lost' = lost \union LostInSend(r) /\ wait[r] = 0
    BY <1>2 DEF SendLast, Receive, Prepare, Sending, Ready
  <2>2. IsFiniteSet(lost')
    <3>1. LostInSend(r) = {} \/ LostInSend(r) = {next_msg[r].msg}
      BY DEF LostInSend
    <3> QED BY <2>1, <3>1, FS_AddElement DEF HoldInv
  <2>3. ASSUME NEW q \in Ids, wait'[q] > 0 PROVE message_queued'[q]
    <3>1. CASE q = r
      BY <1>2, <2>1, <2>3, <3>1 DEF SendLast, Receive, Prepare, TypeOK
    <3>2. CASE q # r
      <4>1. wait'[q] = wait[q] /\ message_queued'[q] = message_queued[q]
        BY <1>2, <3>2 DEF SendLast, Receive, Prepare, HeldAfterSend, TypeOK
      <4> QED BY <2>3, <4>1 DEF HoldInv
    <3> QED BY <3>1, <3>2
  <2> QED BY <2>2, <2>3 DEF HoldInv
<1>3. CASE Tick
  <2>1. \A r \in Ids : wait[r] \in Nat /\ (wait'[r] > 0 => wait[r] > 0)
    BY <1>3 DEF Tick, TypeOK
  <2> QED BY <1>3, <2>1 DEF Tick, HoldInv
<1>4. CASE TestFinished \/ (\E r \in Ids : PollWaiting(r)) \/ UNCHANGED vars
  BY <1>4 DEF TestFinished, PollWaiting, vars, routerVars, HoldInv
<1> QED BY <1>1, <1>2, <1>3, <1>4 DEF Next, Main

-----------------------------------------------------------------------------
LEMMA WithinIsSpent ==
  ASSUME NEW g \in [Message -> Nat], NEW x, NEW w \in Nat
  PROVE  Within(x, w, g) \subseteq Spent(g)
<1> SUFFICES ASSUME NEW m \in Within(x, w, g) PROVE m \in Spent(g)
  OBVIOUS
<1>1. m \in Message
  BY DEF Within
<1>2. PICK n \in 0..N : g[m] + w <= Far(m.source, m.destination, n)
  BY DEF Within
<1>3. N \in n..N /\ N \in 0..N
  BY RoutersAre
<1>4. /\ Far(m.source, m.destination, n) <= Far(m.source, m.destination, N)
      /\ Far(m.source, m.destination, n) \in Nat /\ Far(m.source, m.destination, N) \in Nat
  BY <1>3, FarIs
<1>5. g[m] \in Nat
  BY <1>1
<1>6. g[m] <= Far(m.source, m.destination, N)
  BY <1>2, <1>4, <1>5
<1> QED BY <1>1, <1>6 DEF Spent

LEMMA NewIsWithin ==
  ASSUME NEW g \in [Message -> Nat], NEW m \in Message, g[m] = 0
  PROVE  m \in Within(m.source, 0, g)
<1>1. 0 \in 0..N
  BY RoutersAre
<1>2. Way(m.source, m.destination)[0] = m.source /\ Far(m.source, m.destination, 0) = 0
  BY WaySteps, FarStarts
<1> QED BY <1>1, <1>2 DEF Within

(* Off a loop, a link of the way allows its delay.                         *)
LEMMA LinkIsWithin ==
  ASSUME NEW g \in [Message -> Nat], NEW r \in Ids, NEW m \in Within(r, 0, g), m.destination # r,
         Way(m.source, m.destination)[N] \notin Ids \ {m.destination}
  PROVE  LET hop == NextHop(r, m.destination)
         IN  m \in Within(hop, LinkDelay(r, hop), g)
<1> DEFINE s == m.source
           d == m.destination
           hop == NextHop(r, d)
<1>1. m \in Message
  BY DEF Within
<1>2. g[m] \in Nat
  BY <1>1
<1> HIDE DEF s, d, hop
<1>3. PICK n \in 0..N : Way(s, d)[n] = r /\ g[m] + 0 <= Far(s, d, n)
  BY DEF Within, s, d
<1>4. r \in Ids \ {d} /\ Way(s, d)[N] \notin Ids \ {d}
  BY DEF s, d
<1>5. n \in Nat /\ n < N /\ n + 1 \in 0..N
  BY <1>3, <1>4, RoutersAre
<1>6. Way(s, d)[n + 1] = hop
  BY <1>3, <1>4, <1>5, WaySteps DEF Onward, hop
<1>7. Far(s, d, n + 1) = Far(s, d, n) + LinkDelay(r, hop)
  BY <1>3, <1>4, <1>5, <1>6, FarGoesOn
<1>8. Far(s, d, n) \in Nat /\ LinkDelay(r, hop) \in Nat
  BY FarIs, HopsAre
<1>9. g[m] + LinkDelay(r, hop) <= Far(s, d, n + 1)
  BY <1>2, <1>3, <1>7, <1>8
<1> QED BY <1>1, <1>5, <1>6, <1>9 DEF Within, s, d, hop

LEMMA SendIsWithin ==
  ASSUME TypeOK, NEW g \in [Message -> Nat], Budget(g), NEW r \in Ids, wait[r] = 0
  PROVE  /\ \A q \in Ids : QueuesAfterSend(r)[q] \in Seq(Within(q, 0, g))
         /\ LostInSend(r) \subseteq Spent(g)
<1> DEFINE m == next_msg[r].msg
           h == next_msg[r].hop
<1>1. \A q \in Ids : message_queue[q] \in Seq(Within(q, 0, g))
  BY DEF Budget
<1>2. LostInSend(r) \subseteq Spent(g)
  <2>1. message_queued[r] => m \in Within(h, 0, g)
    BY DEF Budget
  <2> QED BY <2>1, WithinIsSpent DEF LostInSend
<1>3. CASE message_queued[r] /\ h \in Ids
  <2>1. m \in Within(h, 0, g)
    BY <1>3 DEF Budget
  <2>2. QueuesAfterSend(r) = [message_queue EXCEPT ![h] = Append(@, m)]
    BY <1>3 DEF QueuesAfterSend, Pushed
  <2> HIDE DEF m, h
  <2>3. Append(message_queue[h], m) \in Seq(Within(h, 0, g))
    BY <1>1, <1>3, <2>1, AppendProperties
  <2>4. QueuesAfterSend(r)[h] = Append(message_queue[h], m) /\ \A q \in Ids \ {h} : QueuesAfterSend(r)[q] = message_queue[q]
    BY <1>3, <2>2 DEF TypeOK
  <2> QED BY <1>1, <1>2, <2>3, <2>4
<1>4. CASE ~(message_queued[r] /\ h \in Ids)
  BY <1>1, <1>2, <1>4 DEF QueuesAfterSend
<1> QED BY <1>3, <1>4

LEMMA TakenIsWithin ==
  ASSUME TypeOK, NEW g \in [Message -> Nat], Budget(g), NEW r \in Ids, wait[r] = 0, QueuesAfterSend(r)[r] # <<>>
  PROVE  /\ Taken(r) \in Within(r, 0, g)
         /\ \A q \in Ids : [QueuesAfterSend(r) EXCEPT ![r] = Tail(@)][q] \in Seq(Within(q, 0, g))
<1>1. \A q \in Ids : QueuesAfterSend(r)[q] \in Seq(Within(q, 0, g))
  BY SendIsWithin
<1>2. Taken(r) \in Within(r, 0, g) /\ Tail(QueuesAfterSend(r)[r]) \in Seq(Within(r, 0, g))
  BY <1>1, HeadTailProperties DEF Taken
<1>3. DOMAIN QueuesAfterSend(r) = Ids
  BY SendTypes
<1> QED BY <1>1, <1>2, <1>3

(* The tables lead no message round in a loop.                             *)
NoLoops == \A m \in All : Way(m.source, m.destination)[N] \notin Ids \ {m.destination}

(* What has been paid for stays paid for while messages are kept.          *)
LEMMA StaysPaid ==
  ASSUME TypeOK', HoldInv', NEW g \in [Message -> Nat], idle <= Cardinality(Cells(g, All)),
         TypeOK, HoldInv, All \subseteq All', idle' = idle
  PROVE  Paid(g)'
<1>1. IsFiniteSet(All') /\ All' \subseteq Message
  BY AllFiniteNext DEF HoldInv
<1>2. IsFiniteSet(Cells(g, All'))
  <2>1. \A m \in All' : g[m] \in Nat
    BY <1>1
  <2> QED BY <1>1, <2>1, CellsFinite
<1>3. Cells(g, All) \subseteq Cells(g, All')
  BY DEF Cells
<1>4. /\ Cardinality(Cells(g, All)) <= Cardinality(Cells(g, All'))
      /\ Cardinality(Cells(g, All)) \in Nat /\ Cardinality(Cells(g, All')) \in Nat
  BY <1>2, <1>3, FS_Subset, FS_CardinalityType
<1>5. idle \in Nat
  BY NetworkAssumption DEF TypeOK
<1>6. idle' <= Cardinality(Cells(g, All'))
  BY <1>4, <1>5
<1>7. Cells(g, All)' = Cells(g, All')
  BY DEF Cells, Column
<1> QED BY <1>6, <1>7 DEF Paid

LEMMA PollBudget ==
  ASSUME TypeOK, TypeOK', HoldInv, HoldInv', NoLoops', NEW g \in [Message -> Nat], Budget(g), Paid(g),
         NEW r \in Ids, SendLast(r) \/ Receive(r) \/ Prepare(r)
  PROVE  Budget(g)' /\ Paid(g)'
<1>1. wait[r] = 0 /\ idle' = idle /\ lost' = lost \union LostInSend(r)
  BY DEF SendLast, Receive, Prepare, Sending, Ready, timeVars
<1>2. All \subseteq All'
  BY PollKeepsAll
<1>3. Paid(g)'
  <2>1. UnderWay # {}
    <3>1. message_queue[r] # <<>> \/ message_queued[r]
      BY DEF SendLast, Receive, Prepare, Sending, Ready
    <3>2. CASE message_queued[r]
      BY <3>2, QueuedIsUnderWay
    <3>3. CASE message_queue[r] # <<>>
      <4>1. message_queue[r] \in Seq(Message)
        BY DEF TypeOK
      <4>2. 1 \in 1..Len(message_queue[r])
        BY <3>3, <4>1, EmptySeq
      <4> QED BY <4>2, QueuedIsUnderWay
    <3> QED BY <3>1, <3>2, <3>3
  <2> QED BY <1>1, <1>2, <2>1, StaysPaid DEF Paid
<1>4. \A m \in Message \ All' : g[m] = 0
  BY <1>2 DEF Budget
<1>5. lost' \subseteq Spent(g)
  BY <1>1, SendIsWithin DEF Budget
<1>6. CASE SendLast(r)
  <2>1. /\ message_queue' = QueuesAfterSend(r) /\ UNCHANGED <<next_msg, wait, received>>
        /\ \A q \in Ids : message_queued'[q] => message_queued[q]
    BY <1>6 DEF SendLast, HeldAfterSend, TypeOK
  <2> QED BY <1>1, <1>3, <1>4, <1>5, <2>1, SendIsWithin DEF Budget
<1>7. CASE Receive(r)
  <2>1. /\ message_queue' = [QueuesAfterSend(r) EXCEPT ![r] = Tail(@)] /\ UNCHANGED <<next_msg, wait>>
        /\ received' = Append(received, Taken(r))
        /\ QueuesAfterSend(r)[r] # <<>>
        /\ \A q \in Ids : message_queued'[q] => message_queued[q]
    BY <1>7 DEF Receive, HeldAfterSend, TypeOK
  <2>2. Taken(r) \in Spent(g)
    BY <1>1, <2>1, TakenIsWithin, WithinIsSpent
  <2>3. received' \in Seq(Spent(g))
    BY <2>1, <2>2, AppendProperties DEF Budget
  <2> QED BY <1>1, <1>3, <1>4, <1>5, <2>1, <2>3, TakenIsWithin DEF Budget
<1>8. CASE Prepare(r)
  <2> DEFINE hop == NextHop(r, Taken(r).destination)
  <2>1. /\ message_queue' = [QueuesAfterSend(r) EXCEPT ![r] = Tail(@)] /\ UNCHANGED received
        /\ Taken(r).destination # r /\ QueuesAfterSend(r)[r] # <<>>
        /\ message_queued' = [message_queued EXCEPT ![r] = TRUE]
        /\ next_msg' = [next_msg EXCEPT ![r] = [hop |-> hop, msg |-> Taken(r)]]
        /\ wait' = [wait EXCEPT ![r] = LinkDelay(r, hop)]
    BY <1>8 DEF Prepare, WaitFor
  <2>2. Taken(r) \in All'
    <3>1. message_queued'[r] /\ next_msg'[r].msg = Taken(r)
      BY <2>1 DEF TypeOK
    <3> QED BY <3>1, QueuedIsUnderWayNext DEF All
  <2>3. Way(Taken(r).source, Taken(r).destination)[N] \notin Ids \ {Taken(r).destination}
    <3> DEFINE m == Taken(r)
    <3> HIDE DEF m
    <3>1. m \in All'
      BY <2>2 DEF m
    <3>2. Way(m.source, m.destination)[N] \notin Ids \ {m.destination}
      BY <3>1 DEF NoLoops
    <3> QED BY <3>2 DEF m
  <2>4. Taken(r) \in Within(hop, LinkDelay(r, hop), g)
    BY <1>1, <2>1, <2>3, TakenIsWithin, LinkIsWithin
  <2> HIDE DEF hop
  <2>5. ASSUME NEW q \in Ids, message_queued'[q]
        PROVE  next_msg'[q].msg \in Within(next_msg'[q].hop, wait'[q], g)
    <3>1. CASE q = r
      BY <2>1, <2>4, <3>1 DEF TypeOK
    <3>2. CASE q # r
      <4>1. message_queued[q] /\ next_msg'[q] = next_msg[q] /\ wait'[q] = wait[q]
        BY <2>1, <2>5, <3>2 DEF TypeOK
      <4> QED BY <4>1 DEF Budget
    <3> QED BY <3>1, <3>2
  <2> QED BY <1>1, <1>3, <1>4, <1>5, <2>1, <2>5, TakenIsWithin DEF Budget
<1> QED BY <1>6, <1>7, <1>8

-----------------------------------------------------------------------------
(* A message that is held is at no other place.                            *)
LEMMA HeldIsNowhereElse ==
  ASSUME TypeOK, PlaceInv, NEW r \in Ids, message_queued[r]
  PROVE  /\ \A q \in Ids : \A i \in 1..Len(message_queue[q]) : message_queue[q][i] # next_msg[r].msg
         /\ \A q \in Ids \ {r} : message_queued[q] => next_msg[q].msg # next_msg[r].msg
         /\ next_msg[r].msg \notin Settled
<1> DEFINE k == next_msg[r].msg.number
           P == PlacesIn(message_queue, message_queued, next_msg, received, lost, k)
<1>1. k \in Nat
  BY DEF TypeOK, Message
<1>2. Places(k) = P
  BY PlacesAre
<1>3. \A p, q \in P : p = q
  BY <1>1, <1>2 DEF PlaceInv, OnePlace
<1>4. <<"link", r, 0>> \in P
  BY DEF PlacesIn, LinkPlaces
<1> HIDE DEF k
<1>5. ASSUME NEW q \in Ids, NEW i \in 1..Len(message_queue[q]), message_queue[q][i].number = k PROVE FALSE
  <2>1. i \in Nat
    BY DEF TypeOK
  <2>2. <<"queue", q, i>> \in P
    BY <1>5, <2>1 DEF PlacesIn, QueuePlaces
  <2> QED BY <1>3, <1>4, <2>2
<1>6. ASSUME NEW q \in Ids \ {r}, message_queued[q], next_msg[q].msg.number = k PROVE FALSE
  <2>1. <<"link", q, 0>> \in P
    BY <1>6 DEF PlacesIn, LinkPlaces
  <2> QED BY <1>3, <1>4, <2>1
<1>7. next_msg[r].msg \notin Settled
  BY HeldIsUnsettled
<1> QED BY <1>5, <1>6, <1>7 DEF k

(* Every message known has its number.                                     *)
LEMMA AllAreNumbered ==
  ASSUME TypeOK, PlaceInv, NEW m \in All
  PROVE  m.number \in DOMAIN age
<1> DEFINE k == m.number
           P == PlacesIn(message_queue, message_queued, next_msg, received, lost, k)
<1> SUFFICES ASSUME k \notin DOMAIN age PROVE FALSE
  OBVIOUS
<1>1. m \in Message
  <2>1. \A i \in 1..Len(received) : received[i] \in Message
    BY ElementOfSeq DEF TypeOK
  <2>2. \A r \in Ids : \A i \in 1..Len(message_queue[r]) : message_queue[r][i] \in Message
    BY ElementOfSeq DEF TypeOK
  <2>3. \A r \in Ids : message_queued[r] => next_msg[r].msg \in Message
    BY DEF TypeOK
  <2> QED BY <2>1, <2>2, <2>3 DEF All, Settled, UnderWay, TypeOK
<1>2. k \in Nat
  BY <1>1 DEF Message
<1>3. P = {}
  <2>1. Places(k) = P
    BY <1>2, PlacesAre
  <2> QED BY <1>2, <2>1 DEF PlaceInv
<1> HIDE DEF k
<1>4. CASE m \in lost
  <2>1. <<"lost", 0, 0>> \in P
    BY <1>4 DEF PlacesIn, LostPlaces, k
  <2> QED BY <1>3, <2>1
<1>5. CASE \E i \in 1..Len(received) : received[i] = m
  <2>1. PICK i \in 1..Len(received) : received[i] = m
    BY <1>5
  <2>2. i \in Nat
    BY DEF TypeOK
  <2>3. <<"received", 0, i>> \in P
    BY <2>1, <2>2 DEF PlacesIn, ReceivedPlaces, k
  <2> QED BY <1>3, <2>3
<1>6. CASE m \in UnderWay
  <2>1. PICK r \in Ids : \/ \E i \in 1..Len(message_queue[r]) : message_queue[r][i] = m
                         \/ message_queued[r] /\ next_msg[r].msg = m
    BY <1>6, UnderWayIs
  <2>2. CASE message_queued[r] /\ next_msg[r].msg = m
    <3>1. <<"link", r, 0>> \in P
      BY <2>2 DEF PlacesIn, LinkPlaces, k
    <3> QED BY <1>3, <3>1
  <2>3. CASE \E i \in 1..Len(message_queue[r]) : message_queue[r][i] = m
    <3>1. PICK i \in 1..Len(message_queue[r]) : message_queue[r][i] = m
      BY <2>3
    <3>2. i \in Nat
      BY DEF TypeOK
    <3>3. <<"queue", r, i>> \in P
      BY <3>1, <3>2 DEF PlacesIn, QueuePlaces, k
    <3> QED BY <1>3, <3>3
  <2> QED BY <2>1, <2>2, <2>3
<1> QED BY <1>4, <1>5, <1>6 DEF All, Settled

LEMMA AddKeepsAll == TypeOK /\ AddMessage => All \subseteq All'
<1> SUFFICES ASSUME TypeOK, AddMessage PROVE All \subseteq All'
  OBVIOUS
<1>1. PICK x, m : /\ message_queue' = IF x \in Ids THEN [message_queue EXCEPT ![x] = Append(@, m)] ELSE message_queue
                  /\ lost \subseteq lost' /\ UNCHANGED <<next_msg, message_queued, received>>
                  /\ m \in Message
  <2>1. Head(todo) \in Nat \X Nat
    BY DEF AddMessage, TypeOK
  <2>2. Cardinality(DOMAIN age) + 1 \in Nat \ {0}
    BY AgeIs
  <2> DEFINE msg == [number |-> Cardinality(DOMAIN age) + 1, source |-> Head(todo)[1], destination |-> Head(todo)[2]]
  <2>3. msg \in Message
    BY <2>1, <2>2 DEF Message
  <2>4. /\ message_queue' = IF Head(todo)[1] \in Ids THEN [message_queue EXCEPT ![Head(todo)[1]] = Append(@, msg)]
                            ELSE message_queue
        /\ lost \subseteq lost' /\ UNCHANGED <<next_msg, message_queued, received>>
    BY DEF AddMessage, Pushed
  <2> QED BY <2>3, <2>4
<1>2. ASSUME NEW q \in Ids, NEW i \in 1..Len(message_queue[q])
      PROVE  message_queue[q][i] \in All'
  <2>1. i \in 1..Len(message_queue'[q]) /\ message_queue'[q][i] = message_queue[q][i]
    <3>1. CASE q = x
      <4>1. message_queue'[q] = Append(message_queue[q], m) /\ message_queue[q] \in Seq(Message)
        BY <1>1, <3>1 DEF TypeOK
      <4> QED BY <1>1, <4>1, AppendProperties
    <3>2. CASE q # x
      <4>1. message_queue'[q] = message_queue[q]
        BY <1>1, <3>2 DEF TypeOK
      <4> QED BY <4>1
    <3> QED BY <3>1, <3>2
  <2> QED BY <2>1, QueuedIsUnderWayNext DEF All
<1>3. ASSUME NEW q \in Ids, message_queued[q] PROVE next_msg[q].msg \in All'
  BY <1>1, <1>3, QueuedIsUnderWayNext DEF All
<1>4. ASSUME NEW m1 \in UnderWay PROVE m1 \in All'
  <2>1. \E q \in Ids : \/ \E i \in 1..Len(message_queue[q]) : message_queue[q][i] = m1
                       \/ message_queued[q] /\ next_msg[q].msg = m1
    BY UnderWayIs
  <2> QED BY <1>2, <1>3, <2>1
<1>5. Settled \subseteq Settled'
  BY <1>1 DEF Settled
<1> QED BY <1>4, <1>5 DEF All

LEMMA AddBudget ==
  ASSUME TypeOK, TypeOK', PlaceInv, HoldInv, HoldInv', NEW g \in [Message -> Nat], Budget(g), Paid(g), AddMessage
  PROVE  Budget(g)' /\ Paid(g)'
<1> DEFINE n == Len(age)
           msg == [number |-> n + 1, source |-> Head(todo)[1], destination |-> Head(todo)[2]]
<1>1. n \in Nat /\ DOMAIN age = 1..n /\ Cardinality(DOMAIN age) = n
  BY AgeIs
<1>2. msg \in Message
  <2>1. Head(todo) \in Nat \X Nat
    BY DEF AddMessage, TypeOK
  <2> QED BY <1>1, <2>1 DEF Message
<1>3. /\ message_queue' = IF msg.source \in Ids
                          THEN [message_queue EXCEPT ![msg.source] = Append(@, msg)]
                          ELSE message_queue
      /\ lost' = IF msg.source \in Ids THEN lost ELSE lost \union {msg}
      /\ UNCHANGED <<next_msg, message_queued, received, wait, idle>>
  BY <1>1 DEF AddMessage, Pushed
<1>4. msg.number = n + 1
  OBVIOUS
<1> HIDE DEF msg, n
<1>5. g[msg] = 0
  <2>1. msg \notin All
    BY <1>1, <1>4, AllAreNumbered
  <2> QED BY <1>2, <2>1 DEF Budget
<1>6. msg \in Within(msg.source, 0, g) /\ msg \in Spent(g)
  BY <1>2, <1>5, NewIsWithin, WithinIsSpent
<1>7. All \subseteq All'
  BY AddKeepsAll
<1>8. Paid(g)'
  <2>1. idle <= Cardinality(Cells(g, All))
    BY DEF AddMessage, Paid
  <2> QED BY <1>3, <1>7, <2>1, StaysPaid
<1>9. ASSUME NEW r \in Ids PROVE message_queue'[r] \in Seq(Within(r, 0, g))
  <2>1. message_queue[r] \in Seq(Within(r, 0, g)) /\ DOMAIN message_queue = Ids
    BY DEF Budget, TypeOK
  <2>2. CASE r = msg.source
    <3>1. Append(message_queue[r], msg) \in Seq(Within(r, 0, g))
      BY <1>6, <2>1, <2>2, AppendProperties
    <3> QED BY <1>3, <2>1, <2>2, <3>1
  <2>3. CASE r # msg.source
    BY <1>3, <2>1, <2>3
  <2> QED BY <2>2, <2>3
<1>10. lost' \subseteq Spent(g)
  BY <1>3, <1>6 DEF Budget
<1>11. \A m \in Message \ All' : g[m] = 0
  BY <1>7 DEF Budget
<1> QED BY <1>3, <1>8, <1>9, <1>10, <1>11 DEF Budget

-----------------------------------------------------------------------------
(* Time goes by.                                                           *)
LEMMA TickKeepsAll == Tick => All' = All /\ UnderWay' = UnderWay
BY DEF Tick, All, Settled, UnderWay

LEMMA WaitLess ==
  ASSUME NEW g \in [Message -> Nat], NEW x, NEW w \in Nat, NEW v \in Nat, v <= w
  PROVE  Within(x, w, g) \subseteq Within(x, v, g)
<1> SUFFICES ASSUME NEW m \in Within(x, w, g) PROVE m \in Within(x, v, g)
  OBVIOUS
<1>1. m \in Message /\ g[m] \in Nat
  BY DEF Within
<1>2. PICK n \in 0..N : Way(m.source, m.destination)[n] = x /\ g[m] + w <= Far(m.source, m.destination, n)
  BY DEF Within
<1>3. Far(m.source, m.destination, n) \in Nat
  BY FarIs
<1>4. g[m] + v <= Far(m.source, m.destination, n)
  BY <1>1, <1>2, <1>3
<1> QED BY <1>1, <1>2, <1>4 DEF Within

(* A tick at which no router is ready is put down to a message on a link.  *)
LEMMA PutDown ==
  ASSUME NEW S, IsFiniteSet(S), NEW g, \A x \in S : g[x] \in Nat, NEW h, NEW m \in S,
         h[m] = g[m] + 1, \A x \in S \ {m} : h[x] = g[x]
  PROVE  /\ Cardinality(Cells(h, S)) = Cardinality(Cells(g, S)) + 1
         /\ Cardinality(Cells(g, S)) \in Nat
<1>1. \A x \in S : h[x] \in Nat
  OBVIOUS
<1>2. Cells(h, S \ {m}) = Cells(g, S \ {m})
  BY DEF Cells, Column
<1>3. /\ Cardinality(Cells(g, S)) = Cardinality(Cells(g, S \ {m})) + g[m]
      /\ Cardinality(Cells(g, S)) \in Nat /\ Cardinality(Cells(g, S \ {m})) \in Nat
  BY CellsSplit
<1>4. Cardinality(Cells(h, S)) = Cardinality(Cells(h, S \ {m})) + h[m]
  BY <1>1, CellsSplit
<1>5. g[m] \in Nat
  OBVIOUS
<1> QED BY <1>2, <1>3, <1>4, <1>5

LEMMA TickBudget ==
  ASSUME TypeOK, TypeOK', PlaceInv, HoldInv, NEW g \in [Message -> Nat], Budget(g), Paid(g), Tick
  PROVE  IdleInv'
<1>1. /\ UNCHANGED <<todo, message_queue, next_msg, message_queued, received, lost>>
      /\ \A r \in Ids : wait'[r] = IF wait[r] > 0 THEN wait[r] - 1 ELSE 0
      /\ idle' = IF Waiting THEN Later(idle) ELSE idle
      /\ All' = All /\ UnderWay' = UnderWay
  BY TickKeepsAll DEF Tick
<1>2. \A r \in Ids : wait[r] \in Nat /\ wait'[r] \in Nat /\ wait'[r] <= wait[r]
  BY <1>1 DEF TypeOK
<1>3. IsFiniteSet(All) /\ All \subseteq Message
  BY AllFinite DEF HoldInv
<1>4. ASSUME ~Waiting \/ UnderWay = {} PROVE IdleInv'
  <2>1. \A r \in Ids : message_queued[r] => next_msg[r].msg \in Within(next_msg[r].hop, wait'[r], g)
    BY <1>2, WaitLess DEF Budget
  <2>2. Budget(g)'
    BY <1>1, <2>1 DEF Budget
  <2>3. Paid(g)'
    <3>1. Cells(g, All)' = Cells(g, All)
      BY <1>1 DEF Cells, Column
    <3>2. CASE ~Waiting
      BY <1>1, <3>1, <3>2 DEF Paid
    <3>3. CASE Waiting
      BY <1>1, <1>4, <3>3 DEF Paid, Waiting
    <3> QED BY <3>2, <3>3
  <2> QED BY <2>2, <2>3 DEF IdleInv
<1>5. ASSUME Waiting, UnderWay # {} PROVE IdleInv'
  <2>1. PICK r \in Ids : message_queued[r] /\ wait[r] > 0
    <3>1. PICK r \in Ids : (\E i \in 1..Len(message_queue[r]) : TRUE) \/ message_queued[r]
      BY <1>5 DEF UnderWay
    <3>2. message_queue[r] # <<>> \/ message_queued[r]
      BY <3>1
    <3>3. wait[r] > 0
      BY <1>2, <1>5, <3>2 DEF Waiting, Ready
    <3> QED BY <3>3 DEF HoldInv
  <2> DEFINE m == next_msg[r].msg
  <2>2. m \in Message /\ m \in All
    BY <2>1, QueuedIsUnderWay DEF TypeOK, All
  <2>3. /\ \A q \in Ids : \A i \in 1..Len(message_queue[q]) : message_queue[q][i] # m
        /\ \A q \in Ids \ {r} : message_queued[q] => next_msg[q].msg # m
        /\ m \notin Settled
    BY <2>1, HeldIsNowhereElse
  <2>4. m \in Within(next_msg[r].hop, wait[r], g)
    BY <2>1 DEF Budget
  <2> HIDE DEF m
  <2>5. PICK h \in [Message -> Nat] : h[m] = g[m] + 1 /\ \A x \in Message \ {m} : h[x] = g[x]
    <3> DEFINE h == [x \in Message |-> IF x = m THEN g[m] + 1 ELSE g[x]]
    <3>1. \A x \in Message : g[x] \in Nat
      OBVIOUS
    <3>2. h \in [Message -> Nat]
      BY <2>2, <3>1
    <3>3. h[m] = g[m] + 1 /\ \A x \in Message \ {m} : h[x] = g[x]
      BY <2>2
    <3> HIDE DEF h
    <3> QED BY <3>2, <3>3
  <2>6. ASSUME NEW x, NEW w PROVE Within(x, w, g) \ {m} \subseteq Within(x, w, h)
    BY <2>5 DEF Within
  <2>7. Spent(g) \ {m} \subseteq Spent(h)
    BY <2>5 DEF Spent
  <2>8. ASSUME NEW S, NEW T, S \ {m} \subseteq T, NEW s \in Seq(S), \A i \in 1..Len(s) : s[i] # m PROVE s \in Seq(T)
    <3>1. s \in [1..Len(s) -> S] /\ Len(s) \in Nat
      BY LenProperties
    <3>2. s \in [1..Len(s) -> T]
      BY <2>8, <3>1
    <3> QED BY <3>1, <3>2, FunctionIsSeq
  <2>9. ASSUME NEW q \in Ids PROVE message_queue[q] \in Seq(Within(q, 0, h))
    BY <2>3, <2>6, <2>8 DEF Budget
  <2>10. received \in Seq(Spent(h))
    <3>1. \A i \in 1..Len(received) : received[i] # m
      BY <2>3 DEF Settled
    <3> QED BY <2>7, <2>8, <3>1 DEF Budget
  <2>11. lost \subseteq Spent(h)
    BY <2>3, <2>7 DEF Budget, Settled
  <2>12. ASSUME NEW q \in Ids, message_queued[q]
         PROVE  next_msg[q].msg \in Within(next_msg[q].hop, wait'[q], h)
    <3>1. CASE q = r
      <4>1. wait'[r] = wait[r] - 1 /\ wait[r] \in Nat /\ g[m] \in Nat
        BY <1>1, <1>2, <2>1, <2>2
      <4>2. h[m] + wait'[r] = g[m] + wait[r]
        BY <2>5, <4>1
      <4> QED BY <2>4, <3>1, <4>2 DEF Within, m
    <3>2. CASE q # r
      <4>1. next_msg[q].msg \in Within(next_msg[q].hop, wait'[q], g)
        BY <1>2, <2>12, WaitLess DEF Budget
      <4> QED BY <2>3, <2>6, <2>12, <3>2, <4>1
    <3> QED BY <3>1, <3>2
  <2>13. \A x \in Message \ All : h[x] = 0
    BY <2>2, <2>5 DEF Budget
  <2>14. Budget(h)'
    BY <1>1, <2>9, <2>10, <2>11, <2>12, <2>13 DEF Budget
  <2>15. Paid(h)'
    <3>1. /\ Cardinality(Cells(h, All)) = Cardinality(Cells(g, All)) + 1
          /\ Cardinality(Cells(g, All)) \in Nat
      <4>1. \A x \in All : g[x] \in Nat
        BY <1>3
      <4>2. \A x \in All \ {m} : h[x] = g[x]
        BY <1>3, <2>5
      <4> QED BY <1>3, <2>2, <2>5, <4>1, <4>2, PutDown
    <3>2. idle <= Cardinality(Cells(g, All)) /\ idle' <= idle + 1 /\ idle \in Nat
      BY <1>1, <1>5, NetworkAssumption DEF Paid, Later, TypeOK
    <3>3. idle' \in Nat
      BY NetworkAssumption DEF TypeOK
    <3>4. idle' <= Cardinality(Cells(h, All))
      BY <3>1, <3>2, <3>3
    <3>5. Cells(h, All)' = Cells(h, All)
      BY <1>1 DEF Cells, Column
    <3> QED BY <3>4, <3>5 DEF Paid
  <2> QED BY <2>5, <2>14, <2>15 DEF IdleInv
<1> QED BY <1>4, <1>5

LEMMA IdleNext ==
  TypeOK /\ TypeOK' /\ PlaceInv /\ HoldInv /\ HoldInv' /\ (NoLoops => IdleInv) /\ [Next]_vars => (NoLoops' => IdleInv')
<1> SUFFICES ASSUME TypeOK, TypeOK', PlaceInv, HoldInv, HoldInv', NoLoops => IdleInv, NoLoops', [Next]_vars
             PROVE  IdleInv'
  OBVIOUS
<1>1. CASE AddMessage
  <2>1. NoLoops
    BY <1>1, AddKeepsAll DEF NoLoops
  <2>2. PICK g \in [Message -> Nat] : Budget(g) /\ Paid(g)
    BY <2>1 DEF IdleInv
  <2>3. Budget(g)' /\ Paid(g)'
    BY <1>1, <2>2, AddBudget
  <2> QED BY <2>3 DEF IdleInv
<1>2. ASSUME NEW r \in Ids, SendLast(r) \/ Receive(r) \/ Prepare(r) PROVE IdleInv'
  <2>1. NoLoops
    BY <1>2, PollKeepsAll DEF NoLoops
  <2>2. PICK g \in [Message -> Nat] : Budget(g) /\ Paid(g)
    BY <2>1 DEF IdleInv
  <2>3. Budget(g)' /\ Paid(g)'
    BY <1>2, <2>2, PollBudget
  <2> QED BY <2>3 DEF IdleInv
<1>3. CASE Tick
  <2>1. NoLoops
    BY <1>3, TickKeepsAll DEF NoLoops
  <2>2. PICK g \in [Message -> Nat] : Budget(g) /\ Paid(g)
    BY <2>1 DEF IdleInv
  <2> QED BY <1>3, <2>2, TickBudget
<1>4. CASE TestFinished \/ (\E r \in Ids : PollWaiting(r)) \/ UNCHANGED vars
  <2>1. UNCHANGED <<todo, routerVars, received, lost, timeVars>>
    BY <1>4 DEF TestFinished, PollWaiting, vars
  <2>2. UNCHANGED <<todo, message_queue, next_msg, message_queued, wait, received, lost, idle>>
    BY <2>1 DEF routerVars, timeVars
  <2>3. All' = All /\ UnderWay' = UnderWay
    BY <2>2 DEF All, Settled, UnderWay
  <2>4. NoLoops
    BY <2>3 DEF NoLoops
  <2>5. PICK g \in [Message -> Nat] : Budget(g) /\ Paid(g)
    BY <2>4 DEF IdleInv
  <2>6. Budget(g)'
    BY <2>2, <2>3, <2>5 DEF Budget
  <2>7. Paid(g)'
    <3>1. Cells(g, All)' = Cells(g, All)
      BY <2>3 DEF Cells, Column
    <3> QED BY <2>2, <2>3, <2>5, <3>1 DEF Paid
  <2> QED BY <2>6, <2>7 DEF IdleInv
<1> QED BY <1>1, <1>2, <1>3, <1>4 DEF Next, Main

LEMMA InitIdle == Init => IdleInv
<1> SUFFICES ASSUME Init PROVE IdleInv
  OBVIOUS
<1> DEFINE g == [m \in Message |-> 0]
<1>1. g \in [Message -> Nat] /\ \A m \in Message : g[m] = 0
  OBVIOUS
<1> HIDE DEF g
<1>2. \A S : <<>> \in Seq(S)
  OBVIOUS
<1>3. Budget(g)
  BY <1>1, <1>2 DEF Init, Budget
<1>4. Paid(g)
  <2>1. All = {}
    BY DEF Init, All, Settled, UnderWay
  <2>2. Cells(g, All) = {}
    BY <2>1 DEF Cells
  <2> QED BY <2>2, FS_EmptySet DEF Init, Paid
<1> QED BY <1>1, <1>3, <1>4 DEF IdleInv

(* The delays of all ways, one after the other, as cells.                  *)
LEMMA DelaysAreCells ==
  ASSUME NEW S, IsFiniteSet(S), S \subseteq Message, NEW f, \A m \in S : f[m] = WayDelay(m)
  PROVE  MapThenSumSet(WayDelay, S) = Cardinality(Cells(f, S))
<1> DEFINE size == [t \in SUBSET S |-> Cardinality(Cells(f, t))]
           iter[t \in SUBSET S] == IF t = {} THEN 0 ELSE WayDelay(First(t)) + iter[t \ {First(t)}]
<1>1. MapThenSumSet(WayDelay, S) = iter[S]
  BY Zenon DEF MapThenSumSet, MapThenFoldSet, First
<1>2. \A m \in S : f[m] \in Nat
  <2>1. N \in 0..N
    BY RoutersAre
  <2> QED BY <2>1, FarIsWayDelay, FarIs
<1>3. \A t \in SUBSET S : t \ {First(t)} \in SUBSET S /\ (t # {} => First(t) \in S)
  BY DEF First
<1>4. \A t \in SUBSET S : size[t] = IF t = {} THEN 0 ELSE f[First(t)] + size[t \ {First(t)}]
  BY <1>2, <1>3, CellsRecur
<1>5. \A t \in SUBSET S : size[t] = IF t = {} THEN 0 ELSE WayDelay(First(t)) + size[t \ {First(t)}]
  <2> HIDE DEF size
  <2> QED BY <1>3, <1>4
<1>6. size = [t \in SUBSET S |-> IF t = {} THEN 0 ELSE WayDelay(First(t)) + size[t \ {First(t)}]]
  BY <1>5, Zenon
<1>7. iter = [t \in SUBSET S |-> IF t = {} THEN 0 ELSE WayDelay(First(t)) + iter[t \ {First(t)}]]
  <2> HIDE DEF size
  <2>1. \E h : h = [t \in SUBSET S |-> IF t = {} THEN 0 ELSE WayDelay(First(t)) + h[t \ {First(t)}]]
    BY <1>6
  <2> QED BY <2>1, Zenon DEF iter
<1> HIDE DEF iter, size
<1>8. \A t \in SUBSET S : iter[t] = IF t = {} THEN 0 ELSE f[First(t)] + iter[t \ {First(t)}]
  <2>1. \A t \in SUBSET S : iter[t] = IF t = {} THEN 0 ELSE WayDelay(First(t)) + iter[t \ {First(t)}]
    BY <1>7, Zenon
  <2> QED BY <1>3, <2>1
<1> QED BY <1>1, <1>2, <1>8, RecursionIsCells

(* The routers never all wait for longer than the ways of all messages     *)
(* take, one after the other, while a message is under way.                *)
THEOREM RoutersAreBusy == Spec => [](NoLoops => NeverIdle)
<1>1. TypeOK /\ HoldInv /\ (NoLoops => IdleInv) => (NoLoops => NeverIdle)
  <2> SUFFICES ASSUME TypeOK, HoldInv, IdleInv, UnderWay # {}
               PROVE  ~(idle > MapThenSumSet(WayDelay, Settled \union UnderWay))
    BY DEF NeverIdle
  <2>1. PICK g \in [Message -> Nat] : Budget(g) /\ Paid(g)
    BY DEF IdleInv
  <2> DEFINE f == [m \in Message |-> WayDelay(m)]
  <2>2. IsFiniteSet(All) /\ All \subseteq Message
    BY AllFinite DEF HoldInv
  <2>3. \A m \in Message : f[m] = WayDelay(m) /\ f[m] = Far(m.source, m.destination, N) /\ f[m] \in Nat
    <3>1. N \in 0..N
      BY RoutersAre
    <3> QED BY <3>1, FarIsWayDelay, FarIs
  <2> HIDE DEF f
  <2>4. MapThenSumSet(WayDelay, All) = Cardinality(Cells(f, All))
    BY <2>2, <2>3, DelaysAreCells
  <2>5. All \subseteq Spent(g)
    <3>1. \A x : \A w \in Nat : Within(x, w, g) \subseteq Spent(g)
      BY WithinIsSpent
    <3>2. \A i \in 1..Len(received) : received[i] \in Spent(g)
      BY <2>1, ElementOfSeq DEF Budget
    <3>3. \A q \in Ids : \A i \in 1..Len(message_queue[q]) : message_queue[q][i] \in Spent(g)
      BY <2>1, <3>1, ElementOfSeq DEF Budget
    <3>4. \A q \in Ids : message_queued[q] => next_msg[q].msg \in Spent(g)
      BY <2>1, <3>1 DEF Budget, TypeOK
    <3>5. lost \subseteq Spent(g)
      BY <2>1 DEF Budget
    <3> QED BY <3>2, <3>3, <3>4, <3>5 DEF All, Settled, UnderWay
  <2>6. \A m \in All : g[m] \in Nat /\ g[m] <= f[m]
    BY <2>2, <2>3, <2>5 DEF Spent
  <2>7. Cells(g, All) \subseteq Cells(f, All)
    <3>1. \A m \in All : Column(g, m) \subseteq Column(f, m)
      BY <2>2, <2>3, <2>6 DEF Column
    <3> QED BY <3>1 DEF Cells
  <2>8. IsFiniteSet(Cells(f, All))
    BY <2>2, <2>3, CellsFinite
  <2>9. /\ Cardinality(Cells(g, All)) <= Cardinality(Cells(f, All))
        /\ Cardinality(Cells(g, All)) \in Nat /\ Cardinality(Cells(f, All)) \in Nat
    BY <2>7, <2>8, FS_Subset, FS_CardinalityType
  <2>10. idle \in Nat /\ idle <= Cardinality(Cells(g, All))
    BY <2>1, NetworkAssumption DEF TypeOK, Paid
  <2>11. idle <= MapThenSumSet(WayDelay, All) /\ MapThenSumSet(WayDelay, All) \in Nat
    BY <2>4, <2>9, <2>10
  <2> QED BY <2>10, <2>11 DEF All
<1>2. Init => TypeOK /\ PlaceInv /\ HoldInv /\ (NoLoops => IdleInv)
  BY InitTypes, InitPlaces, InitHold, InitIdle
<1>3. TypeOK /\ PlaceInv /\ HoldInv /\ (NoLoops => IdleInv) /\ [Next]_vars
        => (TypeOK /\ PlaceInv /\ HoldInv /\ (NoLoops => IdleInv))'
  BY NextTypes, NextPlaces, NextHold, IdleNext
<1> QED BY <1>1, <1>2, <1>3, PTL DEF Spec
=============================================================================
