----------------------- MODULE ReliableDownloadProofs -----------------------
(***************************************************************************)
(* Proofs about ReliableDownload, for every text, window, buffer size,     *)
(* timing and pattern of losses.                                           *)
(***************************************************************************)
EXTENDS ReliableDownload, TLAPS, SequenceTheorems, FiniteSetTheorems

(***************************************************************************)
(* The inductive invariant.  Only ids that were requested travel, as       *)
(* requests, delayed requests and answers; every answer carries the chunk  *)
(* of its id; what is kept and written is therefore the text.              *)
(***************************************************************************)

Answers ==
  {m \in Msg : m.msg_id \in requested /\ m.msg_id < Len(Msgs) /\ m.data = Msgs[m.msg_id + 1]}

AnswersTrue ==
  /\ answers \in Seq(Answers)
  /\ data \in Seq(Answers)
  /\ reader = "store" => held \in Answers

RequestsAsked ==
  /\ requests \in Seq(requested)
  /\ \A s \in Slots : delays[s] # Free => delays[s].msg_id \in requested /\ delays[s].msg_id < Len(Msgs)

InWindowRequested == \A i \in requested : i < next_expected + WindowSize

ChunksTrue == \A i \in received : i \in requested /\ i < Len(Msgs) /\ chunks[i] = Msgs[i + 1]

FileTrue ==
  /\ next_expected <= Len(Msgs)
  /\ \A i \in Ids : i < next_expected => i \in received
  /\ file = [k \in 1..next_expected |-> Msgs[k]]

BufferSeen == pc # "aborted" /\ (pc = "take" => data # <<>>)

IInv ==
  /\ TypeOK
  /\ AnswersTrue
  /\ RequestsAsked
  /\ InWindowRequested
  /\ ChunksTrue
  /\ FileTrue
  /\ BufferSeen

-----------------------------------------------------------------------------
(* Lemmas *)

(* A sequence of elements of a set is one of elements of any larger set.   *)
LEMMA SeqOfLarger ==
  ASSUME NEW S, NEW T, S \subseteq T, NEW s \in Seq(S)
  PROVE  s \in Seq(T)
<1>1. Len(s) \in Nat /\ s = [k \in 1..Len(s) |-> s[k]] /\ \A k \in 1..Len(s) : s[k] \in T
  BY LenProperties
<1> QED BY <1>1

LEMMA FunctionIsSequence ==
  ASSUME NEW S, NEW n \in Nat, NEW f \in [1..n -> S]
  PROVE  f \in Seq(S)
  OBVIOUS

(* What the assumption on the constants says, and that the text is a       *)
(* sequence of chunks.                                                     *)
LEMMA Constants ==
  /\ NumMsgs \in Nat \ {0} /\ WindowSize \in Nat \ {0} /\ NumChunks \in Nat \ {0}
  /\ RetransmitTimeout \in Nat \ {0} /\ Heartbeat \in Nat \ {0}
  /\ DelaySamples \subseteq Nat /\ SpikeSamples \subseteq Nat /\ MaxLost \in Nat
  /\ Len(Msgs) \in Nat
  /\ \A i \in 1..Len(Msgs) : Msgs[i] \in Chunks
<1>1. Msgs \in Seq(Chunks)
  BY DownloadAssumption DEF DownloadAssumption
<1>2. Len(Msgs) \in Nat
  BY <1>1, LenProperties
<1> QED BY <1>2, DownloadAssumption DEF DownloadAssumption, Chunks

LEMMA DelaysAreNumbers == Delays \subseteq Nat
<1> DEFINE spikes == {d + s : d \in DelaySamples, s \in SpikeSamples}
<1>1. spikes \subseteq Nat
  BY Constants
<1> HIDE DEF spikes
<1>2. Delays \subseteq {0} \union DelaySamples \union spikes
  BY DEF Delays, spikes
<1> QED BY <1>1, <1>2, Constants

(* The ids the client finds due are in the window, and finitely many.      *)
LEMMA DueIds ==
  ASSUME NumMsgs \in Nat, NEW due, due \subseteq Ids
  PROVE  IsFiniteSet(due) /\ Cardinality(due) \in Nat
<1>1. IsFiniteSet(Ids)
  BY FS_Interval DEF Ids
<1>2. IsFiniteSet(due)
  BY <1>1, FS_Subset
<1> QED BY <1>2, FS_CardinalityType

(* An answer of the server is true to the id it was asked for. *)
LEMMA AnswerIsTrue ==
  ASSUME TypeOK, RequestsAsked, NEW s \in Slots, delays[s] # Free
  PROVE  Answer(delays[s].msg_id) \in Answers
<1> USE Constants
<1>1. delays[s] \in Delayed
  BY DEF TypeOK, ServerTypes
<1>2. delays[s].msg_id \in Ids /\ delays[s].msg_id \in requested /\ delays[s].msg_id < Len(Msgs)
  BY <1>1 DEF RequestsAsked, Delayed
<1>3. Msgs[delays[s].msg_id + 1] \in Chunks
  BY <1>2 DEF Ids
<1> QED BY <1>2, <1>3 DEF Answer, Answers, Msg

-----------------------------------------------------------------------------
(* The initial states *)

LEMMA InitIInv == Init => IInv
<1> SUFFICES ASSUME Init PROVE IInv
  OBVIOUS
<1> USE Constants DEF Init
<1>1. TypeOK
  <2>1. ClientTypes
    BY DEF ClientTypes, received
  <2>2. SenderTypes
    BY DEF SenderTypes
  <2>3. ConnectionTypes
    BY DEF ConnectionTypes
  <2>4. ServerTypes
    BY DEF ServerTypes
  <2> QED BY <2>1, <2>2, <2>3, <2>4 DEF TypeOK
<1>2. AnswersTrue
  BY DEF AnswersTrue
<1>3. RequestsAsked
  BY DEF RequestsAsked, Slots
<1>4. InWindowRequested /\ ChunksTrue
  BY DEF InWindowRequested, ChunksTrue, received
<1>5. FileTrue
  BY DEF FileTrue, Ids
<1>6. BufferSeen
  BY DEF BufferSeen
<1> QED BY <1>1, <1>2, <1>3, <1>4, <1>5, <1>6 DEF IInv

-----------------------------------------------------------------------------
(* The steps of the client's main thread *)

LEMMA RequestWindowIInv ==
  ASSUME IInv, RequestWindow
  PROVE  IInv'
<1> USE Constants DEF RequestWindow
<1> DEFINE due == {i \in InWindow : Due(i)}
<1>1. due \subseteq Ids /\ \A i \in due : i < next_expected + WindowSize
  BY DEF InWindow
<1>2. requested' = requested \union due /\ requested \subseteq Ids
  BY DEF IInv, TypeOK, ClientTypes
<1>3. requests' \in Seq(requested')
  <2>1. requests \in Seq(requested')
    BY <1>2, SeqOfLarger DEF IInv, RequestsAsked
  <2>2. ASSUME NEW ids \in [1..Cardinality(due) -> due]
        PROVE  ids \in Seq(requested')
    <3>1. Cardinality(due) \in Nat
      BY <1>1, DueIds
    <3>2. ids \in Seq(due)
      BY <3>1, <2>2, FunctionIsSequence
    <3> QED BY <3>2, <1>2, SeqOfLarger
  <2>3. requests' = requests \/ \E ids \in [1..Cardinality(due) -> due] : requests' = requests \o ids
    OBVIOUS
  <2>4. ASSUME NEW ids \in [1..Cardinality(due) -> due], requests' = requests \o ids
        PROVE  requests' \in Seq(requested')
    <3> HIDE DEF RequestWindow, due
    <3> QED BY <2>1, <2>2, <2>4, ConcatProperties
  <2> HIDE DEF RequestWindow
  <2> QED BY <2>1, <2>3, <2>4
<1>4. TypeOK'
  <2>1. ClientTypes'
    BY <1>1, <1>2 DEF IInv, TypeOK, ClientTypes, received
  <2>2. SenderTypes' /\ ServerTypes'
    BY DEF IInv, TypeOK, SenderTypes, ServerTypes, readerVars, serverVars
  <2>3. ConnectionTypes'
    BY <1>1, <1>2, <1>3, SeqOfLarger DEF IInv, TypeOK, ConnectionTypes
  <2> QED BY <2>1, <2>2, <2>3 DEF TypeOK
<1>5. AnswersTrue'
  <2>1. Answers \subseteq Answers'
    BY <1>2 DEF Answers
  <2> QED BY <2>1, SeqOfLarger DEF IInv, AnswersTrue, readerVars
<1>6. RequestsAsked'
  BY <1>2, <1>3 DEF IInv, RequestsAsked, serverVars
<1>7. InWindowRequested'
  BY <1>1, <1>2 DEF IInv, InWindowRequested
<1>8. ChunksTrue'
  BY <1>2 DEF IInv, ChunksTrue, received
<1>9. FileTrue' /\ BufferSeen'
  BY DEF IInv, FileTrue, BufferSeen, received
<1> QED BY <1>4, <1>5, <1>6, <1>7, <1>8, <1>9 DEF IInv

LEMMA DataReadyIInv ==
  ASSUME IInv, DataReady
  PROVE  IInv'
<1> USE DEF DataReady, readerVars, serverVars
<1>1. TypeOK'
  <2>1. ClientTypes'
    BY DEF IInv, TypeOK, ClientTypes, received
  <2>2. SenderTypes' /\ ConnectionTypes' /\ ServerTypes'
    BY DEF IInv, TypeOK, SenderTypes, ConnectionTypes, ServerTypes
  <2> QED BY <2>1, <2>2 DEF TypeOK
<1>2. AnswersTrue'
  BY DEF IInv, AnswersTrue, Answers
<1>3. RequestsAsked' /\ InWindowRequested' /\ ChunksTrue' /\ FileTrue'
  BY DEF IInv, RequestsAsked, InWindowRequested, ChunksTrue, FileTrue, received
<1>4. BufferSeen'
  BY DEF IInv, BufferSeen, HasData
<1> QED BY <1>1, <1>2, <1>3, <1>4 DEF IInv

(* Between data_ready and get_msg only the reader thread can touch the     *)
(* buffer, and it only appends: the buffer is not empty here.              *)
LEMMA GetMsgIInv ==
  ASSUME IInv, GetMsg
  PROVE  IInv'
<1> USE Constants
<1> DEFINE msg == Head(data)
<1>1. data # <<>> /\ pc' = "drain" /\ data' = Tail(data)
  BY DEF GetMsg, IInv, BufferSeen
<1>2. /\ msg \in Answers
      /\ Tail(data) \in Seq(Answers)
  BY <1>1, HeadTailProperties DEF IInv, AnswersTrue
<1>3. msg.msg_id \in requested /\ msg.msg_id \in Ids /\ msg.msg_id < Len(Msgs) /\ msg.data = Msgs[msg.msg_id + 1]
      /\ msg.data \in Chunks
  BY <1>2 DEF Answers, Msg
<1>4. \/ /\ chunks' = [i \in received \union {msg.msg_id} |-> IF i = msg.msg_id THEN msg.data ELSE chunks[i]]
         /\ age' = [age EXCEPT ![msg.msg_id] = 0]
      \/ UNCHANGED <<age, chunks>>
  BY <1>1 DEF GetMsg
<1>5. UNCHANGED <<requested, next_expected, file, readerVars, conn, requests, answers, serverVars>>
  BY DEF GetMsg
<1> HIDE DEF msg
<1>6. /\ \A i \in received : i \in received' /\ (chunks'[i] = chunks[i] \/ i = msg.msg_id)
      /\ \A i \in received' : i \in received \/ i = msg.msg_id
      /\ \A i \in received' : (chunks'[i] = chunks[i] /\ i \in received) \/ (i = msg.msg_id /\ chunks'[i] = Msgs[i + 1])
      /\ received \subseteq received'
  BY <1>3, <1>4 DEF received, IInv, ChunksTrue
<1>7. TypeOK'
  <2>1. chunks' \in [received' -> Chunks] /\ received' \subseteq Ids /\ age' \in [Ids -> 0..RetransmitTimeout]
    <3>1. chunks \in [received -> Chunks] /\ received \subseteq Ids /\ age \in [Ids -> 0..RetransmitTimeout]
      BY DEF IInv, TypeOK, ClientTypes
    <3>2. CASE UNCHANGED <<age, chunks>>
      BY <3>1, <3>2 DEF received
    <3>3. CASE /\ chunks' = [i \in received \union {msg.msg_id} |-> IF i = msg.msg_id THEN msg.data ELSE chunks[i]]
               /\ age' = [age EXCEPT ![msg.msg_id] = 0]
      <4>1. \A i \in received : chunks[i] \in Chunks
        BY <3>1
      <4>2. received' = received \union {msg.msg_id} /\ received' \subseteq Ids
        BY <1>3, <3>1, <3>3 DEF received
      <4>3. chunks' \in [received' -> Chunks]
        BY <1>3, <3>3, <4>1, <4>2
      <4>4. age' \in [Ids -> 0..RetransmitTimeout]
        <5>1. 0 \in 0..RetransmitTimeout
          OBVIOUS
        <5> QED BY <3>1, <3>3, <5>1, Zenon
      <4> QED BY <4>2, <4>3, <4>4
    <3> QED BY <1>4, <3>2, <3>3
  <2>2. ClientTypes'
    BY <1>1, <1>5, <2>1 DEF IInv, TypeOK, ClientTypes
  <2>3. Len(data') <= NumChunks /\ data' \in Seq(Msg)
    BY <1>1, HeadTailProperties DEF IInv, TypeOK, SenderTypes
  <2>4. SenderTypes' /\ ConnectionTypes' /\ ServerTypes'
    BY <1>5, <2>3 DEF IInv, TypeOK, SenderTypes, ConnectionTypes, ServerTypes, readerVars, serverVars
  <2> QED BY <2>2, <2>4 DEF TypeOK
<1>8. AnswersTrue'
  BY <1>1, <1>2, <1>5 DEF IInv, AnswersTrue, Answers, readerVars
<1>9. RequestsAsked' /\ InWindowRequested' /\ BufferSeen'
  BY <1>1, <1>5 DEF IInv, RequestsAsked, InWindowRequested, BufferSeen, serverVars
<1>10. ChunksTrue'
  BY <1>3, <1>5, <1>6 DEF IInv, ChunksTrue
<1>11. FileTrue'
  BY <1>5, <1>6 DEF IInv, FileTrue
<1> QED BY <1>7, <1>8, <1>9, <1>10, <1>11 DEF IInv

(* What is appended to the file is the next part of the text. *)
LEMMA WriteFileExtends ==
  ASSUME IInv, WriteFile
  PROVE  /\ next_expected' \in next_expected..NumMsgs /\ next_expected' <= Len(Msgs)
         /\ \A i \in Ids : i < next_expected' => i \in received
         /\ file' = [k \in 1..next_expected' |-> Msgs[k]]
<1> USE Constants
<1>1. PICK n \in next_expected..NumMsgs :
        /\ Writable(n)
        /\ next_expected' = n
        /\ file' = file \o [k \in 1..(n - next_expected) |-> chunks[next_expected + k - 1]]
  BY DEF WriteFile
<1> DEFINE new == [k \in 1..(n - next_expected) |-> chunks[next_expected + k - 1]]
<1>2. next_expected \in Nat /\ n \in Nat /\ next_expected <= n /\ n <= NumMsgs
  BY <1>1 DEF IInv, TypeOK, ClientTypes
<1>3. \A i \in next_expected..(n - 1) : i \in received /\ i < Len(Msgs) /\ chunks[i] = Msgs[i + 1]
  BY <1>1 DEF Writable, IInv, ChunksTrue
<1>4. n <= Len(Msgs)
  <2>1. CASE n = next_expected
    BY <2>1 DEF IInv, FileTrue
  <2>2. CASE n > next_expected
    BY <1>2, <1>3, <2>2
  <2> QED BY <1>2, <2>1, <2>2
<1>5. \A i \in Ids : i < n => i \in received
  BY <1>2, <1>3 DEF IInv, FileTrue, Ids
<1>6. new = [k \in 1..(n - next_expected) |-> Msgs[next_expected + k]]
  <2>1. \A k \in 1..(n - next_expected) : chunks[next_expected + k - 1] = Msgs[next_expected + k]
    <3> TAKE k \in 1..(n - next_expected)
    <3>1. next_expected + k - 1 \in next_expected..(n - 1)
      BY <1>2
    <3>2. next_expected + k - 1 + 1 = next_expected + k
      BY <1>2
    <3> QED BY <1>3, <3>1, <3>2
  <2> QED BY <2>1
<1>7. file = [k \in 1..next_expected |-> Msgs[k]]
  BY DEF IInv, FileTrue
<1>8. file' = [k \in 1..n |-> Msgs[k]]
  <2>1. \A k \in 1..n : Msgs[k] \in Chunks
    BY <1>2, <1>4
  <2> DEFINE rest == [k \in 1..(n - next_expected) |-> Msgs[next_expected + k]]
             whole == [k \in 1..n |-> Msgs[k]]
             begun == [k \in 1..next_expected |-> Msgs[k]]
  <2>2. begun \in Seq(Chunks) /\ Len(begun) = next_expected
    BY <1>2, <2>1
  <2>3. rest \in Seq(Chunks) /\ Len(rest) = n - next_expected
    BY <1>2, <2>1
  <2>4. whole \in Seq(Chunks) /\ Len(whole) = n
    BY <1>2, <2>1
  <2>5. \A k \in 1..n : (IF k <= next_expected THEN begun[k] ELSE rest[k - next_expected]) = whole[k]
    BY <1>2
  <2> HIDE DEF rest, whole, begun
  <2>6. begun \o rest = whole
    <3>1. /\ begun \o rest \in Seq(Chunks)
          /\ Len(begun \o rest) = Len(begun) + Len(rest)
          /\ \A k \in 1..(Len(begun) + Len(rest)) :
               (begun \o rest)[k] = IF k <= Len(begun) THEN begun[k] ELSE rest[k - Len(begun)]
      BY <2>2, <2>3, ConcatProperties
    <3>2. Len(begun) + Len(rest) = n
      BY <1>2, <2>2, <2>3
    <3>3. \A k \in 1..n : (begun \o rest)[k] = whole[k]
      BY <2>2, <2>5, <3>1, <3>2
    <3> QED BY <3>1, <3>2, <3>3, <2>4, SeqEqual
  <2>7. file' = begun \o rest
    BY <1>1, <1>6, <1>7 DEF begun, rest
  <2> QED BY <2>6, <2>7 DEF whole
<1> QED BY <1>1, <1>2, <1>4, <1>5, <1>8

LEMMA WriteFileIInv ==
  ASSUME IInv, WriteFile
  PROVE  IInv'
<1> USE Constants
<1>1. /\ next_expected' \in next_expected..NumMsgs /\ next_expected' <= Len(Msgs)
      /\ \A i \in Ids : i < next_expected' => i \in received
      /\ file' = [k \in 1..next_expected' |-> Msgs[k]]
  BY WriteFileExtends
<1>2. /\ pc' \in {"done", "request"}
      /\ UNCHANGED <<requested, age, chunks, data, readerVars, conn, requests, answers, serverVars>>
  BY DEF WriteFile
<1>3. TypeOK'
  <2>1. file' \in Seq(Chunks)
    <3>1. next_expected' \in Nat /\ \A k \in 1..next_expected' : Msgs[k] \in Chunks
      BY <1>1 DEF IInv, TypeOK, ClientTypes
    <3>2. file' \in [1..next_expected' -> Chunks]
      BY <1>1, <3>1
    <3> QED BY <3>1, <3>2, FunctionIsSequence
  <2>2. ClientTypes'
    BY <1>1, <1>2, <2>1 DEF IInv, TypeOK, ClientTypes, received
  <2>3. SenderTypes' /\ ConnectionTypes' /\ ServerTypes'
    BY <1>2 DEF IInv, TypeOK, SenderTypes, ConnectionTypes, ServerTypes, readerVars, serverVars
  <2> QED BY <2>2, <2>3 DEF TypeOK
<1>4. AnswersTrue'
  BY <1>2 DEF IInv, AnswersTrue, Answers, readerVars
<1>5. RequestsAsked' /\ ChunksTrue' /\ BufferSeen'
  BY <1>2 DEF IInv, RequestsAsked, ChunksTrue, BufferSeen, serverVars, received
<1>6. InWindowRequested'
  <2>1. \A i \in requested : i \in Nat /\ i < next_expected + WindowSize
    BY DEF IInv, InWindowRequested, TypeOK, ClientTypes, Ids
  <2>2. next_expected \in Nat /\ next_expected' \in Nat /\ next_expected <= next_expected'
    BY <1>1 DEF IInv, TypeOK, ClientTypes
  <2> QED BY <1>2, <2>1, <2>2 DEF InWindowRequested
<1>7. FileTrue'
  BY <1>1, <1>2 DEF FileTrue, received
<1> QED BY <1>3, <1>4, <1>5, <1>6, <1>7 DEF IInv

-----------------------------------------------------------------------------
(* The steps of the reader thread *)

(* What a step of another process has to show. *)
LEMMA ClientFrame ==
  ASSUME IInv, UNCHANGED clientVars,
         SenderTypes', ConnectionTypes', ServerTypes', AnswersTrue', RequestsAsked',
         data # <<>> => data' # <<>>
  PROVE  IInv'
<1>1. ClientTypes'
  BY DEF IInv, TypeOK, ClientTypes, clientVars, received
<1>2. InWindowRequested' /\ ChunksTrue' /\ FileTrue' /\ BufferSeen'
  BY DEF IInv, InWindowRequested, ChunksTrue, FileTrue, BufferSeen, clientVars, received
<1> QED BY <1>1, <1>2 DEF IInv, TypeOK

LEMMA ReaderReadIInv ==
  ASSUME IInv, ReaderRead
  PROVE  IInv'
<1> USE DEF ReaderRead
<1>1. Head(answers) \in Answers /\ Tail(answers) \in Seq(Answers)
  BY HeadTailProperties DEF IInv, AnswersTrue
<1>2. Head(answers) \in Msg /\ Tail(answers) \in Seq(Msg)
  BY HeadTailProperties DEF IInv, TypeOK, ConnectionTypes
<1>3. SenderTypes' /\ ConnectionTypes'
  BY <1>2 DEF IInv, TypeOK, SenderTypes, ConnectionTypes
<1>4. ServerTypes' /\ RequestsAsked'
  BY DEF IInv, TypeOK, ServerTypes, RequestsAsked, serverVars, clientVars
<1>5. AnswersTrue'
  BY <1>1 DEF IInv, AnswersTrue, Answers, clientVars
<1> QED BY <1>3, <1>4, <1>5, ClientFrame

(* The reader thread appends an answer or discards it: it never takes one  *)
(* from the buffer.                                                        *)
LEMMA ReaderStoreIInv ==
  ASSUME IInv, ReaderStore
  PROVE  IInv'
<1> USE Constants DEF ReaderStore
<1>1. held \in Answers /\ held \in Msg
  BY DEF IInv, AnswersTrue, Answers
<1>2. /\ Append(data, held) \in Seq(Answers)
      /\ Append(data, held) # <<>>
  BY <1>1, AppendProperties DEF IInv, AnswersTrue
<1>3. /\ Append(data, held) \in Seq(Msg)
      /\ Len(Append(data, held)) = Len(data) + 1 /\ Len(data) \in Nat
  BY <1>1, AppendProperties, LenProperties DEF IInv, TypeOK, SenderTypes
<1>4. data' \in Seq(Msg) /\ Len(data') <= NumChunks
  BY <1>3 DEF IInv, TypeOK, SenderTypes, HasRoom
<1>5. SenderTypes' /\ ConnectionTypes'
  BY <1>4 DEF IInv, TypeOK, SenderTypes, ConnectionTypes
<1>6. ServerTypes' /\ RequestsAsked'
  BY DEF IInv, TypeOK, ServerTypes, RequestsAsked, serverVars, clientVars
<1>7. AnswersTrue'
  BY <1>2 DEF IInv, AnswersTrue, Answers, clientVars
<1>8. data # <<>> => data' # <<>>
  BY <1>2
<1> QED BY <1>5, <1>6, <1>7, <1>8, ClientFrame

LEMMA ReaderEndsIInv ==
  ASSUME IInv, ReaderExit \/ ReaderFails
  PROVE  IInv'
<1> USE DEF ReaderExit, ReaderFails
<1>1. SenderTypes' /\ ConnectionTypes'
  BY DEF IInv, TypeOK, SenderTypes, ConnectionTypes
<1>2. ServerTypes' /\ RequestsAsked'
  BY DEF IInv, TypeOK, ServerTypes, RequestsAsked, serverVars, clientVars
<1>3. AnswersTrue'
  BY DEF IInv, AnswersTrue, Answers, clientVars
<1>4. UNCHANGED clientVars /\ data' = data
  OBVIOUS
<1> QED BY <1>1, <1>2, <1>3, <1>4, ClientFrame

-----------------------------------------------------------------------------
(* The steps of the server *)

(* What a step of the server has to show. *)
LEMMA ReaderFrame ==
  ASSUME IInv, UNCHANGED <<clientVars, data, readerVars>>,
         ConnectionTypes', ServerTypes', answers' \in Seq(Answers), RequestsAsked'
  PROVE  IInv'
<1>1. SenderTypes'
  BY DEF IInv, TypeOK, SenderTypes, readerVars
<1>2. AnswersTrue'
  BY DEF IInv, AnswersTrue, Answers, readerVars, clientVars
<1> QED BY <1>1, <1>2, ClientFrame

LEMMA AcceptIInv ==
  ASSUME IInv, Accept
  PROVE  IInv'
<1> USE Constants DEF Accept
<1>1. ConnectionTypes' /\ ServerTypes'
  BY DEF IInv, TypeOK, ConnectionTypes, ServerTypes
<1>2. answers' \in Seq(Answers) /\ RequestsAsked'
  BY DEF IInv, AnswersTrue, RequestsAsked, clientVars
<1>3. UNCHANGED <<clientVars, data, readerVars>>
  OBVIOUS
<1> QED BY <1>1, <1>2, <1>3, ReaderFrame

(* A reset takes a tail of the answers away. *)
LEMMA ExitLoopIInv ==
  ASSUME IInv, ExitLoop, UNCHANGED <<clientVars, data, readerVars>>
  PROVE  IInv'
<1> USE Constants DEF ExitLoop
<1>1. answers \in Seq(Answers) /\ answers \in Seq(Msg)
  BY DEF IInv, AnswersTrue, TypeOK, ConnectionTypes
<1>2. answers' = answers \/ \E n \in 0..Len(answers) : answers' = SubSeq(answers, 1, n)
  OBVIOUS
<1>3. answers' \in Seq(Answers) /\ answers' \in Seq(Msg)
  <2>1. ASSUME NEW n \in 0..Len(answers)
        PROVE  SubSeq(answers, 1, n) \in Seq(Answers) /\ SubSeq(answers, 1, n) \in Seq(Msg)
    <3>1. Len(answers) \in Nat /\ \A k \in 1..n : answers[k] \in Answers /\ answers[k] \in Msg
      BY <1>1, <2>1, LenProperties, ElementOfSeq
    <3> QED BY <3>1, SubSeqProperties
  <2> QED BY <1>1, <1>2, <2>1
<1>4. ConnectionTypes' /\ ServerTypes'
  <2>1. conn' \in {"closed", "reset"} /\ requests' = <<>>
    OBVIOUS
  <2> QED BY <1>3, <2>1 DEF ConnectionTypes, ServerTypes
<1>5. RequestsAsked'
  BY DEF RequestsAsked
<1> QED BY <1>3, <1>4, <1>5, ReaderFrame

LEMMA SendAnswerIInv ==
  ASSUME IInv, SendAnswer
  PROVE  IInv'
<1> USE Constants
<1>1. PICK s \in Slots :
        /\ delays[s] # Free
        /\ delays' = [delays EXCEPT ![s] = Free]
        /\ \/ answers' = answers \o <<Answer(delays[s].msg_id)>>
           \/ answers' = answers \o <<Answer(delays[s].msg_id), Answer(delays[s].msg_id)>>
  BY DEF SendAnswer
<1>2. UNCHANGED <<clientVars, data, readerVars, conn, requests, hb, burst_drop_remaining, lost>>
  BY DEF SendAnswer
<1>3. Answer(delays[s].msg_id) \in Answers /\ Answer(delays[s].msg_id) \in Msg
  BY <1>1, AnswerIsTrue DEF IInv, Answers
<1>4. answers' \in Seq(Answers) /\ answers' \in Seq(Msg)
  <2> DEFINE a == Answer(delays[s].msg_id)
  <2>1. a \in Answers /\ a \in Msg /\ answers \in Seq(Answers) /\ answers \in Seq(Msg)
        /\ (answers' = answers \o <<a>> \/ answers' = answers \o <<a, a>>)
    BY <1>1, <1>3 DEF IInv, AnswersTrue, TypeOK, ConnectionTypes
  <2> HIDE DEF a
  <2>2. {<<a>>, <<a, a>>} \subseteq Seq(Answers) /\ {<<a>>, <<a, a>>} \subseteq Seq(Msg)
    BY <2>1
  <2> QED BY <2>1, <2>2, ConcatProperties
<1>5. ConnectionTypes' /\ ServerTypes'
  BY <1>1, <1>2, <1>4 DEF IInv, TypeOK, ConnectionTypes, ServerTypes
<1>6. RequestsAsked'
  BY <1>1, <1>2 DEF IInv, RequestsAsked, TypeOK, ServerTypes, clientVars
<1> QED BY <1>2, <1>4, <1>5, <1>6, ReaderFrame

LEMMA SendToNobodyIInv ==
  ASSUME IInv, SendToNobody
  PROVE  IInv'
<1> USE Constants
<1>1. CASE ExitLoop
  BY <1>1, ExitLoopIInv DEF SendToNobody
<1>2. CASE ~ExitLoop
  <2>1. PICK s \in Slots : delays' = [delays EXCEPT ![s] = Free]
    BY <1>2 DEF SendToNobody
  <2>2. UNCHANGED <<clientVars, data, readerVars, conn, requests, answers, hb, burst_drop_remaining, lost>>
    BY <1>2 DEF SendToNobody
  <2>3. ConnectionTypes' /\ ServerTypes'
    BY <2>1, <2>2 DEF IInv, TypeOK, ConnectionTypes, ServerTypes
  <2>4. RequestsAsked' /\ answers' \in Seq(Answers)
    BY <2>1, <2>2 DEF IInv, AnswersTrue, RequestsAsked, TypeOK, ServerTypes, clientVars
  <2> QED BY <2>2, <2>3, <2>4, ReaderFrame
<1> QED BY <1>1, <1>2

LEMMA ReceiveRequestIInv ==
  ASSUME IInv, ReceiveRequest
  PROVE  IInv'
<1> USE Constants
<1> DEFINE id == Head(requests)
<1>1. requests # <<>> /\ requests' = Tail(requests)
      /\ UNCHANGED <<clientVars, data, readerVars, conn, answers>>
  BY DEF ReceiveRequest
<1>2. id \in requested /\ id \in Ids /\ Tail(requests) \in Seq(requested) /\ Tail(requests) \in Seq(Ids)
  BY <1>1, HeadTailProperties DEF IInv, RequestsAsked, TypeOK, ConnectionTypes
<1>3. ConnectionTypes'
  BY <1>1, <1>2 DEF IInv, TypeOK, ConnectionTypes
<1>4. burst_drop_remaining' \in 0..3 /\ lost' \in Nat /\ hb' \in 0..Heartbeat
  BY DEF ReceiveRequest, IInv, TypeOK, ServerTypes, serverVars, Refreshed
<1>5. \/ delays' = delays
      \/ /\ id < Len(Msgs)
         /\ \E s \in Slots, d \in Delays : delays' = [delays EXCEPT ![s] = [msg_id |-> id, left |-> d]]
  BY DEF ReceiveRequest, serverVars, FreeSlots
<1> HIDE DEF id
<1>6. Delays \subseteq Nat
  BY DelaysAreNumbers
<1>7. \A d \in Delays : [msg_id |-> id, left |-> d] \in Delayed
  BY <1>2, <1>6 DEF Delayed
<1>8. ServerTypes'
  BY <1>4, <1>5, <1>7 DEF IInv, TypeOK, ServerTypes
<1>9. RequestsAsked'
  <2>1. requests' \in Seq(requested')
    BY <1>1, <1>2 DEF clientVars
  <2>2. ASSUME NEW s \in Slots, delays'[s] # Free
        PROVE  delays'[s].msg_id \in requested /\ delays'[s].msg_id < Len(Msgs)
    BY <1>2, <1>5, <2>2 DEF IInv, RequestsAsked, TypeOK, ServerTypes
  <2> QED BY <1>1, <2>1, <2>2 DEF RequestsAsked, clientVars
<1>10. answers' \in Seq(Answers)
  BY <1>1 DEF IInv, AnswersTrue
<1> QED BY <1>1, <1>3, <1>8, <1>9, <1>10, ReaderFrame

LEMMA TickIInv ==
  ASSUME IInv, Tick
  PROVE  IInv'
<1> USE Constants DEF Tick
<1>1. ClientTypes'
  BY DEF IInv, TypeOK, ClientTypes, received
<1>2. SenderTypes' /\ ConnectionTypes'
  BY DEF IInv, TypeOK, SenderTypes, ConnectionTypes, readerVars
<1>3. \A s \in Slots : /\ delays'[s] \in Delayed \union {Free}
                       /\ delays'[s] # Free => delays[s] # Free /\ delays'[s].msg_id = delays[s].msg_id
  BY DEF IInv, TypeOK, ServerTypes, Delayed, CountDown
<1>4. ServerTypes'
  BY <1>3 DEF IInv, TypeOK, ServerTypes, CountDown
<1>5. AnswersTrue'
  BY DEF IInv, AnswersTrue, Answers, readerVars
<1>6. RequestsAsked'
  BY <1>3 DEF IInv, RequestsAsked
<1>7. InWindowRequested' /\ ChunksTrue' /\ FileTrue' /\ BufferSeen'
  BY DEF IInv, InWindowRequested, ChunksTrue, FileTrue, BufferSeen, received
<1> QED BY <1>1, <1>2, <1>4, <1>5, <1>6, <1>7 DEF IInv, TypeOK

LEMMA StutterIInv ==
  ASSUME IInv, UNCHANGED vars
  PROVE  IInv'
<1> USE DEF vars, clientVars, readerVars, serverVars
<1>1. TypeOK'
  BY DEF IInv, TypeOK, ClientTypes, SenderTypes, ConnectionTypes, ServerTypes, received
<1>2. AnswersTrue' /\ RequestsAsked' /\ InWindowRequested' /\ ChunksTrue' /\ FileTrue' /\ BufferSeen'
  BY DEF IInv, AnswersTrue, Answers, RequestsAsked, InWindowRequested, ChunksTrue, FileTrue, BufferSeen, received
<1> QED BY <1>1, <1>2 DEF IInv

(* IInv holds in every reachable state. *)
THEOREM DownloadInvariant == Spec => []IInv
<1>1. IInv /\ [Next]_vars => IInv'
  <2> SUFFICES ASSUME IInv, [Next]_vars PROVE IInv'
    OBVIOUS
  <2>1. CASE Main
    BY <2>1, RequestWindowIInv, DataReadyIInv, GetMsgIInv, WriteFileIInv DEF Main
  <2>2. CASE Reader
    BY <2>2, ReaderReadIInv, ReaderStoreIInv, ReaderEndsIInv DEF Reader
  <2>3. CASE Server
    BY <2>3, AcceptIInv, ExitLoopIInv, SendAnswerIInv, SendToNobodyIInv, ReceiveRequestIInv
       DEF Server, HeartbeatExpires, ReadFails
  <2>4. CASE Tick
    BY <2>4, TickIInv
  <2>5. CASE UNCHANGED vars
    BY <2>5, StutterIInv
  <2> QED BY <2>1, <2>2, <2>3, <2>4, <2>5 DEF Next
<1> QED BY <1>1, InitIInv, PTL DEF Spec

-----------------------------------------------------------------------------
(* Theorems *)

(* Every variable of the client, the reader thread, the connection and the *)
(* server keeps its type; the buffer never holds more than its slots       *)
(* (sender.cpp:33-41).                                                     *)
THEOREM DownloadTypes == Spec => []TypeOK
<1>1. IInv => TypeOK
  BY DEF IInv
<1> QED BY <1>1, DownloadInvariant, PTL

(* get_msg never finds the buffer empty (sender.cpp:52-70). *)
THEOREM NeverAbortsHolds == Spec => []NeverAborts
<1>1. IInv => NeverAborts
  BY DEF IInv, BufferSeen, NeverAborts
<1> QED BY <1>1, DownloadInvariant, PTL

(* Only ids within the window are asked for, under way or kept             *)
(* (client.cpp:37-52).                                                     *)
THEOREM WindowRespectedHolds == Spec => []WindowRespected
<1>1. ASSUME IInv PROVE WindowRespected
  <2> USE <1>1
  <2>1. received \subseteq requested
    BY DEF IInv, ChunksTrue
  <2>2. \A m \in AnswersOnTheWay : m.msg_id \in requested
    <3>1. \A k \in 1..Len(answers) : answers[k] \in Answers
      BY ElementOfSeq DEF IInv, AnswersTrue
    <3>2. \A k \in 1..Len(data) : data[k] \in Answers
      BY ElementOfSeq DEF IInv, AnswersTrue
    <3> QED BY <3>1, <3>2 DEF AnswersOnTheWay, IInv, AnswersTrue, Answers
  <2>3. \A k \in 1..Len(requests) : requests[k] \in requested
    BY ElementOfSeq DEF IInv, RequestsAsked
  <2>4. \A s \in {t \in Slots : delays[t] # Free} : delays[s].msg_id \in requested
    BY DEF IInv, RequestsAsked
  <2>5. IdsOnTheWay \subseteq requested
    BY <2>2, <2>3, <2>4 DEF IdsOnTheWay
  <2> QED BY <2>1, <2>5 DEF WindowRespected, IInv, InWindowRequested
<1> QED BY <1>1, DownloadInvariant, PTL

(* The file only grows, and always by the next chunks of the text: every   *)
(* step of the download is a step of the abstract one or leaves the file   *)
(* alone (client.cpp:54-76).                                               *)
THEOREM DownloadIsOrdered == Spec => ImplementsOrderedDownload
<1>1. Init => Download!Init
  BY DEF Init, Download!Init
<1>2. IInv /\ [Next]_vars => [Download!Grow]_file
  <2> SUFFICES ASSUME IInv, [Next]_vars PROVE [Download!Grow]_file
    OBVIOUS
  <2>1. CASE WriteFile
    <3>1. /\ next_expected' \in next_expected..NumMsgs /\ next_expected' <= Len(Msgs)
          /\ file' = [k \in 1..next_expected' |-> Msgs[k]]
      BY <2>1, WriteFileExtends
    <3>2. next_expected \in Nat /\ file = [k \in 1..next_expected |-> Msgs[k]] /\ Len(file) = next_expected
      BY DEF IInv, FileTrue, TypeOK, ClientTypes
    <3>3. CASE next_expected' = next_expected
      BY <3>1, <3>2, <3>3
    <3>4. CASE next_expected' # next_expected
      <4>1. next_expected' \in (Len(file) + 1)..Len(Msgs)
        BY <3>1, <3>2, <3>4, Constants
      <4> QED BY <3>1, <4>1 DEF Download!Grow
    <3> QED BY <3>3, <3>4
  <2>2. CASE RequestWindow \/ DataReady \/ GetMsg
    BY <2>2 DEF RequestWindow, DataReady, GetMsg
  <2>3. CASE Reader
    BY <2>3 DEF Reader, ReaderRead, ReaderStore, ReaderExit, ReaderFails, clientVars
  <2>4. CASE Server
    BY <2>4 DEF Server, Accept, HeartbeatExpires, SendAnswer, SendToNobody, ReadFails, ReceiveRequest, clientVars
  <2>5. CASE Tick
    BY <2>5 DEF Tick
  <2>6. CASE UNCHANGED vars
    BY <2>6 DEF vars, clientVars
  <2> QED BY <2>1, <2>2, <2>3, <2>4, <2>5, <2>6 DEF Next, Main
<1> QED BY <1>1, <1>2, DownloadInvariant, PTL DEF Spec, ImplementsOrderedDownload, Download!Spec
-----------------------------------------------------------------------------
(* The connection outlives the download, when EnoughTime says so.          *)

(* The ticks since a request was accepted, the ticks an answer may take,   *)
(* and the requests since then that were lost or are still to be read.     *)
Spent == Heartbeat - hb
Patience == Heartbeat - RetransmitTimeout * (MaxLost + 1) - 1
Tries == lost - burst_drop_remaining + Len(requests)

Alive == conn = "open" /\ pc # "done"

(* An answer is on its way, or has come and is not written.                *)
UnderWay == answers # <<>> \/ reader = "store" \/ data # <<>> \/ next_expected \in received

InTime ==
  \/ Spent <= Patience
  \/ Spent <= Patience + RetransmitTimeout * Tries + age[next_expected]

KeptAlive ==
  Alive => /\ hb > 0
           /\ UnderWay => Spent <= Patience
           /\ \A s \in Slots : delays[s] # Free => delays[s].left + Spent <= Patience
           /\ InTime

(* Only a client that is done leaves or is left.                           *)
NobodyLeaves ==
  /\ Hungup \/ conn = "left" \/ reader = "gone" => pc = "done"
  /\ pc # "done" => next_expected < NumMsgs
  /\ conn = "pending" => \A s \in Slots : delays[s] = Free

LossesCounted == burst_drop_remaining <= lost /\ lost <= MaxLost

OutliveInv == NobodyLeaves /\ LossesCounted /\ KeptAlive

LEMMA MoreTimes ==
  ASSUME NEW r \in Nat, NEW x \in Int, NEW y \in Int
  PROVE  /\ r * x \in Int
         /\ x <= y => r * x <= r * y
         /\ x < y => r * x + r <= r * y
<1>1. ASSUME NEW k \in Nat PROVE r * (x + k) = r * x + r * k /\ r * k \in Nat
  OBVIOUS
<1>2. ASSUME x <= y PROVE r * x <= r * y
  <2>1. y - x \in Nat /\ x + (y - x) = y
    BY <1>2
  <2>2. r * (x + (y - x)) = r * x + r * (y - x) /\ r * (y - x) \in Nat
    BY <1>1, <2>1
  <2>3. r * x \in Int
    OBVIOUS
  <2> QED BY <2>1, <2>2, <2>3
<1>3. ASSUME x < y PROVE r * x + r <= r * y
  <2>1. y - x - 1 \in Nat /\ (x + 1) + (y - x - 1) = y
    BY <1>3
  <2>2. r * ((x + 1) + (y - x - 1)) = r * (x + 1) + r * (y - x - 1) /\ r * (y - x - 1) \in Nat
    BY <2>1
  <2>3. r * (x + 1) = r * x + r /\ r * x \in Int
    OBVIOUS
  <2> QED BY <2>1, <2>2, <2>3
<1> QED BY <1>2, <1>3

(* The numbers the account is kept in.                                     *)
LEMMA OutliveNumbers ==
  ASSUME EnoughTime, TypeOK
  PROVE  /\ RetransmitTimeout \in Nat \ {0} /\ Heartbeat \in Nat \ {0} /\ MaxLost \in Nat
         /\ RetransmitTimeout * MaxLost \in Nat
         /\ RetransmitTimeout * (MaxLost + 1) = RetransmitTimeout * MaxLost + RetransmitTimeout
         /\ Patience \in Nat /\ Patience = Heartbeat - RetransmitTimeout * MaxLost - RetransmitTimeout - 1
         /\ \A d \in Delays : d <= Patience /\ d \in Nat
         /\ hb \in Nat /\ hb <= Heartbeat /\ Spent \in Nat
         /\ lost \in Nat /\ burst_drop_remaining \in Nat /\ Len(requests) \in Nat
         /\ Tries \in Int /\ RetransmitTimeout * Tries \in Int
         /\ \A i \in Ids : age[i] \in Nat /\ age[i] <= RetransmitTimeout
         /\ next_expected \in Nat /\ (next_expected < NumMsgs => next_expected \in Ids)
<1>1. RetransmitTimeout \in Nat \ {0} /\ Heartbeat \in Nat \ {0} /\ MaxLost \in Nat /\ NumMsgs \in Nat
  BY Constants
<1>2. /\ RetransmitTimeout * MaxLost \in Nat
      /\ RetransmitTimeout * (MaxLost + 1) = RetransmitTimeout * MaxLost + RetransmitTimeout
  BY <1>1
<1>3. Delays \subseteq Nat
  BY DelaysAreNumbers
<1>4. \A d \in Delays \union {0} :
        d + (RetransmitTimeout * MaxLost + RetransmitTimeout) < Heartbeat /\ d \in Nat
  BY <1>2, <1>3 DEF EnoughTime
<1>5. Patience = Heartbeat - (RetransmitTimeout * MaxLost + RetransmitTimeout) - 1
  BY <1>2 DEF Patience
<1> DEFINE wait == RetransmitTimeout * MaxLost
<1>6. wait \in Nat
  BY <1>2
<1>7. \A d \in Delays \union {0} : d + (wait + RetransmitTimeout) < Heartbeat /\ d \in Nat
  BY <1>4
<1>8. Patience = Heartbeat - (wait + RetransmitTimeout) - 1
  BY <1>5
<1> HIDE DEF wait
<1>9. /\ Patience \in Nat /\ \A d \in Delays : d <= Patience /\ d \in Nat
      /\ Patience = Heartbeat - wait - RetransmitTimeout - 1
  <2>1. 0 + (wait + RetransmitTimeout) < Heartbeat
    BY <1>7
  <2> QED BY <1>1, <1>6, <1>7, <1>8, <2>1
<1>10. /\ hb \in Nat /\ hb <= Heartbeat /\ lost \in Nat /\ burst_drop_remaining \in Nat
       /\ requests \in Seq(Ids)
       /\ \A i \in Ids : age[i] \in 0..RetransmitTimeout
       /\ next_expected \in 0..NumMsgs
  BY <1>1 DEF TypeOK, ClientTypes, ConnectionTypes, ServerTypes
<1>11. Len(requests) \in Nat
  BY <1>10
<1>12. Tries \in Int /\ Spent \in Nat
  BY <1>1, <1>10, <1>11 DEF Tries, Spent
<1>13. RetransmitTimeout * Tries \in Int
  BY <1>1, <1>12
<1>14. \A i \in Ids : age[i] \in Nat /\ age[i] <= RetransmitTimeout
  BY <1>1, <1>10
<1>15. next_expected \in Nat /\ (next_expected < NumMsgs => next_expected \in Ids)
  BY <1>1, <1>10 DEF Ids
<1> QED BY <1>1, <1>2, <1>9, <1>10, <1>11, <1>12, <1>13, <1>14, <1>15 DEF wait

(* Steps that leave the server alone, and what the client waits for.       *)
LEMMA NothingDelayed ==
  ASSUME OutliveInv, UNCHANGED <<conn, hb, delays, burst_drop_remaining, lost>>,
         pc' # "done" => pc # "done", Alive => (UnderWay' => Spent <= Patience) /\ InTime'
  PROVE  LossesCounted' /\ KeptAlive'
<1>1. LossesCounted'
  BY DEF OutliveInv, LossesCounted
<1>2. Alive' => Alive /\ Spent' = Spent
  BY DEF Alive, Spent
<1>3. ASSUME Alive' PROVE hb' > 0 /\ \A s \in Slots : delays'[s] # Free => delays'[s].left + Spent' <= Patience
  BY <1>2, <1>3 DEF OutliveInv, KeptAlive
<1> QED BY <1>1, <1>2, <1>3 DEF KeptAlive

LEMMA InitOutlives ==
  ASSUME Init PROVE OutliveInv
BY Constants DEF Init, OutliveInv, NobodyLeaves, LossesCounted, KeptAlive, Alive, Hungup

LEMMA RequestWindowOutlives ==
  ASSUME EnoughTime, TypeOK, TypeOK', OutliveInv, RequestWindow
  PROVE  OutliveInv'
<1>1. /\ pc = "request" /\ pc' = "drain"
      /\ UNCHANGED <<chunks, next_expected, data, readerVars, conn, answers, serverVars>>
  BY DEF RequestWindow
<1>2. NobodyLeaves'
  BY <1>1 DEF OutliveInv, NobodyLeaves, Hungup, readerVars, serverVars
<1>3. ASSUME Alive PROVE (UnderWay' => Spent <= Patience) /\ InTime'
  <2> DEFINE due == {i \in InWindow : Due(i)}
             m == next_expected
  <2>1. UnderWay' = UnderWay
    BY <1>1 DEF UnderWay, received, readerVars
  <2>2. m \in Ids /\ m \in Nat
    BY <1>1, <1>3, OutliveNumbers DEF OutliveInv, NobodyLeaves, Alive
  <2>3. PICK ids \in [1..Cardinality(due) -> due] : requests' = requests \o ids
    <3>1. ~Hungup
      BY <1>3 DEF Alive, Hungup
    <3> QED BY <3>1, Zenon DEF RequestWindow
  <2>4. age' = [i \in Ids |-> IF i \in due THEN 0 ELSE age[i]]
    BY DEF RequestWindow
  <2>5. due \subseteq Ids /\ IsFiniteSet(due) /\ Cardinality(due) \in Nat
    <3>1. due \subseteq Ids
      BY DEF InWindow
    <3> HIDE DEF due
    <3> QED BY <3>1, DueIds, Constants
  <2>6. m \in due => Cardinality(due) >= 1
    <3> HIDE DEF due
    <3> QED BY <2>5, FS_EmptySet
  <2> HIDE DEF due
  <2>7. Len(requests') = Len(requests) + Cardinality(due)
    <3>1. ids \in Seq(Ids) /\ Len(ids) = Cardinality(due)
      <4> DEFINE n == Cardinality(due)
      <4>1. n \in Nat /\ ids \in [1..n -> Ids]
        BY <2>3, <2>5
      <4> HIDE DEF n
      <4>2. ids \in Seq(Ids) /\ Len(ids) = n
        BY <4>1
      <4> QED BY <4>2 DEF n
    <3>2. requests \in Seq(Ids)
      BY DEF TypeOK, ConnectionTypes
    <3>3. Len(requests \o ids) = Len(requests) + Len(ids)
      BY <3>1, <3>2
    <3> QED BY <2>3, <3>1, <3>3
  <2>8. Tries' = Tries + Cardinality(due) /\ Spent' = Spent
    <3>1. lost \in Nat /\ burst_drop_remaining \in Nat /\ Len(requests) \in Nat
      BY OutliveNumbers
    <3> QED BY <1>1, <2>5, <2>7, <3>1 DEF Tries, Spent, serverVars
  <2>9. age'[m] = IF m \in due THEN 0 ELSE age[m]
    BY <2>2, <2>4
  <2> DEFINE owed == RetransmitTimeout * Tries
             owing == RetransmitTimeout * Tries'
  <2>10. /\ owed \in Int /\ owing \in Int /\ owed <= owing
         /\ m \in due => owed + RetransmitTimeout <= owing
    <3>0. Tries \in Int
      BY OutliveNumbers
    <3>1. Tries \in Int /\ Tries' \in Int /\ Tries <= Tries' /\ (m \in due => Tries < Tries')
      BY <2>5, <2>6, <2>8, <3>0
    <3>2. RetransmitTimeout \in Nat
      BY OutliveNumbers
    <3> QED BY <3>1, <3>2, MoreTimes
  <2>11. Spent <= Patience \/ Spent <= Patience + owed + age[m]
    BY <1>3 DEF OutliveInv, KeptAlive, InTime
  <2>12. /\ age[m] \in Nat /\ age[m] <= RetransmitTimeout /\ Spent \in Nat /\ Patience \in Nat
         /\ RetransmitTimeout \in Nat
    BY <2>2, OutliveNumbers
  <2> HIDE DEF owed, owing
  <2>13. Spent <= Patience \/ Spent <= Patience + owing + age'[m]
    BY <2>9, <2>10, <2>11, <2>12
  <2>14. InTime'
    BY <1>1, <2>8, <2>13 DEF InTime, owing, Patience
  <2> QED BY <1>3, <2>1, <2>14 DEF OutliveInv, KeptAlive
<1> QED BY <1>1, <1>2, <1>3, NothingDelayed DEF OutliveInv, serverVars

LEMMA DataReadyOutlives ==
  ASSUME OutliveInv, DataReady
  PROVE  OutliveInv'
<1>1. /\ pc = "drain" /\ pc' # "done"
      /\ UNCHANGED <<age, chunks, next_expected, data, readerVars, conn, requests, answers, serverVars>>
  BY DEF DataReady
<1>2. NobodyLeaves'
  BY <1>1 DEF OutliveInv, NobodyLeaves, Hungup, readerVars, serverVars
<1>3. ASSUME Alive PROVE (UnderWay' => Spent <= Patience) /\ InTime'
  BY <1>1, <1>3 DEF OutliveInv, KeptAlive, UnderWay, InTime, Tries, Spent, received, readerVars, serverVars
<1> QED BY <1>1, <1>2, <1>3, NothingDelayed DEF OutliveInv, serverVars

(* A message is taken: it was under way, so it is not late.                *)
LEMMA GetMsgOutlives ==
  ASSUME IInv, OutliveInv, GetMsg
  PROVE  OutliveInv'
<1>1. /\ pc = "take" /\ pc' # "done" /\ data # <<>>
      /\ UNCHANGED <<next_expected, readerVars, conn, requests, answers, serverVars>>
  BY DEF GetMsg, IInv, BufferSeen
<1>2. NobodyLeaves'
  BY <1>1 DEF OutliveInv, NobodyLeaves, Hungup, readerVars, serverVars
<1>3. ASSUME Alive PROVE (UnderWay' => Spent <= Patience) /\ InTime'
  BY <1>1, <1>3 DEF OutliveInv, KeptAlive, UnderWay, InTime, Spent, serverVars
<1> QED BY <1>1, <1>2, <1>3, NothingDelayed DEF OutliveInv, serverVars

(* The file grows: what was missing had come, so the next is not late.     *)
LEMMA WriteFileOutlives ==
  ASSUME IInv, OutliveInv, WriteFile
  PROVE  OutliveInv'
<1>1. PICK n \in next_expected..NumMsgs :
        /\ Writable(n) /\ next_expected' = n
        /\ pc' = IF n = NumMsgs THEN "done" ELSE "request"
  BY DEF WriteFile
<1>2. /\ pc = "write"
      /\ UNCHANGED <<age, chunks, data, readerVars, conn, requests, answers, serverVars>>
  BY DEF WriteFile
<1>3. next_expected \in Nat /\ NumMsgs \in Nat
  BY Constants DEF IInv, TypeOK, ClientTypes
<1>4. NobodyLeaves'
  BY <1>1, <1>2, <1>3 DEF OutliveInv, NobodyLeaves, Hungup, readerVars, serverVars
<1>5. ASSUME Alive PROVE (UnderWay' => Spent <= Patience) /\ InTime'
  <2>1. CASE n = next_expected
    BY <1>1, <1>2, <1>5, <2>1 DEF OutliveInv, KeptAlive, UnderWay, InTime, Tries, Spent, received, readerVars, serverVars
  <2>2. CASE n # next_expected
    <3>1. next_expected \in received
      BY <1>1, <1>3, <2>2 DEF Writable
    <3>2. Spent <= Patience /\ Spent' = Spent
      BY <1>2, <1>5, <3>1 DEF OutliveInv, KeptAlive, UnderWay, Spent, serverVars
    <3> QED BY <3>2 DEF InTime, Patience
  <2> QED BY <2>1, <2>2
<1> QED BY <1>2, <1>4, <1>5, NothingDelayed DEF OutliveInv, serverVars

LEMMA ReaderOutlives ==
  ASSUME OutliveInv, Reader
  PROVE  OutliveInv'
<1>1. UNCHANGED <<clientVars, requests, serverVars>>
  BY DEF Reader, ReaderRead, ReaderStore, ReaderExit, ReaderFails
<1>2. CASE ReaderRead \/ ReaderStore
  <2>1. /\ reader' \in {"poll", "store"} /\ UNCHANGED conn
        /\ UnderWay
    BY <1>2 DEF ReaderRead, ReaderStore, UnderWay
  <2>2. NobodyLeaves'
    BY <1>1, <2>1 DEF OutliveInv, NobodyLeaves, Hungup, clientVars, serverVars
  <2>3. ASSUME Alive PROVE (UnderWay' => Spent <= Patience) /\ InTime'
    BY <1>1, <2>1, <2>3 DEF OutliveInv, KeptAlive, InTime, Tries, Spent, clientVars, serverVars
  <2> QED BY <1>1, <2>1, <2>2, <2>3, NothingDelayed DEF OutliveInv, clientVars, serverVars
<1>3. CASE ReaderExit \/ ReaderFails
  <2>1. pc = "done"
    BY <1>3 DEF ReaderExit, ReaderFails, OutliveInv, NobodyLeaves, Hungup
  <2>2. conn' # "pending" \/ conn = "pending"
    BY <1>3 DEF ReaderExit, ReaderFails
  <2>3. NobodyLeaves'
    BY <1>1, <2>1, <2>2 DEF OutliveInv, NobodyLeaves, clientVars, serverVars
  <2> QED BY <1>1, <2>1, <2>3 DEF OutliveInv, LossesCounted, KeptAlive, Alive, clientVars, serverVars
<1> QED BY <1>2, <1>3 DEF Reader

LEMMA AcceptOutlives ==
  ASSUME EnoughTime, TypeOK, OutliveInv, Accept
  PROVE  OutliveInv'
<1>1. /\ conn = "pending" /\ conn' = "open" /\ hb' = Heartbeat
      /\ UNCHANGED <<pc, reader, next_expected, delays, burst_drop_remaining, lost>>
  BY DEF Accept, clientVars, readerVars
<1>2. NobodyLeaves' /\ LossesCounted'
  BY <1>1 DEF OutliveInv, NobodyLeaves, LossesCounted, Hungup
<1>3. Spent' = 0 /\ Spent' <= Patience /\ hb' > 0
  <2>1. Heartbeat \in Nat \ {0} /\ Patience \in Nat
    BY OutliveNumbers
  <2> QED BY <1>1, <2>1 DEF Spent
<1>4. \A s \in Slots : delays'[s] = Free
  BY <1>1 DEF OutliveInv, NobodyLeaves
<1>5. KeptAlive'
  BY <1>3, <1>4 DEF KeptAlive, InTime, Patience
<1> QED BY <1>2, <1>5 DEF OutliveInv

(* The server ends the connection of a client that is done.                *)
LEMMA ExitLoopOutlives ==
  ASSUME OutliveInv, ExitLoop, UNCHANGED <<pc, reader, next_expected>>, pc = "done"
  PROVE  OutliveInv'
<1>1. conn' \in {"closed", "reset"} /\ lost' = 0 /\ burst_drop_remaining' = 0
  BY DEF ExitLoop
<1>2. LossesCounted'
  BY <1>1, Constants DEF LossesCounted
<1> QED BY <1>1, <1>2 DEF OutliveInv, NobodyLeaves, KeptAlive, Alive

(* While the client goes on, the heartbeat does not run out.               *)
LEMMA GivesUpDoneOnly ==
  ASSUME OutliveInv, HeartbeatExpires \/ SendToNobody \/ ReadFails
  PROVE  pc = "done" /\ UNCHANGED <<pc, reader, next_expected>>
<1>1. UNCHANGED <<clientVars, data, readerVars>>
  BY DEF HeartbeatExpires, SendToNobody, ReadFails
<1>2. CASE HeartbeatExpires
  <2>1. conn \in {"open", "left"} /\ hb = 0
    BY <1>2 DEF HeartbeatExpires, Serving
  <2> QED BY <1>1, <2>1 DEF OutliveInv, NobodyLeaves, KeptAlive, Alive, clientVars, readerVars
<1>3. CASE SendToNobody \/ ReadFails
  BY <1>1, <1>3 DEF SendToNobody, ReadFails, OutliveInv, NobodyLeaves, clientVars, readerVars
<1> QED BY <1>2, <1>3

LEMMA SendToNobodyOutlives ==
  ASSUME OutliveInv, SendToNobody
  PROVE  OutliveInv'
<1>1. pc = "done" /\ UNCHANGED <<pc, reader, next_expected>>
  BY GivesUpDoneOnly
<1>2. CASE ExitLoop
  BY <1>1, <1>2, ExitLoopOutlives
<1>3. CASE ~ExitLoop
  BY <1>1, <1>3 DEF SendToNobody, OutliveInv, NobodyLeaves, LossesCounted, KeptAlive, Alive, Hungup
<1> QED BY <1>2, <1>3

(* An answer goes out: its request was accepted no longer ago than its     *)
(* delay.                                                                  *)
LEMMA SendAnswerOutlives ==
  ASSUME EnoughTime, TypeOK, OutliveInv, SendAnswer
  PROVE  OutliveInv'
<1>1. PICK s \in Slots : delays[s] # Free /\ delays' = [delays EXCEPT ![s] = Free]
  BY DEF SendAnswer
<1>2. /\ conn = "open"
      /\ UNCHANGED <<pc, age, chunks, next_expected, data, reader, conn, requests, hb, burst_drop_remaining, lost>>
  BY DEF SendAnswer, clientVars, readerVars
<1>3. NobodyLeaves' /\ LossesCounted'
  BY <1>2 DEF OutliveInv, NobodyLeaves, LossesCounted, Hungup
<1>4. ASSUME Alive
      PROVE  Spent' <= Patience /\ hb' > 0
             /\ \A t \in Slots : delays'[t] # Free => delays'[t].left + Spent' <= Patience
  <2>1. delays[s] \in Delayed /\ delays[s].left \in Nat
    BY <1>1 DEF TypeOK, ServerTypes, Delayed
  <2>2. delays[s].left + Spent <= Patience /\ Spent \in Nat /\ Patience \in Nat /\ hb > 0
    BY <1>1, <1>4, OutliveNumbers DEF OutliveInv, KeptAlive
  <2>3. Spent' = Spent
    BY <1>2 DEF Spent
  <2>4. \A t \in Slots : delays'[t] # Free => delays'[t] = delays[t]
    BY <1>1 DEF TypeOK, ServerTypes
  <2>5. \A t \in Slots : delays[t] # Free => delays[t].left + Spent <= Patience
    BY <1>4 DEF OutliveInv, KeptAlive
  <2> QED BY <1>2, <2>1, <2>2, <2>3, <2>4, <2>5
<1>5. KeptAlive'
  BY <1>2, <1>4 DEF KeptAlive, Alive, InTime, Patience
<1> QED BY <1>3, <1>5 DEF OutliveInv

(* A request is read: one that is lost is paid for, one that finds no place *)
(* waits behind others that were accepted, and one that is accepted puts   *)
(* the heartbeat off.                                                      *)
LEMMA ReceiveRequestOutlives ==
  ASSUME EnoughTime, TypeOK, OutliveInv, ReceiveRequest
  PROVE  OutliveInv'
<1>1. /\ Serving /\ hb > 0 /\ requests # <<>> /\ requests' = Tail(requests)
      /\ UNCHANGED <<pc, age, chunks, next_expected, data, reader, conn, answers>>
  BY DEF ReceiveRequest, clientVars, readerVars
<1>2. NobodyLeaves'
  BY <1>1 DEF OutliveInv, NobodyLeaves, Hungup, Serving
<1>3. Head(requests) < Len(Msgs)
  <2>1. requests \in Seq(Ids) /\ Head(requests) \in Ids
    BY <1>1 DEF TypeOK, ConnectionTypes
  <2> QED BY <2>1, Constants DEF EnoughTime, Ids
<1>4. Len(requests') = Len(requests) - 1 /\ Len(requests) \in Nat
  BY <1>1 DEF TypeOK, ConnectionTypes
<1>5. CASE /\ UNCHANGED <<delays, hb>>
           /\ burst_drop_remaining' <= lost' /\ lost' <= MaxLost
           /\ lost' - burst_drop_remaining' = lost - burst_drop_remaining + 1
  <2>1. Spent' = Spent /\ UnderWay' = UnderWay
    BY <1>1, <1>5 DEF Spent, UnderWay, received
  <2>2. lost \in Nat /\ burst_drop_remaining \in Nat
    BY OutliveNumbers
  <2>3. Tries' = Tries
    BY <1>4, <1>5, <2>2 DEF Tries
  <2>4. InTime' = InTime
    BY <1>1, <2>1, <2>3 DEF InTime, Patience
  <2>5. KeptAlive'
    BY <1>1, <1>5, <2>1, <2>4 DEF OutliveInv, KeptAlive, Alive, Patience
  <2> QED BY <1>2, <1>5, <2>5 DEF OutliveInv, LossesCounted
<1>6. CASE FreeSlots = {} /\ UNCHANGED serverVars
  <2>1. 1 \in Slots /\ delays[1] # Free
    BY <1>6, Constants DEF FreeSlots, Slots
  <2>2. delays[1].left \in Nat
    BY <2>1 DEF TypeOK, ServerTypes, Delayed
  <2>3. Alive => Spent <= Patience
    <3>1. Alive => delays[1].left + Spent <= Patience
      BY <2>1 DEF OutliveInv, KeptAlive
    <3>2. Spent \in Nat /\ Patience \in Nat
      BY OutliveNumbers
    <3> QED BY <2>2, <3>1, <3>2
  <2>4. Spent' = Spent /\ UNCHANGED <<delays, hb, lost, burst_drop_remaining>>
    BY <1>6 DEF Spent, serverVars
  <2>5. KeptAlive'
    BY <1>1, <2>3, <2>4 DEF OutliveInv, KeptAlive, Alive, InTime, Patience
  <2> QED BY <1>2, <2>4, <2>5 DEF OutliveInv, LossesCounted
<1>7. CASE /\ \E s \in FreeSlots, d \in Delays :
                delays' = [delays EXCEPT ![s] = [msg_id |-> Head(requests), left |-> d]]
           /\ hb' = Heartbeat /\ lost' = 0 /\ burst_drop_remaining' = 0
  <2>1. PICK s \in FreeSlots, d \in Delays :
               delays' = [delays EXCEPT ![s] = [msg_id |-> Head(requests), left |-> d]]
    BY <1>7
  <2>0. Heartbeat \in Nat \ {0} /\ Patience \in Nat /\ d \in Nat /\ d <= Patience
    BY OutliveNumbers
  <2>2. Spent' = 0 /\ Spent' <= Patience /\ d \in Nat /\ d <= Patience
    BY <1>7, <2>0 DEF Spent
  <2>3. ASSUME Alive, NEW t \in Slots, delays'[t] # Free
        PROVE  delays'[t].left + Spent' <= Patience
    <3>1. CASE t = s
      <4>1. delays'[t].left = d
        BY <2>1, <3>1 DEF TypeOK, ServerTypes
      <4> QED BY <2>2, <4>1
    <3>2. CASE t # s
      <4>1. delays'[t] = delays[t]
        BY <2>1, <3>2 DEF TypeOK, ServerTypes
      <4>2. delays[t].left \in Nat
        BY <2>3, <4>1 DEF TypeOK, ServerTypes, Delayed
      <4>3. delays[t].left + Spent <= Patience /\ Spent \in Nat /\ Patience \in Nat
        BY <2>3, <4>1, OutliveNumbers DEF OutliveInv, KeptAlive
      <4> QED BY <2>2, <4>1, <4>2, <4>3
    <3> QED BY <3>1, <3>2
  <2>4. hb' > 0
    BY <1>7, <2>0
  <2>5. KeptAlive'
    BY <1>1, <2>2, <2>3, <2>4 DEF KeptAlive, Alive, InTime, Patience
  <2>6. LossesCounted'
    BY <1>7, Constants DEF LossesCounted
  <2> QED BY <1>2, <2>5, <2>6 DEF OutliveInv
<1>8. burst_drop_remaining \in Nat /\ lost \in Nat /\ MaxLost \in Nat
      /\ burst_drop_remaining <= lost /\ lost <= MaxLost
  BY OutliveNumbers DEF OutliveInv, LossesCounted
<1>9. \/ /\ burst_drop_remaining > 0
         /\ burst_drop_remaining' = burst_drop_remaining - 1
         /\ UNCHANGED <<delays, hb, lost>>
      \/ /\ burst_drop_remaining = 0
         /\ \E length \in 2..4 :
              /\ lost + length <= MaxLost
              /\ lost' = lost + length
              /\ burst_drop_remaining' = length - 1
         /\ UNCHANGED <<delays, hb>>
      \/ /\ burst_drop_remaining = 0
         /\ lost < MaxLost
         /\ lost' = lost + 1
         /\ UNCHANGED <<delays, hb, burst_drop_remaining>>
      \/ FreeSlots = {} /\ UNCHANGED serverVars
      \/ /\ \E s \in FreeSlots, d \in Delays :
                delays' = [delays EXCEPT ![s] = [msg_id |-> Head(requests), left |-> d]]
         /\ hb' = Heartbeat /\ lost' = 0 /\ burst_drop_remaining' = 0
  <2>1. ~(Head(requests) >= Len(Msgs))
    <3>1. Head(requests) \in Int
      <4>1. requests \in Seq(Ids)
        BY DEF TypeOK, ConnectionTypes
      <4>2. Head(requests) \in Ids
        BY <1>1, <4>1
      <4> QED BY <4>2, Constants DEF Ids
    <3> QED BY <1>3, <3>1, Constants
  <2> QED BY <2>1 DEF ReceiveRequest, Refreshed
<1>10. \/ /\ UNCHANGED <<delays, hb>>
          /\ burst_drop_remaining' <= lost' /\ lost' <= MaxLost
          /\ lost' - burst_drop_remaining' = lost - burst_drop_remaining + 1
       \/ FreeSlots = {} /\ UNCHANGED serverVars
       \/ /\ \E s \in FreeSlots, d \in Delays :
                delays' = [delays EXCEPT ![s] = [msg_id |-> Head(requests), left |-> d]]
          /\ hb' = Heartbeat /\ lost' = 0 /\ burst_drop_remaining' = 0
  <2>1. ASSUME burst_drop_remaining > 0, burst_drop_remaining' = burst_drop_remaining - 1,
               UNCHANGED <<delays, hb, lost>>
        PROVE  /\ burst_drop_remaining' <= lost' /\ lost' <= MaxLost
               /\ lost' - burst_drop_remaining' = lost - burst_drop_remaining + 1
    BY <1>8, <2>1
  <2>2. ASSUME burst_drop_remaining = 0, NEW length \in 2..4, lost + length <= MaxLost,
               lost' = lost + length, burst_drop_remaining' = length - 1
        PROVE  /\ burst_drop_remaining' <= lost' /\ lost' <= MaxLost
               /\ lost' - burst_drop_remaining' = lost - burst_drop_remaining + 1
    BY <1>8, <2>2
  <2>3. ASSUME burst_drop_remaining = 0, lost < MaxLost, lost' = lost + 1,
               UNCHANGED burst_drop_remaining
        PROVE  /\ burst_drop_remaining' <= lost' /\ lost' <= MaxLost
               /\ lost' - burst_drop_remaining' = lost - burst_drop_remaining + 1
    BY <1>8, <2>3
  <2> QED BY <1>9, <2>1, <2>2, <2>3
<1> QED BY <1>5, <1>6, <1>7, <1>10

(* Time passes only when all that was read is answered or lost, and the    *)
(* first missing chunk has been asked for less than a timeout ago.         *)
LEMMA TickOutlives ==
  ASSUME EnoughTime, IInv, OutliveInv, Tick
  PROVE  OutliveInv'
<1>0. TypeOK
  BY DEF IInv
<1>1. /\ Quiet
      /\ UNCHANGED <<pc, requested, chunks, next_expected, data, reader, conn, requests,
                     answers, burst_drop_remaining, lost>>
  BY DEF Tick, EnoughTime, readerVars
<1>2. NobodyLeaves' /\ LossesCounted'
  <2>1. ASSUME conn = "pending" PROVE \A s \in Slots : delays'[s] = Free
    BY <2>1 DEF Tick, OutliveInv, NobodyLeaves
  <2> QED BY <1>1, <2>1 DEF OutliveInv, NobodyLeaves, LossesCounted, Hungup
<1>3. ASSUME Alive PROVE KeptAlive'
  <2> DEFINE m == next_expected
  <2>1. /\ reader # "gone" /\ Serving
        /\ m \in Ids
    BY <1>0, <1>3, OutliveNumbers DEF OutliveInv, NobodyLeaves, Alive, Serving
  <2>2. /\ answers = <<>> /\ reader = "poll" /\ data = <<>> /\ m \notin received
        /\ {i \in InWindow : Due(i)} = {} /\ requests = <<>> /\ hb > 0
        /\ \A s \in Slots : delays[s] # Free => delays[s].left > 0
    BY <1>1, <1>3, <2>1 DEF Quiet, Alive
  <2>3. ~UnderWay'
    BY <1>1, <2>2 DEF UnderWay, received
  <2>4. m \in requested /\ age[m] < RetransmitTimeout
    <3>1. m \in InWindow
      BY <1>0, <2>1, OutliveNumbers, Constants DEF InWindow, Ids
    <3>2. ~Due(m)
      BY <2>2, <3>1
    <3>3. age[m] \in Nat /\ RetransmitTimeout \in Nat
      BY <1>0, <2>1, OutliveNumbers
    <3> QED BY <2>2, <3>2, <3>3 DEF Due
  <2>5. age'[m] = age[m] + 1 /\ age[m] \in Nat /\ RetransmitTimeout \in Nat
    BY <1>0, <2>1, <2>2, <2>4, OutliveNumbers DEF Tick
  <2>6. hb' = hb - 1 /\ Spent' = Spent + 1
    <3>1. hb \in Nat /\ Heartbeat \in Nat /\ hb > 0
      BY <1>0, <2>2, OutliveNumbers
    <3>2. hb' = hb - 1
      BY <3>1 DEF Tick, CountDown
    <3> QED BY <3>1, <3>2 DEF Spent
  <2>7. ASSUME NEW s \in Slots, delays'[s] # Free
        PROVE  delays'[s].left + Spent' <= Patience
    <3>1. delays[s] # Free /\ delays'[s] = [delays[s] EXCEPT !.left = CountDown(@)]
      BY <2>7 DEF Tick
    <3>2. delays[s] \in Delayed /\ delays[s].left > 0 /\ delays[s].left \in Nat
      BY <1>0, <2>2, <3>1 DEF TypeOK, ServerTypes, Delayed
    <3>3. delays'[s].left = delays[s].left - 1
      BY <3>1, <3>2 DEF CountDown, Delayed
    <3>4. delays[s].left + Spent <= Patience /\ Spent \in Nat /\ Patience \in Nat
      BY <1>0, <1>3, <3>1, OutliveNumbers DEF OutliveInv, KeptAlive
    <3> QED BY <2>6, <3>2, <3>3, <3>4
  <2> DEFINE owed == RetransmitTimeout * Tries
             most == RetransmitTimeout * MaxLost
  <2>8. Tries \in Nat /\ Tries <= MaxLost /\ MaxLost \in Nat /\ Tries' = Tries
    <3>1. /\ lost \in Nat /\ burst_drop_remaining \in Nat /\ burst_drop_remaining <= lost
          /\ lost <= MaxLost /\ MaxLost \in Nat
      BY <1>0, OutliveNumbers DEF OutliveInv, LossesCounted
    <3>2. Len(requests) = 0
      BY <2>2
    <3> QED BY <1>1, <3>1, <3>2 DEF Tries
  <2>9. owed \in Nat /\ owed <= most /\ most \in Nat
    BY <2>5, <2>8, MoreTimes
  <2>10. Spent <= Patience \/ Spent <= Patience + owed + age[m]
    BY <1>3 DEF OutliveInv, KeptAlive, InTime
  <2>11. /\ Spent \in Nat /\ Patience \in Nat /\ hb \in Nat /\ Heartbeat \in Nat
         /\ Patience = Heartbeat - most - RetransmitTimeout - 1
         /\ Spent = Heartbeat - hb
    BY <1>0, OutliveNumbers DEF Spent
  <2>12. InTime'
    <3> HIDE DEF owed, most
    <3>1. Spent' <= Patience + owed + age'[m]
      BY <2>5, <2>6, <2>9, <2>10, <2>11
    <3> QED BY <1>1, <2>8, <3>1 DEF InTime, owed, Patience
  <2>13. hb' > 0
    <3> HIDE DEF owed, most
    <3>1. Spent + 1 <= Patience + most + RetransmitTimeout
      BY <2>4, <2>5, <2>9, <2>10, <2>11
    <3> QED BY <2>5, <2>6, <2>9, <2>11, <3>1
  <2> QED BY <2>3, <2>7, <2>12, <2>13 DEF KeptAlive, Patience
<1>4. Alive' => Alive
  BY <1>1 DEF Alive
<1>5. KeptAlive'
  BY <1>3, <1>4 DEF KeptAlive
<1> QED BY <1>2, <1>5 DEF OutliveInv

LEMMA NextOutlives ==
  ASSUME EnoughTime, IInv, IInv', OutliveInv, [Next]_vars
  PROVE  OutliveInv'
<1> USE DEF IInv
<1>1. CASE Main
  BY <1>1, RequestWindowOutlives, DataReadyOutlives, GetMsgOutlives, WriteFileOutlives DEF Main
<1>2. CASE Reader
  BY <1>2, ReaderOutlives
<1>3. CASE Accept \/ SendAnswer \/ SendToNobody \/ ReceiveRequest
  BY <1>3, AcceptOutlives, SendAnswerOutlives, SendToNobodyOutlives, ReceiveRequestOutlives
<1>4. CASE HeartbeatExpires \/ ReadFails
  BY <1>4, GivesUpDoneOnly, ExitLoopOutlives DEF HeartbeatExpires, ReadFails
<1>5. CASE Tick
  BY <1>5, TickOutlives
<1>6. CASE UNCHANGED vars
  BY <1>6 DEF vars, clientVars, readerVars, serverVars, OutliveInv, NobodyLeaves, LossesCounted,
     KeptAlive, Alive, UnderWay, InTime, Tries, Spent, Hungup, received
<1> QED BY <1>1, <1>2, <1>3, <1>4, <1>5, <1>6 DEF Next, Server

(* The server gives up no client that is not done, if a heartbeat is longer *)
(* than the longest delay of an answer and one timeout more than there are *)
(* losses in a row (server.cpp:79-84, 179-182; client.cpp:47-51).          *)
THEOREM ConnectionOutlives ==
  ASSUME EnoughTime
  PROVE  Spec => []ConnectionOutlivesDownload
<1>1. Init => OutliveInv
  BY InitOutlives
<1>2. IInv /\ IInv' /\ OutliveInv /\ [Next]_vars => OutliveInv'
  BY NextOutlives
<1>3. OutliveInv => ConnectionOutlivesDownload
  BY DEF OutliveInv, NobodyLeaves, ConnectionOutlivesDownload
<1> QED BY <1>1, <1>2, <1>3, DownloadInvariant, PTL DEF Spec
=============================================================================
