-------------------------- MODULE ReliableDownload --------------------------
(***************************************************************************)
(* The download of 03-reliable: client.cpp, the Sender with its reader     *)
(* thread (sender.cpp, sender.hpp) and server.cpp, joined by one TCP       *)
(* connection.                                                             *)
(*                                                                         *)
(* Three processes: the client's main thread (pc is its position in the    *)
(* loop of main()), the reader thread, and the server.  The two threads    *)
(* share the buffer `data'; each critical section of data_lock is one      *)
(* action.  A socket direction is a sequence of whole messages: a request  *)
(* is an id, an answer is an id and its chunk.                             *)
(*                                                                         *)
(* Time is counted in ticks.  All deadlines are kept as the ticks left or  *)
(* the ticks passed, and Tick moves them together.  The random draws of    *)
(* the server are nondeterministic choices.                                *)
(***************************************************************************)
EXTENDS Integers, Sequences, FiniteSets

CONSTANTS
  NumMsgs,            \* NUM_MSGS
  WindowSize,         \* WINDOW_SIZE
  NumChunks,          \* NUM_CHUNKS: slots of Sender::data, and requests the server delays at a time
  RetransmitTimeout,  \* RETRANSMIT_TIMEOUT
  Heartbeat,          \* the 5 s after which the server gives a connection up
  Msgs,               \* load_data: the chunks, a sequence; message id i is Msgs[i + 1]
  NoPacketDrops, NoDelay, Chaos,   \* the options of the server
  DelaySamples,       \* samples of max(normal(250, 150), 0)
  SpikeSamples,       \* samples of uniform(600, 1800), drawn in chaos mode
  SocketRoom,         \* messages a socket direction holds before a write blocks
  MaxLost,            \* bound of the model: requests lost in a row
  Urgent              \* whether every thread is faster than a tick

Ids == 0..(NumMsgs - 1)
Chunks == {Msgs[i] : i \in 1..Len(Msgs)}
Msg == [msg_id: Ids, data: Chunks]
NoMsg == [msg_id |-> -1]     \* the reader thread holds no message

(* A request the server delays, or a free place of `delays'. *)
Slots == 1..NumChunks
Free == [msg_id |-> -1]
Delayed == [msg_id: Ids, left: Nat]

ASSUME DownloadAssumption ==
  /\ {NumMsgs, WindowSize, NumChunks, RetransmitTimeout, Heartbeat, SocketRoom} \subseteq Nat \ {0}
  /\ Msgs \in Seq(Chunks)
  /\ DelaySamples \subseteq Nat /\ SpikeSamples \subseteq Nat /\ MaxLost \in Nat
  /\ {NoPacketDrops, NoDelay, Chaos, Urgent} \subseteq BOOLEAN

VARIABLES
  \* main thread of the client; age is now - last_request for the ids still
  \* missing, up to the timeout
  pc, requested, age, chunks, next_expected, file,
  \* Sender: the buffer, and what the reader thread has read and not stored
  data, reader, held,
  \* the connection
  conn, requests, answers,
  \* server; `lost' counts the requests lost since one was accepted
  delays, hb, burst_drop_remaining, lost

clientVars == <<pc, requested, age, chunks, next_expected, file>>
readerVars == <<reader, held>>
serverVars == <<delays, hb, burst_drop_remaining, lost>>
vars == <<clientVars, data, readerVars, conn, requests, answers, serverVars>>

received == DOMAIN chunks

Hungup == conn \in {"closed", "reset"}

-----------------------------------------------------------------------------
(* The main thread of the client *)

\* Mutants: a window without limit, an answer taken for granted.
InWindowOpen == {i \in Ids : next_expected <= i}
DueOnce(i) == i \notin requested

InWindow == {i \in Ids : next_expected <= i /\ i < next_expected + WindowSize}

Due(i) ==
  \/ i \notin requested
  \/ i \notin received /\ age[i] >= RetransmitTimeout

(* The for loop over the window, with `now' read once before it.  The ids  *)
(* go out in ascending order; request_msg ignores the error of a write to  *)
(* a connection the server has given up, and blocks while there is no room. *)
RequestWindow ==
  /\ pc = "request"
  /\ pc' = "drain"
  /\ LET due == {i \in InWindow : Due(i)}
     IN  /\ requested' = requested \union due
         /\ age' = [i \in Ids |-> IF i \in due THEN 0 ELSE age[i]]
         /\ IF Hungup
            THEN UNCHANGED requests
            ELSE \E ids \in [1..Cardinality(due) -> due] :
                   /\ \A j, k \in DOMAIN ids : j < k => ids[j] < ids[k]
                   /\ Len(requests) + Len(ids) <= SocketRoom
                   /\ requests' = requests \o ids
  /\ UNCHANGED <<chunks, next_expected, file, data, readerVars, conn, answers, serverVars>>

\* Mutant: a message counts before it is stored.
HasDataEarly == data # <<>> \/ reader = "store"

HasData == data # <<>>

(* `while (sender.data_ready())' looks at the buffer under the lock ... *)
DataReady ==
  /\ pc = "drain"
  /\ pc' = IF HasData THEN "take" ELSE "write"
  /\ UNCHANGED <<requested, age, chunks, next_expected, file, data, readerVars,
                 conn, requests, answers, serverVars>>

IsWanted(id) == id < NumMsgs /\ id \notin received

(* ... and get_msg takes the lock again: if the buffer were empty now, it  *)
(* would end the program.  A copy of a chunk already there is ignored.     *)
GetMsg ==
  /\ pc = "take"
  /\ IF data = <<>>
     THEN pc' = "aborted" /\ UNCHANGED <<age, chunks, data>>
     ELSE LET msg == Head(data)
          IN  /\ pc' = "drain"
              /\ data' = Tail(data)
              /\ IF IsWanted(msg.msg_id)
                 THEN /\ chunks' = [i \in received \union {msg.msg_id} |->
                                      IF i = msg.msg_id THEN msg.data ELSE chunks[i]]
                      /\ age' = [age EXCEPT ![msg.msg_id] = 0]
                 ELSE UNCHANGED <<age, chunks>>
  /\ UNCHANGED <<requested, next_expected, file, readerVars, conn, requests, answers, serverVars>>

Writable(n) == \A i \in next_expected..(n - 1) : i \in received

(* The loop that writes every chunk up to the first missing one. *)
WriteFile ==
  /\ pc = "write"
  /\ \E n \in next_expected..NumMsgs :
       /\ Writable(n)
       /\ n < NumMsgs => n \notin received
       /\ next_expected' = n
       /\ file' = file \o [k \in 1..(n - next_expected) |-> chunks[next_expected + k - 1]]
       /\ pc' = IF n = NumMsgs THEN "done" ELSE "request"
  /\ UNCHANGED <<requested, age, chunks, data, readerVars, conn, requests, answers, serverVars>>

Main == RequestWindow \/ DataReady \/ GetMsg \/ WriteFile

-----------------------------------------------------------------------------
(* The reader thread.  When main() has returned, ~Sender has set `finished' *)
(* and joins it: pc = "done".                                              *)

ReaderRead ==
  /\ reader = "poll"
  /\ answers # <<>>
  /\ reader' = "store"
  /\ held' = Head(answers)
  /\ answers' = Tail(answers)
  /\ UNCHANGED <<clientVars, data, conn, requests, serverVars>>

\* Mutant: the test of the last slot is off by one.
HasRoomForOneMore == Len(data) <= NumChunks

HasRoom == Len(data) < NumChunks

(* Under the lock: append, or discard when all slots are taken. *)
ReaderStore ==
  /\ reader = "store"
  /\ reader' = "poll"
  /\ held' = NoMsg
  /\ data' = IF HasRoom THEN Append(data, held) ELSE data
  /\ UNCHANGED <<clientVars, conn, requests, answers, serverVars>>

\* Mutant: `finished' is looked at outside the loop that waits.
ReaderExitLate ==
  /\ reader = "poll"
  /\ answers # <<>>
  /\ pc = "done"
  /\ reader' = "gone"
  /\ conn' = IF conn = "open" THEN "left" ELSE conn
  /\ UNCHANGED <<clientVars, data, held, requests, answers, serverVars>>

(* `finished' is looked at only when nothing is available.  The process    *)
(* ends with its last thread and the socket is closed.                     *)
ReaderExit ==
  /\ reader = "poll"
  /\ answers = <<>>
  /\ pc = "done"
  /\ reader' = "gone"
  /\ conn' = IF conn = "open" THEN "left" ELSE conn
  /\ UNCHANGED <<clientVars, data, held, requests, answers, serverVars>>

(* A read that was waiting for the rest of an answer fails when the        *)
(* connection is reset.                                                    *)
ReaderFails ==
  /\ reader = "poll"
  /\ conn = "reset"
  /\ reader' = "gone"
  /\ UNCHANGED <<clientVars, data, held, conn, requests, answers, serverVars>>

Reader == ReaderRead \/ ReaderStore \/ ReaderExit \/ ReaderFails

-----------------------------------------------------------------------------
(* The server.  A client waits ("pending") until the server is done with   *)
(* the one before; its requests queue up in the meantime.                  *)

Serving == conn \in {"open", "left"}

Accept ==
  /\ conn = "pending"
  /\ conn' = "open"
  /\ hb' = Heartbeat
  /\ UNCHANGED <<clientVars, data, readerVars, requests, answers, delays, burst_drop_remaining, lost>>

(* exit_loop: the socket goes out of scope.  Closing it with requests      *)
(* unread resets the connection, which can overtake answers under way.     *)
ExitLoop ==
  /\ conn' = IF conn = "open" /\ requests # <<>> THEN "reset" ELSE "closed"
  /\ IF conn' = "reset"
     THEN \E n \in 0..Len(answers) : answers' = SubSeq(answers, 1, n)
     ELSE UNCHANGED answers
  /\ requests' = <<>>
  /\ delays' = [s \in Slots |-> Free]
  /\ hb' = 0
  /\ burst_drop_remaining' = 0
  /\ lost' = 0

HeartbeatExpires ==
  /\ Serving
  /\ hb = 0
  /\ ExitLoop
  /\ UNCHANGED <<clientVars, data, readerVars>>

\* Mutant: the id goes out with the chunk after it.
AnswerOffByOne(id) == [msg_id |-> id, data |-> Msgs[IF id + 2 > Len(Msgs) THEN 1 ELSE id + 2]]

Answer(id) == [msg_id |-> id, data |-> Msgs[id + 1]]

(* A delayed request whose time has come is answered, in chaos mode        *)
(* perhaps twice.  The order of those that expire in the same tick is not  *)
(* fixed: it depends on when the loop comes round.                         *)
SendAnswer ==
  /\ conn = "open"
  /\ hb > 0
  /\ \E s \in Slots :
       /\ delays[s] # Free
       /\ delays[s].left = 0
       /\ delays' = [delays EXCEPT ![s] = Free]
       /\ \E copies \in {<<Answer(delays[s].msg_id)>>}
                         \union (IF Chaos THEN {<<Answer(delays[s].msg_id), Answer(delays[s].msg_id)>>} ELSE {}) :
            /\ Len(answers) + Len(copies) <= SocketRoom
            /\ answers' = answers \o copies
  /\ UNCHANGED <<clientVars, data, readerVars, conn, requests, hb, burst_drop_remaining, lost>>

(* The client has closed its socket: the answer is lost, or the write      *)
(* reports the error and ends the connection.                              *)
SendToNobody ==
  /\ conn = "left"
  /\ hb > 0
  /\ \E s \in Slots :
       /\ delays[s] # Free
       /\ delays[s].left = 0
       /\ \/ /\ delays' = [delays EXCEPT ![s] = Free]
             /\ UNCHANGED <<conn, requests, answers, hb, burst_drop_remaining, lost>>
          \/ ExitLoop
  /\ UNCHANGED <<clientVars, data, readerVars>>

(* After such an error what the client had asked for cannot be read        *)
(* either.                                                                 *)
ReadFails ==
  /\ conn = "left"
  /\ hb > 0
  /\ requests # <<>>
  /\ ExitLoop
  /\ UNCHANGED <<clientVars, data, readerVars>>

Delays ==
  IF NoDelay THEN {0}
  ELSE DelaySamples \union (IF Chaos THEN {d + s : d \in DelaySamples, s \in SpikeSamples} ELSE {})

FreeSlots == {s \in Slots : delays[s] = Free}

\* Mutant: an accepted request does not put the heartbeat off.
RefreshedOnce(old) == old

Refreshed(old) == Heartbeat

(* One request is read: it is invalid, falls in a burst, starts one, is    *)
(* lost, finds no place, or is accepted and puts the heartbeat off.        *)
ReceiveRequest ==
  /\ Serving
  /\ hb > 0
  /\ requests # <<>>
  /\ requests' = Tail(requests)
  /\ \/ /\ Head(requests) >= Len(Msgs)
        /\ UNCHANGED serverVars
     \/ /\ Head(requests) < Len(Msgs)
        /\ burst_drop_remaining > 0
        /\ burst_drop_remaining' = burst_drop_remaining - 1
        /\ UNCHANGED <<delays, hb, lost>>
     \/ /\ Head(requests) < Len(Msgs)
        /\ burst_drop_remaining = 0
        /\ Chaos
        /\ \E length \in 2..4 :
             /\ lost + length <= MaxLost
             /\ lost' = lost + length
             /\ burst_drop_remaining' = length - 1
        /\ UNCHANGED <<delays, hb>>
     \/ /\ Head(requests) < Len(Msgs)
        /\ burst_drop_remaining = 0
        /\ ~NoPacketDrops
        /\ lost < MaxLost
        /\ lost' = lost + 1
        /\ UNCHANGED <<delays, hb, burst_drop_remaining>>
     \/ /\ Head(requests) < Len(Msgs)
        /\ burst_drop_remaining = 0
        /\ FreeSlots = {}
        /\ UNCHANGED serverVars
     \/ /\ Head(requests) < Len(Msgs)
        /\ burst_drop_remaining = 0
        /\ \E s \in FreeSlots, d \in Delays :
             /\ \A t \in FreeSlots : s <= t
             /\ delays' = [delays EXCEPT ![s] = [msg_id |-> Head(requests), left |-> d]]
        /\ hb' = Refreshed(hb)
        /\ lost' = 0
        /\ UNCHANGED burst_drop_remaining
  /\ UNCHANGED <<clientVars, data, readerVars, conn, answers>>

Server == Accept \/ HeartbeatExpires \/ SendAnswer \/ SendToNobody \/ ReadFails \/ ReceiveRequest

-----------------------------------------------------------------------------
(* Nothing is left to do before the next tick.  The threads poll every     *)
(* millisecond, far more often than any deadline of theirs.                *)
Quiet ==
  /\ reader # "gone" => answers = <<>> /\ reader = "poll" /\ pc # "done"
  /\ pc # "done" => data = <<>> /\ next_expected \notin received /\ {i \in InWindow : Due(i)} = {}
  /\ Serving => requests = <<>> /\ hb > 0 /\ \A s \in Slots : delays[s] # Free => delays[s].left > 0

\* Mutant: the server reads the clock once, before its loop.
CountDownStopped(n) == n

CountDown(n) == IF n > 0 THEN n - 1 ELSE 0

Tick ==
  /\ Urgent => Quiet
  /\ age' = [i \in Ids |-> IF i \in requested \ received /\ age[i] < RetransmitTimeout
                           THEN age[i] + 1 ELSE age[i]]
  /\ delays' = [s \in Slots |-> IF delays[s] = Free THEN Free
                                ELSE [delays[s] EXCEPT !.left = CountDown(@)]]
  /\ hb' = CountDown(hb)
  /\ UNCHANGED <<pc, requested, chunks, next_expected, file, data, readerVars,
                 conn, requests, answers, burst_drop_remaining, lost>>

Init ==
  /\ pc = "request"
  /\ requested = {}
  /\ age = [i \in Ids |-> 0]
  /\ chunks = <<>>
  /\ next_expected = 0
  /\ file = <<>>
  /\ data = <<>>
  /\ reader = "poll"
  /\ held = NoMsg
  /\ conn = "pending"
  /\ requests = <<>>
  /\ answers = <<>>
  /\ delays = [s \in Slots |-> Free]
  /\ hb = 0
  /\ burst_drop_remaining = 0
  /\ lost = 0

Next == Main \/ Reader \/ Server \/ Tick

Spec == Init /\ [][Next]_vars

(* Both threads and the server loop for ever, and time passes. *)
FairSpec ==
  /\ Spec
  /\ WF_vars(Main) /\ WF_vars(ReaderRead \/ ReaderStore \/ ReaderExit) /\ WF_vars(Server) /\ WF_vars(Tick)

-----------------------------------------------------------------------------
(* Properties *)

ClientTypes ==
  /\ pc \in {"request", "drain", "take", "write", "done", "aborted"}
  /\ requested \subseteq Ids
  /\ age \in [Ids -> 0..RetransmitTimeout]
  /\ chunks \in [received -> Chunks] /\ received \subseteq Ids
  /\ next_expected \in 0..NumMsgs
  /\ file \in Seq(Chunks)

SenderTypes ==
  /\ data \in Seq(Msg) /\ Len(data) <= NumChunks
  /\ reader \in {"poll", "store", "gone"}
  /\ held \in Msg \union {NoMsg} /\ (reader = "store" => held \in Msg)

ConnectionTypes ==
  /\ conn \in {"pending", "open", "left", "closed", "reset"}
  /\ requests \in Seq(Ids) /\ answers \in Seq(Msg)

ServerTypes ==
  /\ delays \in [Slots -> Delayed \union {Free}]
  /\ hb \in 0..Heartbeat
  /\ burst_drop_remaining \in 0..3
  /\ lost \in Nat

TypeOK == ClientTypes /\ SenderTypes /\ ConnectionTypes /\ ServerTypes

AnswersOnTheWay ==
  {answers[k] : k \in 1..Len(answers)} \union {data[k] : k \in 1..Len(data)}
    \union (IF reader = "store" THEN {held} ELSE {})

IdsOnTheWay ==
  {m.msg_id : m \in AnswersOnTheWay} \union {requests[k] : k \in 1..Len(requests)}
    \union {delays[s].msg_id : s \in {t \in Slots : delays[t] # Free}}

(* get_msg never ends the program, although the reader thread runs between *)
(* the test of data_ready and the second locking (sender.cpp:52-70).       *)
NeverAborts == pc # "aborted"

(* Flow control: however late or often answers come, the client never asks *)
(* for, is sent or keeps an id that is WindowSize or more past the first   *)
(* missing one (client.cpp:37-52).                                         *)
WindowRespected ==
  /\ received \union IdsOnTheWay \subseteq requested
  /\ \A i \in requested : i < next_expected + WindowSize

(* The download implements the abstract one: the file is written in order, *)
(* without gaps, each chunk once and with its own content, whatever was    *)
(* lost, delayed, duplicated, reordered, discarded or cut off by a reset   *)
(* (client.cpp:54-76).                                                     *)
Download == INSTANCE OrderedDownload WITH Text <- Msgs

ImplementsOrderedDownload == Download!Spec

(* The server does not give a connection up while its client still needs   *)
(* it: the retransmissions keep the heartbeat alive (server.cpp:79-84,     *)
(* 179-182; client.cpp:47-51).                                             *)
ConnectionOutlivesDownload == Hungup => pc = "done"

(* When it does: the client repeats the request for the first missing      *)
(* chunk after every timeout, so what has to fit into a heartbeat is the   *)
(* longest delay of an answer, and one timeout for each request that may   *)
(* be lost in a row and for the first that is not.  Every thread is faster *)
(* than a tick, and the server has the chunks the client wants.            *)
EnoughTime ==
  /\ Urgent /\ NumMsgs <= Len(Msgs)
  /\ \A d \in Delays \union {0} : d + RetransmitTimeout * (MaxLost + 1) < Heartbeat

(* The client gets the whole text (03-reliable/README.md:11).              *)
DownloadCompletes == <>(next_expected = NumMsgs)

(* ~Sender returns: the reader thread ends after main() has returned,      *)
(* although nobody empties the buffer any more (sender.cpp:15-50).         *)
ReaderJoins == pc = "done" ~> reader = "gone"

(* The server always gets back to accept the next client, even when this   *)
(* one goes on asking (server.cpp:79-84, 185-187).                         *)
ServerFreed == <>Hungup
=============================================================================
