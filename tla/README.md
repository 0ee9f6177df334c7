# Verification of the network simulator and its homework programs

TLA+ models of the discrete-event network simulator of this repository
(`main.py`, `simulation.py`, `graph.py`, `router.py`, `sdn_router.py`,
`packet.py`, `stats.py`) and of the three homework programs it grew out of
(`03-reliable`, `05-topology`, `packet-forward`), TLC runs that check them on
small instances, and proofs, checked by TLAPS, for every instance.

## Inventory

### The simulator

| Part | State it keeps | Operations |
| --- | --- | --- |
| Keyboard loop (`main.py`) | none | `handle_keydown`, then draw, then `update(dt)`, for ever |
| Engine (`simulation.py`) | settings (mode, port, SDN, conditions, endpoints); clock, `running`, `completed`; transfer state (`next_sequence_to_send`, `awaiting_ack`, `timeout_token`, `delivered_sequences`); a heap of scheduled callbacks; the list of packets on links; a loss burst; counters | `start_run`, `update`, `reset_run_state`, one setter per key |
| Routers (`router.py`) | a queue, a busy-until time, a forwarding table | `enqueue`, `next_hop`, served by `_dispatch_routers` |
| SDN router (`sdn_router.py`) | one rule: drop data for port 80 | `apply_rules` |
| Topologies and routing (`graph.py`) | the current graph and its declared endpoints | `load_topology`, `cycle_topology`, `get_route`, `build_forwarding_tables` |
| Counters (`stats.py`, `packet.py`) | numbers shown on screen | incremented by the engine |
| Renderer (`renderer.py`) | window, fonts, frame clock | reads the engine, returns the frame time |

Everything runs in one thread.  The engine calls the routers and the graph
directly; the parts that are far apart in time talk through three data
structures: the callback heap (next send, retransmission timer), the router
queues and the list of flights.  The hard behaviour is there: a packet, its
link duplicates, its retransmissions and the acknowledgements of each are under
way together, in any order, while timers run and the user may press a key
between any two frames.

What makes each part correct:

- engine, TCP mode: stop-and-wait order, at most one pending obligation (send
  or live timer), completion only when all is delivered, no data afterwards,
  retransmissions at least a timeout apart, progress when nothing is lost;
- engine, UDP mode: each packet once; a run over only when the network is empty;
- engine, any mode: packets conserved by the counters, every run ends;
- settings: a key in the middle of a run leaves nothing of the old run behind,
  and the routers always match the topology and SDN setting shown;
- routing: shortest routes, no loops, and a next hop wherever a packet can be;
- firewall: blocked data is not delivered; endpoints are those of the topology.

### The homework programs

| Part | State it keeps | Operations |
| --- | --- | --- |
| Download client (`03-reliable/src/client.cpp`) | per chunk: requested, received, content, time of the last request; the next chunk to write; the file | one loop: request what is due in a window of 10, drain the buffer, write what is in order |
| `Sender` (`src/sender.cpp`, `include/sender.hpp`) | a buffer of 10 answers under a mutex, the socket, `finished` | `request_msg`, `data_ready`, `get_msg`, a reader thread that discards what does not fit, a destructor that joins it |
| Download server (`src/server.cpp`) | up to 10 delayed answers, the rest of a loss burst, a 5 s heartbeat | per client one loop: heartbeat, send what is due, read one request and lose, refuse or delay it |
| Tick network (`05-topology/src`) | per router: queue, one prepared message, the time it may leave | `add_message`, `finished`, `Manager::tick`, `Router::tick` |
| Packet forwarding (`packet-forward/*.py`) | tables or rules, the route so far | `get_packet_route`, `Router.forward`, `SDNRouter.forward` |

The client, its reader thread and the server run concurrently: two threads
share a buffer, two processes share a connection, requests are lost at four
places (a burst, a draw, the limit of 10, the end of the connection) and
answers at two (the full buffer, a reset), answers come late, twice and out of
order, and each side has a timer the other does not know.  The routers of the
tick network run in one thread, but their links take different times, so the
order of events is not that of the polls.  What makes the programs correct:

- download: the file is written in order, each chunk once and with its own
  content; no id outside the window is under way; `get_msg` never finds the
  buffer empty; the connection lives as long as the client needs it, the
  download completes, its reader thread ends, the server gets free again;
- tick network: no message lost or doubled on its way, none early, none
  overtaken by another of its kind, and `main()` ends when all are received;
- packet forwarding: a packet arrives exactly if the tables lead there, the
  limit of hops stops loops only, the first matching rule decides.

`03-reliable/third_party` (asio) and `03-reliable/build` are vendored and
generated.

## Modules

| Module | Models |
| --- | --- |
| `SimulationEngine` | the whole engine, its routers, firewall and keyboard |
| `ReliableTransfer` | abstract: packets received in order and once, each acknowledged before the next is received |
| `Routing` | `SimpleGraph`, Dijkstra's search as `get_route` does it, `build_forwarding_tables` |
| `HopByHop` | one packet forwarded by separately built tables, over every small graph |
| `TopologyPresets` | `TOPOLOGY_PRESETS` with the firewall node of each |
| `SimulationEngineProofs` | theorems about `SimulationEngine`: types, routes, the transfer |
| `RunProofs` | about its callbacks and runs: one obligation, spaced retransmissions, settings, UDP, completion, the refinement of `ReliableTransfer` |
| `NetworkProofs` | about its network: packets conserved, the firewall, UDP runs that finish in time |
| `RoutingProofs` | theorems about `Routing` and `HopByHop`: Dijkstra's search, routes, tables, hop-by-hop forwarding |
| `OrderedDownload` | abstract: a file that grows and is always a beginning of the text |
| `ReliableDownload` | the download: client, reader thread, server and the connection |
| `ReliableDownloadProofs` | theorems about `ReliableDownload`, among them that it implements `OrderedDownload` |
| `TickNetwork` | manager and routers of `05-topology` |
| `TickNetworkProofs` | theorems about `TickNetwork` |
| `PacketForward` | `get_packet_route` over tables and over rules |
| `PacketForwardProofs` | theorems about `PacketForward` |
| `InductionFacts` | induction over finite sets and numbers, recursions unrolled, and what sums over sets are, for the proofs |
| `MCSimulationEngine`, `MCPresets` | small instances, and the instance of the program itself |
| `MCReliableDownload`, `MCTickNetwork`, `MCPacketForward` | small instances; the last holds the network of `sdn.py` |

### How `SimulationEngine` corresponds to the code

A key handler is one action (`StartRun`, `ToggleMode`, `CycleTopology`, ...),
enabled when no frame is in progress (`phase = "idle"`); each includes the
`reset_run_state` its handler ends with.  `update(dt)` is a fixed sequence of
loops.  The variable `phase` is the position in it and an action is one
iteration of one loop: `BeginFrame`, then `RunSend`/`RunTimeout` per due
callback in heap order, `EventsDone`, `Dispatch(r)` per ready router in id
order, `DispatchDone` (which moves every flight by `dt`), then `LoseFlight`,
`ArriveAtRouter`, `ArriveData`, `ArriveAck` per landed flight in list order,
and `EndFrame`.  No key is enabled in between, as in the program.

- The callback heap is a set of `[kind, due, id, seq, token]` records: the two
  lambdas the code schedules are `_send_data(seq)` and `_on_timeout(seq, token)`.
- Time is an integer number of ticks.  The pseudo-random draws are
  nondeterministic: link loss, loss bursts in chaos mode, duplication, jitter
  and delay spikes each range over the values the draw can have under the
  current conditions.
- Loss is counted in steps of 2 %, duplication in 1 %, the delay multiplier in
  tenths, the steps the keys move them by.  (The code adds floats, so a loss
  lowered to zero may be left at about 1e-17; that is zero here.)
- `_send_data` returns early for a sequence number at or past the goal.  No
  callback carries one: that is part of `TypeOK`, and proved.
- A router is busy for `ProcessingDelay > 0` after a packet, so serving the
  lowest ready router until none is ready is one pass over `sorted(routers)`.
- `table` and `firewall` are what `_rebuild_routers` installs; `Presets` carries
  for each topology its declared endpoints, link delays, tables and firewall.
- `arrived` is a history variable (the number of `_record_delivery` calls), used
  by `PacketsConserved` only.
- Not modelled, because nothing but the drawing reads it: `packet_events` and
  its time to live, packet ids in packets, `session_id`, `route_history`,
  `delayed`, the start and end times of `RunStats`.

`Routing` writes the loops of `get_route` as recursive functions over the
iteration number.  The heap is a set of pairs: pairs pushed for one node have
strictly decreasing distances.  A missing route is the empty sequence where the
code raises `KeyError`.

### How `ReliableDownload` corresponds to the code

Three processes and a clock.

- The main thread of the client: `pc` is its position in the loop of `main()`.
  `RequestWindow` is the `for` loop over the window, with `now` read once
  before it; `DataReady` and `GetMsg` are one turn of the drain loop each, two
  actions because `data_ready` and `get_msg` lock separately; `WriteFile` is
  the write loop.  `age` is `now - last_request`, kept up to the timeout.
- The reader thread: `ReaderRead` takes an answer from the socket,
  `ReaderStore` is the critical section that stores or discards it,
  `ReaderExit` is the test of `finished`, made when nothing is available.
- The server: `Accept`, `HeartbeatExpires`, `SendAnswer`, `ReceiveRequest` with
  one disjunct for each way a request can go, and `exit_loop` as `ExitLoop`.
  Draws are nondeterministic; `delays` has one slot per request it may hold.
- The connection is external: a sequence of requests and one of answers.
  `conn` says who has closed it.  Closing a socket with requests unread resets
  the connection, and what was under way to the client may be lost; a write to
  it fails, which the client ignores (`request_msg`), and the server does not.
- `Tick` moves all times by one.  `lost` counts the requests lost in a row, for
  the bound `MaxLost`.

### How `TickNetwork` and `PacketForward` correspond to the code

A poll of one router is one action, in the manager's order (`turn`):
`PollWaiting` returns early, and `SendLast`, `Receive` and `Prepare` send the
held message and then find none, one for the router itself, or one to prepare.
A missing entry of a table reads as 0, as `operator[]` makes it; the message
then goes to no router.  `Tick` may fall between any two polls.  Messages carry
a number and their source for the properties.  `idle` counts the ticks at which
no router was ready, and `age` the ticks a message has been under way.

`PacketForward` has one action per branch of the loop of `get_packet_route`,
`i` and `hops` being those of the code.  The two versions of the function
differ in the routers only, so a network map may hold either kind.

## Runs

| Run | Instance | Shows |
| --- | --- | --- |
| `engine_tcp` | one link of 2 ticks, jitter 0 or 1, timeout 4 (round trips take 3 to 5 ticks or longer), 3 packets, with and without loss, one link duplicate, 18 ticks, `FairSpec` | `TypeOK`, `StopAndWait`, `CompletionMeansDelivered`, `OneObligation`, `RetransmissionsSpaced`, `EarlyFinishIsClean`, `NoDataAfterCompletion`, `ImplementsReliableTransfer`, `EveryRunEnds`, `TransferCompletes` |
| `engine_keys` | a chain with the firewall in the middle and a triangle with reversed endpoints, chaos with spikes, lossy UDP with one duplicate, frames of 1 tick and in UDP mode of 1 or 2, every key at any time | `RunMatchesSettings`, `RouteExists`, `FirewallBlocks`, `UdpSendsOnce`, `EarlyFinishIsClean`, `PacketsConserved`; `TypeOK`: all 4,092 combinations of conditions are within the limits |
| `presets_lossless` | the program's own topologies and times in ticks of 5 ms, 6 packets, a jitter of 80 ms on every link, every delay multiplier, up to two duplicates at multiplier 1.0, keys SPACE, M, T, D, `=`, `-` | `LosslessFinishesInTime` |
| `hopbyhop` | every connected graph on 4 nodes with delays 1 and 2, every pair | `OnShortestRoute`, `NoRoutingLoop` |
| `download_safe` | window 2, buffer 1, 3 ids but a text of 2 chunks, chaos, up to 2 losses in a row, time passing between any two steps, `FairSpec` | `TypeOK`, `NeverAborts`, `WindowRespected`, `ImplementsOrderedDownload`, `ServerFreed` |
| `download_live` | 2 chunks, buffer 3, ticks of 100 ms (timeout 7, heartbeat 50, answers at once or after 7), up to 5 losses in a row, `FairSpec` | `ConnectionOutlivesDownload`, `DownloadCompletes`, `ReaderJoins` |
| `ticks` | a ring of 3 routers with delays 1, 0 and 2 and a missing entry; any two messages, three that share links; `FairSpec` | `TypeOK`, `EachAtOnePlace`, `OverMeansReceived`, `NeverTooFast`, `OrderKept`, `NeverIdle`, `LoopEnds` |
| `forward` | every network of up to 3 table routers with or without a default, an entry, the router itself; every network of 4 routers with a default only; the network of `sdn.py` with all addresses and ports; 4 hops | `TypeOK`, `ArrivesIffReachable`, `LimitMeansLoop`, `PortRulesGoFirst`, `FateDecided` |
| `presets_firewall` | Campus Backbone, SDN on, port 80 | violates `FirewallBlocks` (finding 1) |
| `presets_endpoints` | key T | violates `EndpointsOfTopology` (finding 2) |
| `forward_row` | a row of eight routers, 8 hops | violates `TooManyHopsMeanLoop` (finding 4) |
| `download_cut` | as `download_live`, 7 losses in a row | violates `DownloadCompletes` (finding 3) |

Bounds of the simulator.  `MaxRuntime` is a constant of the code and ends every
run, so the state space is finite without a bound on the clock; the values are
chosen so that a transfer can complete after a loss, and also be cut off.  Two
packets already have "the next one" and "the last one"; `engine_tcp` uses three
so that copies of one packet can meet the transfer of the next and of the one
after.  `MaxDuplicates` is the one bound the code does not have: the
duplications of a run; retransmissions provide further copies.  Delays of 2
ticks and jitter of 1 are enough for a later copy to overtake an earlier one.
One link is enough for the transfer, because its two ends see only arrivals;
queueing, forwarding and the firewall are exercised with two hops.  In
`engine_keys` the constraint `AdjustedBeforeRuns` explores the steps of loss,
delay and duplication before the first run only, changes of chaos at any
time, and lossy, duplicating runs in UDP mode with the first settings: the
handlers of all of these keys reset the run alike.  `hopbyhop` needs
ties to be interesting, hence only two delays; four nodes are the fewest with
two disjoint two-hop routes between a pair.

Bounds of the homework programs.  `MaxLost` bounds the requests lost in a row;
the code loses each with a probability, so any number is possible, and the two
runs on either side of it show what the number decides.  `SocketRoom` bounds
the messages a socket holds; a write then blocks, as it does in the program,
only earlier.  A window of 2, less than the 3 ids, and a buffer of 1 make the
window slide and the buffer overflow.  The safety run makes every deadline a
tick or two and lets it pass at any moment, so no order of events depends on
how long things take; it has a text too short for the client, which can
therefore not finish and goes on asking.  `download_live` keeps the true
proportion of timeout, delay and heartbeat, and has 3 slots: with 2, the
retransmissions that answers of 800 ms cause can fill all slots, which costs
one loss more.  `Horizon` in `ticks` is larger than the longest ways of the
messages together, so that both `NeverTooFast` and `NeverIdle` can see the
difference.  In `forward` the limit is 4: the networks of three routers have just
room for all of them (`RoomForAll` would fail for one router more), and a limit
one lower breaks both properties.  In networks of four routers a way may be too
long; `RoomForAll` excuses it, and `TypeOK` and `FateDecided` hold of them too.

Bounds of the program's own instance.  `presets_lossless` has one frame time and
one jitter, the longest, so that every multiplier and topology can be followed
for 25 s; with jitter 0 in its place the run passes as well.  Both jitters mixed
in one run, and other frame times, are not checked (for UDP the
theorem below covers them).  `DuplicatesAtFirstDelay` keeps duplicates to one
multiplier.

Fairness.  In the simulator `FairSpec` adds `WF_vars(Update)`: `main()` calls
`update` on every turn of its loop, so a running simulation always takes its
next step.  Keys are not fair.  The two liveness properties therefore excuse a
user who presses keys for ever, and nothing else.  In the download both threads
and the server loop for ever, and time passes: weak fairness of `Main`, of the
reader, of `Server` and of `Tick`.  Nothing is assumed of the losses but
`MaxLost`.  With `Urgent` a tick waits until every thread has done what it can:
the threads poll every millisecond, and a tick of `download_live` is 100.
Liveness needs this; the safety run does without.  In the tick network the loop
of `main()` runs and time passes.  `CHECK_DEADLOCK` is off in `ticks` and
`forward`, whose programs return; it is on everywhere else.

Each property is paired in `PROJECT.json` with a mutation of the model that
breaks it: an acknowledgement taken for the awaited one without comparing, the
staleness test of a timer reduced to its token, an absolute due time, routers
rebuilt without their firewall, a message that counts before it is stored, a
heartbeat that is not refreshed, a limit tested one pass later, a reader thread
that looks at `finished` in the wrong loop, and so on.

## Findings

1. `README.md:39` calls port 80 the "blocked port" and `README.md:48` says SDN
   mode adds a rule that drops its data "at one router".  On the default
   topology that router is 3 (`simulation.py:37`), and the route from 0 to 5 is
   0-2-4-5: with SDN on, all port 80 data is delivered.  Where the router is on
   the only route the rule works (`engine_keys`, and proved for every such
   network); of the three topologies that is Bottleneck Path alone.
2. `graph.py:131-132` declares source 5 and destination 2 for Redundant Ring.
   `setup_topology` copies the declared endpoints (`simulation.py:68-69`);
   `cycle_topology` (`simulation.py:131-134`), which the T key calls, does not.
   From the keyboard the ring always runs from 0 to 5, over a single link.
3. `03-reliable/README.md:11` asks for the correct output without the debugging
   flags.  The server drops a connection 5 s after the last request it accepted
   (`server.cpp:82`), and the client, whose one missing chunk is requested
   every 700 ms, ignores the error of its writes (`sender.cpp:76`) and never
   connects again.  After seven losses in a row (each of probability 0.1) it
   waits for ever; up to five do no harm (`download_live`).
4. `forward.py:19` says that too many hops mean a loop.  The limit of 8 is tested
   before the destination and on the eighth pass, so in a row of eight routers a
   packet from one end to the other, seven links without a loop, is dropped on
   its arrival.  Where the limit has room for all routers (`RoomForAll`) the
   comment is right: `LimitMeansLoop`, checked by `forward` and proved.

Observed on reading, without a run of its own:

- The time limit of 25 s does not grow with the delay multiplier, which the `=`
  key raises to 2.5 (`simulation.py:157-161`), so a TCP run that loses nothing
  may be cut.  On Bottleneck Path at 2.5, six round trips of 5,000 ms and five
  gaps of 150 ms already take 30,750 ms.  Without jitter the run is cut from
  multiplier 2.2 on with 5 of 6 packets delivered, and from 1.8 on with all of them
  delivered but copies or acknowledgements still under way; with a jitter of 80 ms
  (scaled like the delays) from 1.7 with 4 or 5 delivered and from 1.4 with all,
  and on Campus Backbone from 2.2 with all.  That is why
  `LosslessFinishesInTime` asks for `FitsTheLimit`, which with the longest jitter
  is true up to multiplier 1.0 on Bottleneck Path, 1.7 on Campus Backbone, and for
  every multiplier on Redundant Ring and in UDP mode.
- `sdn.py:120` calls `p3` and `p4` packets that "should be dropped by 0011
  router".  `p3` matches no rule of its own router 0000 and is dropped there;
  `p4` has port 80 as its source port, which no rule looks at, and is delivered.
  The answer `p6` to the SSH packet `p5` matches no rule of 0010 and is dropped.
- The 950 ms timeout of the simulator is shorter than the round trip on Campus Backbone
  (1,200 ms) and Bottleneck Path (2,000 ms), so there every packet is sent again
  even when nothing is lost.  `engine_tcp` and `presets_lossless` show that the
  transfer still completes, in time where `FitsTheLimit`.
- Given `OneObligation` the token test in `_on_timeout` never decides: a
  sequence number has one live timer at a time.

## Proofs

Every safety property of a passing run is a theorem for every instance, but for
the TCP half of one, named at the end of this section.  Some of the theorems
have a condition on the network or its times, which is named and explained.  Each theorem is
`Spec => []P` or a refinement, and rests on an inductive invariant: that it
holds at first, that every action keeps it, that it implies `P`.

### The engine

`SimulationEngineProofs` proves, from the three assumptions on the constants
(`PresetsAssumption`, `TimingAssumption`, `SettingsAssumption`) and for any
number of packets, nodes, topologies and any timing:

- `TypeCorrectness`: `Spec => []TypeOK`;
- `RoutesExist`: `Spec => []RouteExists` - no `KeyError` in `next_hop` or
  `edge_data`, whatever keys are pressed;
- `StopAndWaitHolds`: `Spec => []StopAndWait`;
- `CompletionHolds`: `Spec => []CompletionMeansDelivered`.

`PresetsAssumption` asks of the tables only that each router has, for every
other node, a next hop it has a link to; TLC checks it for the tables `Routing`
computes for the presets of each run.

The types alone are not inductive: `Dispatch` indexes the delays with what it
reads from a table.  `TypeInv` adds that the installed table is that of the
current topology (`TableInstalled`) and that no packet waits at its own
destination (`AwayFromDestination`).  `StopAndWait` is not inductive either:
when an acknowledgement schedules the next send, no other send may be
scheduled.  `TransferInv` is `TypeInv`, `StopAndWait`,
`CompletionMeansDelivered`, and that in TCP mode at most one send is scheduled.
The proof of a step has one case per action.  The lemmas before it say which
packets the network holds after the step (nothing new, the data packet sent, or
the acknowledgement made), and `TransferUntouched` covers every action that
does nothing else.  The last acknowledgement needs all of it: it is for the
packet being transferred, which is delivered, as is everything below it, so the
delivered set is complete when `completed` is set.

`RunProofs` adds the callbacks to the invariant: `TimerInv` is
`TransferInv` and `CallbackInv`.

- `OneObligationHolds`: `Spec => []OneObligation`;
- `RetransmissionsAreSpaced`: `Spec => []RetransmissionsSpaced`.

`OneObligation` counts sends and live timers; a step can break it by making two
timers live or by leaving none.  So `CallbackInv` says that every timer has a
token of its own, none later than the last given out (`TokensFresh`), that an
incomplete TCP transfer has a callback that goes on (`KeepsGoing`) and a complete
one none (`RestsWhenComplete`).  That there are never two follows from the
tokens and from `StopAndWait`.  For the spacing, the timer with the last token
is due at least a timeout after what the retransmissions so far account for
(`TimersFar`).

`RunProofs` also adds what a whole run keeps, in `RunInv`:

- `RunsMatchSettings`: `Spec => []RunMatchesSettings`; a key clears the run
  whatever it finds, a frame leaves the settings alone;
- `UdpSendsEachOnce`: `Spec => []UdpSendsOnce`, from `UdpLedger`: the data sent
  and the callbacks left add up to the goal;
- `EarlyFinishesAreClean`: `Spec => []EarlyFinishIsClean`;
- `CompletionEndsData`: `Spec => NoDataAfterCompletion`, an action property;
- `TcpIsReliableTransfer`: `Spec => ImplementsReliableTransfer`.

The refinement maps each step of a frame to a step of `ReliableTransfer` or to
none.  Data that arrives is the next packet only if it is not one sent ahead of
its turn; `NothingSentAhead` says that while the next packet is only scheduled,
no copy of it is on its way.

`NetworkProofs` proves

- `PacketsAreConserved`: `Spec => []PacketsConserved`, for any graph: the sum of
  the queue lengths changes by one where an action says so.  `SumFunction` of
  the community modules is a recursion over a set; see `InductionFacts` below;
- `FirewallStopsWhatPassesIt`: `Spec => [](FirewallOnEveryWay => FirewallBlocks)`.

`FirewallBlocks` alone is false (finding 1), so the theorem says where it is
true: `FirewallOnEveryWay` holds if some set of routers has the source and the
firewall router in it and not the destination, and the tables lead data out of
it only through that router.  `FirewallInv` says that data for the blocked port
never leaves such a set.  The hypothesis holds in every state of `engine_keys`
with SDN on (`FirewallIsOnEveryWay`, an assumption TLC evaluates), and of the
program's three topologies in Bottleneck Path only (`FirewallOfBottleneckOnly`);
- `DuplicatesAreFew`: `Spec => []FewDuplicates`, the counter of duplicates is
  within the bound `MaxDuplicates` of the model;
- `UdpRunsFinishInTime`:
  `Spec => [](mode = "UDP" /\ Timetable(longest, travel, step) => current_time < MaxRuntime)`;
- `UdpLosslessFinishesInTime`: the same of `LosslessFinishesInTime`, which asks it
  only of runs without losses that fit the limit.

Whether a run finishes in time depends on the delays and timers of the program,
so the theorem has a hypothesis. `Timetable` says that `longest` bounds what can be drawn for each
link under the current settings, that `travel[r][d]` is at least a wait in the
queue of `r`, the next link, a frame and the travel from there, and that the
last packet's travel, two frames and a wait fit into the time limit. A wait is a
turn (processing and a frame) for every packet that can be in a queue and
one processing delay. A queue never holds more than `PacketGoal + MaxDuplicates`
packets: that is `PacketsConserved` with `UdpSendsOnce` and `DuplicatesAreFew`.

The inductive invariant is `ScheduleInv`: the packet at place k of a queue,
after k turns of the router, still has its travel time before the deadline of
the run; a flight lands at most a frame late and then has the rest of its
travel; no callback waits longer than a frame; and a run that is not over has
something left to do. The last conjunct is what bounds the clock, since a frame
without callbacks, queues and flights is the last one. The queues and the links
are a frame behind the clock in the middle of a frame (`FrameStart`).

TLC evaluates `UdpTimetables`: on the program's three topologies there is a
timetable even for the longest delays the program can draw, with a jitter of
80 ms, the multiplier 2.5 and a chaos spike of 850 ms, where the runs
of `MCPresets` draw no spike. The configurations have up to 2 duplicates; every
duplicate adds a turn to each wait, and with 6 packets there is a timetable
for 46 of them, but not for 50. Nothing in the proof needs the
links to be lossless.

### Routes

`RoutingProofs` proves, from `HopAssumption` (at least two nodes; delays are
positive numbers, finitely many), for every connected graph:

- `NoWayIsShorter`: no way over links takes less than `ShortestDelays` says;
- `RoutesAreShortest`: `get_route` gives a route over links from its source to
  its destination, no node twice, that takes exactly that;
- `ForwardingTablesLead`: `build_forwarding_tables` has an entry for every pair,
  a neighbour that is nearer by the delay of the link to it (so the tables have
  what `PresetsAssumption` asks of them);
- `HopInvariant`: `Spec => []HopInv`;
- `NoPacketLoops`: `Spec => []NoRoutingLoop`;
- `PacketsTakeShortestRoutes`: `Spec => []OnShortestRoute`.

The loops are recursive functions over the number of turns.  That such a function
exists and obeys its equation is proved once (`StagesExist` in `InductionFacts`);
that a property holds after every turn follows from a smallest turn after which
it would not.

1. `ShortestDelays` admits one more intermediate node at a time.
   `AdmittedBefore` says what its stages keep, and `AllAdmitted` and
   `DelaysAreDistances` that the last is a distance: zero from a node to itself,
   no link a shortcut, and every other node reached over a link from one that is
   nearer by its delay.
2. `SearchInv` is the invariant of the search.  A recorded distance is never
   below the true one; a recorded node has its pair on the heap or is settled,
   that is, its distance is final and has been passed on over each of its links;
   and every node but the source has a predecessor it was reached over.  From it
   `HeapReachesOut`: while a node is not settled the heap has a pair no farther
   than it; and `TopIsFinal`: the pair popped belongs to a node whose distance is
   final.  This is where the delays must be positive and the heap in order.
3. No pair is popped twice, and there are at most as many pairs as links times
   nodes and one more (`PoppedSoFar`, `SearchStepCounts`), so `Search` has turns
   enough (`TurnsSuffice`), and it has found the destination when it ends
   (`SearchFinds`).
4. The predecessors are read back from the destination; each is nearer to the
   source by the delay of its link, so the reading ends at the source within as
   many turns as there are nodes (`RouteFits`, `RouteIsShortest`).
5. The tables of different routers come from different searches.  `HopInv` says
   what they agree on: each hop was over a link and brought the packet nearer by
   the delay of that link (`HopsShorten`), so a later router is nearer than an
   earlier one (`EverNearer`).  Neither `OnShortestRoute` nor `NoRoutingLoop` is
   inductive without it.

### The download

`ReliableDownloadProofs` proves, from `DownloadAssumption` and for any number of
ids, window, buffer, text, times and options of the server, and any losses:

- `DownloadTypes`: `Spec => []TypeOK`, the buffer never passing its array;
- `NeverAbortsHolds`: `Spec => []NeverAborts`;
- `WindowRespectedHolds`: `Spec => []WindowRespected`;
- `DownloadIsOrdered`: `Spec => ImplementsOrderedDownload`, the refinement.

They rest on one inductive invariant, `IInv`, checked with TLC before the proof:
`TypeOK`; `AnswersTrue`, every answer on the way, in the buffer or held by the
reader thread has the chunk of its id; `RequestsAsked`, every id on the way or
received was requested; `InWindowRequested`, every requested id lies below the
end of the window; `ChunksTrue` and `FileTrue`, the client keeps the right
chunks, and the file is the text up to `next_expected`, all of which it has
received; and `BufferSeen`, between `data_ready` and `get_msg` the buffer is not
empty, since the reader thread only adds to it.  None but the types says
anything alone: a chunk is right because its answer was, the answer because the
server made it, and a step of the abstract file is one of `WriteFile` because
the chunks are right and without gaps.  The proof has one step per action, and a
reset, which cuts off answers, is a prefix of a true sequence.

- `ConnectionOutlives`: given `EnoughTime`, `Spec => []ConnectionOutlivesDownload`.

`EnoughTime` is an inequality: the longest delay of an answer and `MaxLost + 1`
timeouts are less than a heartbeat (and every thread is faster than a tick, and
the server has all chunks asked for).  It is false of finding 3, and TLC
evaluates that of `download_live` and `download_cut` it holds in the first only
(`TimeForFiveLosses`).  `OutliveInv`, checked with TLC first, keeps an account
of the ticks since the server last accepted a request (`InTime`): what exceeds
`Patience`, the longest a delayed answer may take, is paid for by the requests
lost since or still unread, a timeout each, and by the age of the request for
the first missing chunk.  While an answer is on its way or a slot is taken
nothing exceeds it, so a request that finds no slot, which is neither lost nor
accepted, costs nothing.  A tick happens only when every request is read, so
the account never reaches a heartbeat.

### The homework networks

`TickNetworkProofs` proves, from `NetworkAssumption` (the ids of the routers are
distinct numbers, none 0; tables and delays are any) and for any number of
routers and any list of messages:

- `TickTypes`: `Spec => []TypeOK`;
- `MessagesKeepOnePlace`: `Spec => []EachAtOnePlace`;
- `OverHoldsNothingBack`: `Spec => []OverMeansReceived`;
- `OrderIsKept`: `Spec => []OrderKept`;
- `NothingIsTooFast`: `Spec => [](HorizonIsFar => NeverTooFast)`;
- `RoutersAreBusy`: `Spec => [](NoLoops => NeverIdle)`.

`PlaceInv` says that a number given out is at exactly one place and any other at
none, so that a send or a receipt moves a place and makes none.  `WayInv` says
that a message is only where the tables lead it from its source; that a way
which has not ended after `N` links never ends is the pigeonhole principle, on
the routers of the way.  `OrderInv` orders the messages of one source and
destination: the one added first is further along the way, or before the other
in the same queue.  It needs that the way of such messages visits no router
twice, or that they are never received.

`TimeInv` counts what a message has waited for: where it is, its age is at least
the delays of the links behind it, less what the router that holds it still
waits.  `HorizonIsFar` says that ages are counted far enough to tell
(`Horizon` is a bound of the model, not of the code).  `IdleInv` keeps an account
for each message, out of which the ticks at which no router is ready are paid:
such a tick goes to a message on a link, and no account exceeds the delays of
the links behind its message.  `NoLoops`, that the tables lead no message so far
round a loop, is needed: a message in a loop uses links again and again.  Both
hypotheses hold in every state of `ticks`.

`PacketForwardProofs` proves, from `PacketForwardAssumption`, for every network,
every packet and every limit:

- `ForwardTypes`: `Spec => []TypeOK`, which says that while no fate is decided the
  counter has not run out;
- `ArrivalsAreReachable`: `Spec => []ArrivesIffReachable`;
- `LimitsAreLoops`: `Spec => []LimitMeansLoop`;
- `PortRulesDecide`: `Spec => [](network_map = SdnNetwork => PortRulesGoFirst)`.

`RouteInv` says that the route so far is the walk the tables and rules lead on,
one hop per turn.  `RoomForAll` is the condition both properties have, under which
the limit is right: the routers other than the destination are fewer than
`MaxHops - 1`.  Without it both are false (finding 4).  Under it a packet the
limit takes was at two places of its walk at the same router, by the pigeonhole
principle, and a walk that comes back to a router never gets further than the
routers it has seen.  For the rules, each hop but the mark of a drop was named by
the router before it (`EachHopLed`), by the first rule that matches
(`FirstMatchDecides`).

`InductionFacts` replaces induction over data, whose library theorems take an
operator as a parameter, by facts about sets: a family of subsets of a finite
set has a minimal member, a set of natural numbers a least one.  What a fold over
a set computes is then the number of cells below the graph of the function it
adds up, since a smallest set for which it is not would not be smallest.

### Only model-checked

- The TCP half of `LosslessFinishesInTime`, for all three topologies. There the
  deadline of a packet depends on the acknowledgement before it, and on two of
  the topologies the retransmission timeout (950 ms) is shorter than the round
  trip, so the queues hold retransmitted copies. A bound on the waits has to count
  them, and one that holds for any instance exceeds the time limit on the program's
  own. For UDP the property is proved (above).
- The liveness properties `EveryRunEnds`, `TransferCompletes`, `ServerFreed`,
  `DownloadCompletes`, `ReaderJoins`, `LoopEnds` and `FateDecided`, which the
  prover cannot reach.

## Not modelled

- The renderer (`renderer.py`): it draws with pygame, changes nothing of the
  engine, and gives back the time a frame took, which is `FrameTimes`.
- `create_graph` and `_circle_layout` of `graph.py`: the program never calls
  the first, the second makes coordinates.  Rules of `SDNRouter` other than the
  one of `build_demo_sdn_routers`: nobody makes one.
- Opening of files, options and logs of the homework programs; the time
  `add_message` sleeps, which `Tick` contains.
- Probabilities: what is drawn is any value that can be drawn.
- asio, its documentation, the build tree and the data are vendored, generated
  or text; the socket is modelled as `03-reliable` uses it.

## Plan

1. Done: the engine, its routing, its runs, and the invariants of types, routes
   and the transfer proved.
2. Done: the three homework programs; the download proved in order.
3. Done: the safety properties of the engine, of the tick network and of packet
   forwarding proved, some under a condition on the network, and the
   refinement of `ReliableTransfer`.
4. Done: Dijkstra's search, the routes and tables made of it, and forwarding by
   them proved for every connected graph.
5. Done: `ConnectionOutlivesDownload` under an inequality between timeout, losses
   and heartbeat, and the rules of `sdn.py`.
6. Done: a timetable for `LosslessFinishesInTime` in UDP mode.
7. Left: the same in TCP mode.
