# TLA+ development of NetworkGym

NetworkGym trains network-control algorithms against simulated networks. An
*algorithm client* asks a *server* for an environment, the server dedicates an
*environment worker* to it, the worker launches an ns-3 simulator, and client
and simulator then run in lock step: a measurement, an action, a measurement.
Inside the simulator every user has a GMA (Generic Multi-Access) interface that
splits or steers traffic over Wi-Fi, LTE and NR links; what it carries is TCP
with BBR.

This directory models that program in TLA+: the session protocol of clients,
server and workers, the GMA control and data path of one user, its roaming
between access points, and the TCP socket and BBR with the repository's changes.
TLC checks the models on small instances; TLAPS proves the main safety
properties of the session protocol, the control messages, transmitter and
receiver, roaming and the TCP connection for all values of the constants.

## 1. Inventory

| part | source | state | operations | talks to |
|---|---|---|---|---|
| Server | `network_gym_server/network_gym_server.py` | list of idle workers, what they offer, time of their last hello, client -> worker routes, client -> environment | one poll-loop iteration: expiry of silent workers, then one message (`env-hello`, `env-error`, `env-end`, `env-measurement`, `env-start`, `env-action`, unknown) | clients (frontend ROUTER), workers (backend ROUTER) |
| Status table | same file, `generate_table` | none; reads the server's dictionaries every 0.4 s from another thread | print | shares the dictionaries |
| Algorithm client | `network_gym_client/env.py`, `northbound_interface.py`, `envs/*/adapter.py` | episode, step, timestamp of the last measurement | `reset`, `step`, connect/send/recv with a 60 s timeout and one retry | server |
| Environment worker | `network_gym_env/configure.py`, `southbound_interface.py` | socket, simulator result | hello every 5 s, start a simulator, report its outcome | server, simulator |
| Simulator lock step | `network_gym_ns3/network_gym_sim.py`, `contrib/networkgym/model/*.cc` | step counter | connect, send a measurement, wait for the action, fail, finish | server (under the worker's identity) |
| GMA link state | `contrib/gma/model/link-state.cc` | why each link is down, default links, links to skip | six up/down triggers, default-link update | GMA interface |
| GMA splitting | `gma-rx-control.cc`, `gma-tx-control.cc` | split of a burst over links; position in the burst | delay/loss algorithm, link-failure redistribution, TSU application | link state, each other through TSU/TSA messages |
| GMA interface | `gma-virtual-interface.cc` | packets held for reordering, control messages awaiting acknowledgement, sequence numbers | transmit, receive, reorder, send/resend/acknowledge control messages | everything in GMA, the peer |
| GMA measurement | `measurement-manager.cc` | measurement cycle state machine | start, per-packet update, end | receiver control |
| GMA physical access | `phy-access-control.cc` | current and best access point, probe under test | scan, probe, probe acknowledged or timed out | GMA interface |
| TCP socket | `contrib/modified/tcp-socket-base.cc` | state of the connection, buffers, scoreboard, timers | connect, send, close, receive, recover, time out | application, congestion control |
| BBR | `contrib/modified/tcp-bbr.cc`, `tcp-rate-ops.cc` | model of the path (bandwidth, round-trip time), mode, rounds, window | act on an acknowledgment, a loss, a timeout | TCP socket |
| Experiment script, launchers, adapters' data conversion, vendored ns-3 code | see `PROJECT.json` | | | |

What is hard here, and what the properties are for:

* *Interleavings.* Hellos are periodic and cross the requests that dedicate
  their sender; a client killed and restarted meets the remains of its previous
  session; a late `env-end` meets the next session.
* *Two processes under one identity.* A worker closes its socket before its
  simulator opens one; what a ROUTER sends in between is dropped.
* *Hand-kept redundancy.* Three structures describe idle workers and two
  describe sessions; five places update them. A worker in two of them, or a
  client routed to a worker that is gone, is a wrong answer or an exception in
  the only server thread.
* *Counting.* Client and simulator must agree on the number of steps: the last
  measurement is answered by nobody, `reset` between episodes sends an action.
* *Lost, late and repeated control messages* between the two GMA peers, sent
  again under new numbers while answers to the old ones are under way.
* *Order.* Packets of one flow travel over several links of different delay,
  lists of links change under them, and a timer may end the wait for a packet
  that is still to come.
* *Numbers that wrap*: 8 bits per link, 16 for control messages, 24 per flow.
* *Rules that may undo each other*: the delay and loss rules of the splitting
  algorithm, roaming thresholds, BBR's modes and its window in recovery.

`PROJECT.json` lists every hazard at its line with the properties that cover it.

## 2. Modules

### Sessions

| module | models | extends / instantiates |
|---|---|---|
| `Dict` | Python dictionaries as functions | |
| `Channels` | message records; the outgoing queues of the two ROUTER sockets (ZeroMQ is external: FIFO per peer, drop when the peer is absent or its queue is full) | |
| `Server` | `ServerTask.run`, one action per message handler; each action includes the expiry pass that opens the iteration | Channels, Dict |
| `WorkerPool` | abstract specification: a worker is absent, idle or dedicated to one client | |
| `Broker` | Server among peers that connect, disconnect and send anything; its invariants | Server; `Pool == INSTANCE WorkerPool` |
| `Client` | `Env` and `NorthBoundClient` | Channels |
| `Worker` | `Configure.run` and the simulator's lock step | Channels |
| `NetworkGym` | all of them together, with faults | Server, Client, Worker; `Peers == INSTANCE Broker` |

Correspondence with the code:

* `availableWorkers` is the list `available_workers`, kept as a function from
  each idle worker to the set of those ahead of it; the invariant's part on the
  pool says that this always is a list. `envList`, `helloTs`, `clientToWorker`
  and `clientToEnv` are the dictionaries of nearly the same names.
* Time is abstracted to the comparisons the code makes: the last hello of a
  worker is "fresh" or "stale" (`WORKER_TIMEOUT_S` old), and `HelloTimeout` is
  the passage from one to the other. The expiry is evaluated, as in the code,
  only when some message arrives.
* An uncaught exception in the server thread is `serverUp = FALSE`, after which
  no message is handled. Only `EnvEnd` can raise one.
* `clientPc` and `workerPc` are the points at which the two programs wait. The
  worker's "idle" is `Configure.run` polling, "launch" to "down" the life of the
  simulator process.
* A measurement carries `waitCounter + 1` as its timestamp (the n-th measurement
  of a simulation), the action copies it, and the simulator refuses an action
  with another one: the three places the code compares timestamps.

Left out: the contents of observations, rewards and policies; actions without
data (the code sends them without a timestamp and the simulator does not check
those); the merging of several measurements of one interval into one message.

The name `<session>-custom` of a session's custom environment is `PrivateEnv[session]`,
a constant. It may be one of the names peers use, as in run `broker`: the server
prefixes only the name `custom` and leaves every other as it is, and lines 313 to 323
compare names, not sessions, so a client of any known account that asks for the private
environment of another session by its full name is given that session's worker. The
worker refuses it (`RecvUnexpected`: `configure.py:104` finds no such name in the
worker's own list), which is what keeps the promise of
`docs/tutorials/implementing_custom_environment.md:41`, "Only clients sharing the same
"session_name" are granted access to this custom environment"; until then the worker is
dedicated to the stranger. What the server itself guarantees is `ForeignOnlyByName`: such
a worker is given to a stranger for that full name only, never for a name that a client
uses for an environment of its own or of the official session.

### GMA control

| module | models | extends |
|---|---|---|
| `LinkState` | `LinkState` of a GMA interface as a record; its up/down methods as operators | |
| `TrafficSplit` | the decisions of `GmaRxControl`: on a link failure, at the end of a measurement cycle | LinkState |
| `GmaControl` | the control messages of two `GmaVirtualInterface`s, and what they do to link states and splits | TrafficSplit, Dict |

`iface[n]` is the state of interface n, one field per member of the C++ classes
(named in `InitInterface`), and `net[n]` the control messages on their way to
it. The simulated networks are external: a message may be overtaken by any
other, since copies travel over different links, and a loss is a message that is
never delivered. The code keeps one timer per message and lets it expire whether
or not an answer is about to arrive, so `RetxCtrlMsgExpires` has no other guard
than the message being in the queue.

| action | code |
|---|---|
| `PeriodicProbeMsg` | `PeriodicProbeMsg`: one probe per link |
| `WifiPowerLow`, `WifiPowerHigh` | `WifiPeriodicPowerTrace` and `WifiPowerTrace` |
| `MeasureCycleEnd` | `MeasurementManager::MeasureIntervalEnd` with the decision it asks `GmaRxControl` for |
| `ReceiveDlSplitWeightAction` | the method of that name, an action of an agent |
| `RecvCtrlMsg` | `RecvCtrlMsg` for a probe, a TSU, an ACK and a TSA |
| `RetxCtrlMsgExpires` | `RetxCtrlMsgExpires`: send again under a new number or give up |

The methods these call are operators from an *effect* (the interface so far and
the messages sent so far) to an effect, in the order of the calls. A call chain
such as "give up, mark the link down, update the defaults, deal its share to the
other links, send a TSU" is one action.

The decision of the delay algorithm depends on statistics; here
`MeasuredSplits` contains every split its moves can lead to, so that a property
that holds in `GmaControl` holds for all measurements. `GmaReceiver` computes
the decisions from measurements and checks, as `DecisionIsMeasured`, that they
are among these.

### GMA receiver

| module | models | extends |
|---|---|---|
| `DelaySplit` | the delay and loss rules of `GmaRxControl::DelayAlgorithm` on delays and loss rates | TrafficSplit |
| `MeasureCycle` | `MeasurementManager`: intervals and cycles, delays, losses by 8-bit numbers | DelaySplit |
| `GmaReceiver` | the receiver that measures, decides, sends a TSU and waits for its TSA; transmitter and links are its environment | MeasureCycle |

An action is the arrival of a packet or of a control message, or an event of the
environment; the code starts and ends intervals nowhere else. Left out:
statistics that are only reported; the adjustment of delays at the sender, the
congestion delay and the QoS rules, which the only algorithm an interface
accepts ("gma") never reaches. A TSU is answered here; `GmaControl` has those
that are not. Two conditions say what the environment is taken to do: `waiting`
(a transmitter that has obeyed a TSU sends over the links it names) and
`MayBeDue` (a link that is up is probed within twelve seconds).

### GMA data path

| module | models | extends |
|---|---|---|
| `TxControl` | `GmaTxControl` and the choice of a link in `Transmit`: the splitting list spread by bit reversal, draining links, defaults | TrafficSplit |
| `Reordering` | `InOrderDelivery` to `StopReordering`: what is held, released, counted as lost, and when the reordering is on | LinkState |
| `DataPath` | packets of one direction of a flow in split, steer or duplicate mode, from `Transmit` to the callback that forwards them | TxControl, Reordering |

`wire[c]` is what is under way over link c, in order; packets may be lost.
`BecomesLate` is the passage of time after which a held packet is older than the
threshold, `ReorderingTimeout` and `StopReorderTimeout` the two timers. The
fields `told`, `tally`, `steady` and `moved` of the transmitter and `start`,
`since`, `lost`, `lsn`, `gsn` and `up` of the receiver and `spent` include
histories that properties refer to; no guard of the code's own reads them.

### Roaming

`Roaming` models `phy-access-control.cc` with the parts of `gma-protocol.cc` and
`gma-virtual-interface.cc` that call it: `ScanRssi`, the test of an access point
by a probe, its answer and timer, the move of a single radio, and the address the
server sends to. It begins after the first beacon of every access point. A
retransmission is a probe with a number of its own. The queue `GmaProtocol` keeps
for QoS tests is not reachable and left out.

### TCP and BBR

| module | models | extends / instantiates |
|---|---|---|
| `TcpBuffers` | ns-3's `TcpTxBuffer` and `TcpRxBuffer` as the socket uses them (external) | |
| `TcpSocket` | `TcpSocketBase`: one operator per function, from a socket to the socket after | TcpBuffers |
| `TcpConnection` | two sockets, their applications and a network that loses, reorders and duplicates | TcpSocket; `Stream == INSTANCE ByteStream` |
| `ByteStream` | abstract specification: data are read in order and without a gap, and the end after all of them | |
| `TcpRate` | `TcpRateLinux`: samples of the delivery rate | |
| `TcpBbr` | `TcpBbr`: model of the path, modes, window | TcpRate |
| `BbrPath` | a bulk transfer with BBR over a bottleneck of a fixed rate and delay | TcpBbr, TcpBuffers |

The header comments of `TcpSocket`, `TcpBbr` and `BbrPath` say in which units
they count and what follows from the experiment's configuration. ECN, persist
mode, `ShutdownSend` and the IPv6 twins are left out. The sink closes after the
sender, as the experiment's applications do (`SinkFirst` is FALSE).

### Proofs and instances

| module | content |
|---|---|
| `Broker_proofs` | the server: inductive invariant, refinement of `WorkerPool`, histories |
| `NetworkGym_proofs` | the whole system implements `Broker`; its types; undisturbed sessions: one thing under way, lock step, completeness |
| `TrafficSplit_proofs` | sums over finite sets; what the operators on links and splits keep |
| `GmaControl_proofs` | numbers, answers, splits and links of the control exchange |
| `DataPath_proofs` | the transmitter's choice of a link, the count of losses, the order of a split flow, the shares of its links |
| `GmaReceiver_proofs` | the count of losses, what the receiver may decide |
| `Roaming_proofs` | a test always has an end |
| `TcpConnection_proofs` | acknowledged data have been received; no assertion fails; the connection implements `ByteStream` |
| `MC*` | instances for TLC |

## 3. Runs

| run | instance | shows |
|---|---|---|
| `broker` | 2 clients of 2 sessions, 3 workers (official with a custom environment, official without, foreign and overclaiming), arbitrary messages | the server's structures and histories stay consistent; a session's private worker goes to a stranger only by its full name; a silent worker is never chosen; the server implements `WorkerPool` |
| `sessions` | 2 clients, 2 workers, 2 episodes of 2 steps, no faults | one thing is under way per waiting client, client and simulator are in step, no simulation fails, every session ends, a worker hears only its client |
| `faults` | 1 client (started twice), 1 worker; kills of both, simulator crashes, silence, timeouts, crossing hellos | every session ends, every worker that lives comes back, every step is one of `Broker` |
| `env_end` | 2 clients, 1 worker, timeouts | **violated**: finding 1 |
| `gma_client` | a client and its router over Wi-Fi and LTE; the client sees Wi-Fi's power, is controlled by an agent and measures | numbers are unique, answers match, splits add up, a failed link loses its share, the defaults follow the links that are up |
| `gma_measurement` | both sides probe, no agent | **violated**: finding 2 |
| `gma_data_path` | a flow in each mode over two links; decisions change, packets are lost or late, links drain, go down and up | order, shares, loss reports, sending on links that are up, release of what is held |
| `gma_receiver` | steer and split mode; queues, losses, late packets and links change | losses are counted across the wrap, decisions are among those of `GmaControl`, cycles end, the split settles |
| `roaming` | one radio or two, three access points, changing powers | the inductive invariant; the client ends at an access point that is good enough and the server follows |
| `roaming_test` | the same | **violated**: finding 3 |
| `tcp` | 3 segments, two faults among loss, reordering, duplication and early timeouts | the asserts of the code hold, what is acknowledged was received, the connection is a byte stream, data are delivered and sockets released |
| `bbr` | a transfer of 62 segments through all modes, one segment lost early, in the middle or last | rounds are round trips, modes fit the pipe, the window comes back, deliveries count once |

### Bounds

*Sessions.* In `broker` a queue holds one message (`HighWaterMark` 1), and only
`Connecting`, one client and one worker, have a socket, so that queues of
connected and of absent peers both occur; three workers are the least at which "first
suitable in the list" differs from "first", "last" and "any", and two clients
the least at which routes can collide. Clients ask for an official environment, for
`custom`, and for the private environment of the second session by its full name. In the system runs `MaxRequests` and
`MaxReports` bound messages in transit before a process may send another; a
client waits for each answer, so more than one request is in transit only when a
restart follows a kill. `MaxLaunches` bounds client processes: two are needed
for a restart to meet the previous session.

*GMA control.* `MaxCsn` bounds the numbers up to which an interface begins
something of its own (probes, TSUs, power changes), and `LastCsn` ends the model
before the numbers would wrap. Three numbers are two probes and a TSU; the
fourth is a retransmission. `MaxRetxAttempt` is 1 instead of 5: what matters is
that a message is sent again, under a number of its own, before it is given up.
In `gma_client` the router only answers (`RouterCsn` 0), which leaves the
client, where all decisions are made, the room for its cycle. Downlink traffic
only, as in the experiments with an agent: the client receives (`RxMode`), the
router transmits (`TxMode`). The splits of an agent add up to 128,
`MaxSplittingBurst`, and the bursts of the algorithm to `SplittingBurst`, so
`SplitAddsUp` is checked across a change of size.

*Data path.* `MaxPackets` and `MaxTsus` depend on the mode: six packets and one
decision in split mode (a list of four, and its restart in the middle), five and
two in steer mode (there and back), five and one when packets are duplicated.
One event and one loss are enough for a packet that overtakes one that is held
or lost while a link changes. Numbers of a link begin at 254 so that they wrap.

*Receiver.* A cycle has at most 3 intervals (10 in the code), which are enough
for an interval that ends early, one that converges and one that ends the cycle;
`StepThresh` is 1 instead of 4, so that a fine step is reached. `MaxDelay` is
2^20-1 instead of 2^32-1, larger than any delay that occurs; other thresholds
and durations are the code's. `MCScenarios` restrict which events, pauses and
queues come together.

*Roaming.* Powers are those of one access point too weak, one just strong enough
and one better by more than the threshold. Two probes under way, two timers of
tests and two changes of power let an answer and a timer outlive their test.

*TCP, BBR.* Two faults are what lets a retransmission be lost, or a SACKed
segment's loss be followed by a spurious timeout; the run has three segments,
since `RetxThresh` is 2. In `bbr` the minimum round-trip time expires after 20
units and bandwidth after 4 rounds, so that a transfer of 62 segments goes
through PROBE_RTT and back.

### Fairness

`NetworkGym!FairSpec`: weak fairness for the server handling a worker's message,
for the steps a client or worker process takes on its own account, for repeated
hellos and for timers that nothing overtakes; strong fairness for the server
handling a client's message. The loop polls both sockets in each iteration, so a
client is not starved by hellos. Nothing obliges a user to start a client, a
worker to boot, or a fault to happen. `WorkerReturns` is about workers that are
not killed for good or for ever again: a worker killed while busy keeps its route
until it is started again or its client asks again (there is no timeout on busy
workers).

`DataPath!FairSpec`: time passes until the timer of the reordering has fired.
`GmaReceiver!FairSpec`: packets come over the links in use, and a TSU is
answered. `Roaming!FairSpec`: periodic probes are sent, timers expire, what is
not lost arrives, and, strongly fair, a test and its answer arrive: of two tests in a
row one has half a second before an older timer can end it, and a round trip
takes less. `TcpConnection!FairSpec`: the simulator runs every event that is
scheduled and delivers what is not lost; applications stop; TIME_WAIT passes
however often something is sent again (strong fairness). `Released` does not
claim anything after two faults, nor when a FIN is forgotten, and `Delivered` not when the connection was given
up: a socket that gives up does not tell its peer, and FIN_WAIT_2 has no timer.

`CHECK_DEADLOCK FALSE` stands where the model comes to rest at a bound: all
numbers used (`gma_*`), all packets sent (`gma_data_path`), the transfer over
(`tcp`, `bbr`).

### Findings

1. *`env_end`.* `network_gym_server.py:245` announces deleting "the routing table
   based on the worker address"; line 248 deletes the identity of the message
   again instead of the key it found. When a worker reports the end of one
   client's session while another client is already routed to it, this is a
   `KeyError` and the only server thread ends.
2. *`gma_measurement`.* After a decision measurement stays off until a TSA
   arrives (`measurement-manager.cc:872`). If the TSU is given up none will, and
   the algorithm is not asked again until some other event sends a TSU.
3. *`roaming_test`.* `ProbeAcked` (`phy-access-control.cc:191`) moves the client
   to `m_bestApId`, which `ScanRssi` (128) may have changed since the test was
   sent: the client moves to an access point that no probe went over, though the
   comment at 186 says "acked. we can change to the new AP".

### Known and not claimed

Read in the code while modelling; the models contain these behaviours where they
are in scope, and no property claims their absence. `PROJECT.json` lists the
more important ones as hazards.

* Server: a hello that crosses the dedication of its sender is taken for a
  restart (`network_gym_server.py:199`): the client is told "Worker Restarted,
  Try Again." and the busy worker goes back to the pool; `faults` contains such
  crossings and shows that sessions end all the same. `generate_table` iterates
  over dictionaries another thread changes (83). `network_gym_sim.py:44` reads
  the pipe of stderr only after stdout is closed.
* GMA control: the link blamed for a TSU that was given up is always Wi-Fi,
  the one in the queued header (`gma-virtual-interface.cc:2567`, 2301). An
  overtaken message sets `m_maxLinkMapUpdateSn` back (2706). A TSU sent again
  after a newer one carries the larger number and overrides it (2600).
* GMA data: a handler that asks for the link of the next packet takes an entry
  of the list (2674). A duplicate may be forwarded (1881, 1884). The largest
  number also means "no minimum" (1858). `StopReordering` leaves the reordering
  timer running (2248).
* Measurement: a cycle never ends early for a steered flow
  (`measurement-manager.cc:655`), where a difference is unsigned (647).
  `ScanRssi` asserts that a power is known (`phy-access-control.cc:99`).
* TCP: a FIN is forgotten when `Close` comes during a retransmission
  (`tcp-socket-base.cc:790`); LAST_ACK closes instead of answering a repeated
  FIN (2604, 2610); a repeated SYN+ACK is ignored (1527). BBR: the span of a
  sample (`tcp-rate-ops.cc:194`), a second timeout saves the reduced window
  (`tcp-bbr.cc:773`), `roundStart` is set again by later acknowledgments (624).

## 4. Proofs

All theorems hold for every value of the constants that satisfies the named
assumptions of the modules (`...Assumption`), for any number of steps; where a
theorem has a hypothesis of its own it is named below.

### The server (`Broker_proofs`)

* `Inductive`: `Spec => []IInv`. `IInv` joins the type invariant, the agreement
  of the three structures on idle workers, no worker both idle and dedicated, one
  client per worker, a dedicated worker offering what its client asked for, and a
  strengthening, `RecordsGenuine`: what is on record for an idle worker is what
  it may advertise, and what is on record for a client is `custom` in
  its own session or a name it gave itself. Without it "offers what was asked" is
  not inductive: a dedicated worker's offer is deleted from the pool, so the fact
  must be carried over from the moment of the choice.
* `TypeCorrect`, `PoolStaysConsistent`, `IdleOrDedicated`, `Dedicated`,
  `ServedAsAsked` are its parts or follow from them.
* `ForeignServeByName` (`ForeignOnlyByName`): the only name an unofficial worker can
  offer is that of its own session, the client was given a worker that offers what it
  asked for, and names of two sessions differ. It does not say that a client is never
  given a worker of another session (section 2).
* `IdleListIsFifo` (`IdleListFifo`), an action property: the idle list keeps the order
  in which workers came into it. A repeated hello renews the time of the last hello and
  nothing else, so this is not the order of the last hellos.
* `SilentNeverAssigned` and `OldestServesFirst`, action properties: the only
  steps that gain a route choose the first suitable worker after expiry.
* `HearsOneClient`: a worker is only sent messages of the client it is dedicated
  to.
* `Refinement`: `ImplementsWorkerPool`; each action is mapped to `Leave`, `Join`,
  `Serve` or a stutter of `WorkerPool`.

The proofs go handler by handler. Each handler changes the pool in one of three
ways (expire, expire and remove, expire and enlist) and the routes in one of
three (nothing, lose some, gain one); lemmas state what each way preserves, and
the handlers combine them.

### The whole system (`NetworkGym_proofs`)

`BrokerIsImplemented`: every step of clients, server and workers, with every
fault, is a step of `Broker` or a stutter, so all theorems about the server hold
of the system, and `WorkersHearTheirClients` is one of them. The invariant it
needs, `WireInv`, gives the types of what is in the sockets of either side: a
peer only sends messages that its identity may send. `TypeCorrect` follows.

#### Undisturbed sessions

`OneThingUnderWay` (`OneAnswerPerRequest`), `SimulatorsInStep` (`LockStep`),
`SimulationsComplete` (`NoSimulationFails`) and `ServerSurvives`, for any numbers
of clients, workers, episodes and steps. Their hypothesis, `Undisturbed`, is that of the run
`sessions`: no faults, one launch per client, queues with room for a message.
The first part is what makes the statements true. With two launches the second meets
the simulation of the first, and the code deliberately ends it.

`SessionInv` says, for each client, in which phase its session is and exactly
what is where in that phase: nothing yet, the request under way (`Asked`), the
answer to a request that cannot be met (`Unsupported`), the simulator about to
report (`Simulates`), its measurement at the server's socket (`Reported`), on
the way to the client (`Told`), with the client (`Thinks`), the action at the
server (`Acts`), on its way to the simulator (`Commanded`), the last measurement
handed over (`Finished`); and for each worker that serves nobody that it is
`Free`. No weaker statement is inductive: that a simulator does not get the
action of another client depends on every queue that holds one. The step of one
client or worker leaves the phases of the others alone (`ServedFrame`,
`UnservedFrame`, `FreeFrame`); each handler leads from one phase to the next.
`OneAnswerPerRequest` counts over all queues: the phases say that the finite set
of what is counted has one element.

### Links and splits (`TrafficSplit_proofs`)

The first part proves what a sum over a finite set is, from the definition by the
community modules' fold: by induction over the sets of which the statement is
true, as elements of a set of sets, since an operator cannot be passed to an
induction theorem here. The second says what the operators of
`LinkState` and `TrafficSplit` keep: a split dealt to the other links, moved by a
rule or started afresh adds up to its burst (`DealDealsAll`, `ShedAddsUp`,
`MoveKeepsBurst`, `MeasuredAddsUp`, `StartedAddsUp`), and the default links are
among those that are up when these change (`LinkDownIs`, `LinkUpIs`).

### Control messages (`GmaControl_proofs`)

For any links and order of preference, splits of an agent, retransmissions and
bounds, under `GmaAssumption`:

* `NumbersAreUnique`, from `NumbersInv`: the numbers of waiting messages, in all
  their transmissions, are below the next number and disjoint. The bound
  `LastCsn < 65536` is what the statement needs: a number may be used again
  after 65536 others, and the code relies on messages being settled before.
* `AnswersFindTheirRequests` (`AnswersMatch`), from `AnswersInv`: every number in
  flight, in a message or its answer, was used by the sender, and if it still
  waits there, then for a request of the type that goes with it. Uniqueness of the numbers that wait
  does not give this: an answer outlives the request it was sent for.
* `SplitsAddUp` (`SplitAddsUp`), from `SplitInv`: the split in use adds up to its
  burst, also the TSUs that wait in the queue give something to some link, and
  link states are of their type. The burst may change with an agent's action.
* `FailedLinksShed` (`FailedLinkShedsShare`) and `DefaultsAreUp`
  (`DefaultsFollowLinks`), action properties, from the same invariant.

An action is a chain of methods, so what is proved of methods must compose. Each
argument relates the effect a method starts from to the one it leaves:
`Follows` and `NoNewNumbers` for numbers, `Carries` and `Quiet` for answers,
`Leads` for splits and links, with a lemma each that these compose
(`FollowsThrough`, `CarriesThrough`, `LeadsThrough`). `Leads` is not
transitive: a link that goes down and sheds its share might be given one again
later in the chain, so only what leaves the links alone may come before, and
only what leaves links and split alone after (`LeadsOn`).

### Data path (`DataPath_proofs`)

* `SentOnUpLinks` (`SendsOnUpLink`), for any links, bursts, decisions and
  failures, from `TxInv`: once the default links have been computed the
  low-priority default is up whenever some link is. The splitting list may well
  name links that are down; the search in it skips these and ends at the default,
  which is why the invariant is about that one.
* `LossesCounted` (`LossesAreCounted`), for any first numbers and in every mode,
  from `CountInv`: the packets under way on a link are a chain, each number
  following the one before, or the last that was received, after a gap of
  exactly the losses not reported yet. Its hypothesis is `MaxLosses < 127`:
  from 127 losses in a row on, a difference of 8-bit numbers no longer says
  whether a packet is ahead. The hypothesis is of the statement, which counts by the link's
  number alone; `Reordering` tells longer gaps by the flow's number, as the code does.
* `SplitInOrder` (`InOrderSplit`), for any links, splits, decisions, losses,
  lateness, draining and link changes, with or without the numbers of the links
  (`UseLsnReordering`), from `OrderInv`. It remembers as `route` which link each
  number went over, and as `last` the last number that has come from each. `Carries`:
  what is under way over a link has larger numbers, in order, and the link's own
  number of each is the count of those that went over it. `Orderly`: what is held is still
  expected and in order on each link, the last that came from a link has been
  forwarded or is held, and what was forwarded is in order and before what is
  expected. Three facts carry it:
  - `MinNotBehind`: the smallest number of the heads of all queues is not behind the number
    expected, so that both loops forward in order. They are chains of turns, and
    `LoopStays` takes what every turn keeps (`TurnsOrderly`) to the end of the loop by
    induction on the number of turns; the loop itself is a recursive function, which `LoopRuns`
    shows to exist. `MinAtIs` does the same for the search of the minimum.
  - `OnlyLossesIs`: when a link's number has grown as much as the flow's since the last
    packet of the link, all numbers between went over this link, although the first wraps after 256
    and the second does not. They are lost then, and the packet may be forwarded or
    released without them: no smaller number can come any more.
  - what was sent before the reordering began is not asked for: `since` is the first
    packet forwarded from then on, and a packet that comes late is behind what is expected and
    dropped.

  Its hypotheses say that `MaxPackets["split"]` is less than half the number space,
  where the serial comparison becomes ambiguous, and that the flow does not come to
  the number 16777215, which `ReleaseMinSnPacket` and `ReleaseInOrderPackets`
  also take to mean that no minimum has been found yet. A flow of the code begins at 0, as in the run.
* `ListGivesShares`: the list that a TSU is turned into has, over the whole burst,
  exactly as many entries of each link as its share, and over its first half a half
  of that, or half an entry off, for every burst that the code knows and every
  split of it. `ReverseTwice` carries it: on the indices of a burst the bit reversal
  is its own inverse, so that spreading permutes the list, and the first half of a
  burst takes the even positions. A link's entries are consecutive before the
  spreading (`InOrderIs`), and half of consecutive positions are even, give or take one.
* `SharesAsTold` (`ShareAsTold`, with `TypeOK`), without hypotheses, from `Sends` and
  `Receives`. `Sends` is about the transmitter: a list is as long as its burst
  (`ListOK`), and as long as nothing but `Transmit` has taken entries, the list is that of the TSU
  obeyed, the packets sent since then are whole bursts and one begun, and each link
  has carried its share of the former and of the latter what the list says
  (`Shares`). `Receives` is about the receiver and the wire, which `TypeOK` mentions:
  every release is a chain of turns that each keep the form of a receiver.

### Receiver (`GmaReceiver_proofs`)

For any links, delays, queues, losses, splits and bounds:

* `LossesCounted` (`LossIsCounted`): the packets counted as missing on a link are
  those that were lost since the first of the cycle. `LsnDiffIs` computes the
  difference of two numbers across the wrap, for an even number space of at least
  six; `Counted` says of every device that it never saw a packet out of order,
  which makes `missing` alone the count.
* `DecisionsMeasured` (`DecisionIsMeasured`): whatever was measured, the split
  decided on is one of those `GmaControl` chooses from. This is what carries
  `SplitAddsUp` over to decisions from statistics. The rules search for the link
  of the least or largest delay or loss rate: `ExtremeDelays` and `ExtremeRates`
  show that these searches find a link of the set they are given (rates are
  fractions, compared by cross multiplication), `TakeFromIs` that a step never
  exceeds the share it is taken from, and `MoveIsMeasured` that what results is a
  measured split.

The invariant joins `Counted`, the flags of the manager (`Managed`), the control
record (`Controlled`: a split adds up to its burst) and the TSUs under way.

### Roaming (`Roaming_proofs`)

`TestsEnd`: `IInv`, for any access points, powers, thresholds and bounds: another
access point is in mind only while a test waits, and a test that waits has a
timer. It is inductive because timers are counted, those of earlier tests too.

### TCP (`TcpConnection_proofs`)

For any amount of data, any windows, any number of losses, duplicates,
reorderings and early timeouts, any number of retries and acknowledgments
delayed. The hypothesis is `SinkFirst = FALSE`: the application of the sink
closes after its peer, as in the experiment and in the run `tcp`.

* `Invariant`: `Spec => []IInv`.
* `AckedReceived` (`AckedIsReceived`): what the sender drops from its buffer, or
  marks as reported by SACK, has been received, so that no retransmission stops
  too early.
* `Assertions` (`AssertionsHold`): no NS_ASSERT of the socket and its transmission
  buffer fails, the marks of the scoreboard are on segments that were sent, none
  is both reported and lost, and every number is at most two beyond the data (SYN
  and FIN), one more in a segment that follows a FIN.
* `StreamOfBytes` (`IsByteStream`): the connection implements `ByteStream`. Data
  are read in order, once and without a gap, and the reader learns of the end only after
  the writer closed and all data were read.

`IInv` has a part for each end and one for what is under way. `Sender` is the
socket that writes, in one of four conditions (not connected yet, open, done,
dead), with its scoreboard inside its window; `Sink` is the socket that reads, by
state; `RxOK` says of its receive buffer that it holds nothing, a part of what was
sent, or everything with the FIN after it. A segment under way is one that the
other end may have sent at some time (`ForSink`, `FromSink`): segments may be
duplicated and overtaken at will, so nothing is said of how many there are or in
which order. `Agree` ties the ends: every acknowledgment, under way or
taken, is at most what the sink expects, every reported segment was received, and
no acknowledgment names as missing a segment that another reports. The last part
is what the code relies on without saying so: an acknowledgment discards up to a
number (`DiscardUpTo`) in a scoreboard whose marks come from other
acknowledgments.

For `Assertions` every lemma about a call carries `Sane`: the duplicates of an
acknowledgment are counted only in DISORDER and RECOVERY and below the threshold
in DISORDER, recovery is active only in RECOVERY and LOSS, and `broken`, the
model's record of a failed assertion, is FALSE. `Bounded` and `Humble` say how far the
numbers of the two ends go. `Counts`, an invariant of its own, is about the
model's count of faults.

Handlers are chains of calls on one socket's record. Each has lemmas that relate the
socket before and after (`Does`, `Answers`, `Goes` at the sender; `Takes`, `Ready`
at the sink), which compose as the calls do; an action then takes the socket's
output to the network and keeps `Ties`. The refinement follows from `RxOK`
before and after a step and from the number expected by the sink, which never
goes back (`Forward`).

### Model-checked only

* Liveness and everything under fairness: `SessionEnds`, `WorkerReturns`,
  `HeldIsReleased`, `CyclesEnd`, `SplitSettles`, `StrongestIsUsed`,
  `RouteFollows`, `Released`, `Delivered`. Fairness and ENABLED are out of the
  prover's reach.
* `InOrderSteer` and `NothingSkipped`. Neither holds of a TSU sent "blindly": between
  an end of the reordering, which sets `m_newLinkCid` to UINT8_MAX, and the first packet
  after it, the receiver takes a change of the link for no change (`Receive`, line 1417);
  and a split flow told to use one link may have left the reordering off (2371). In a run
  with 8 packets and 3 TSUs a steered flow is then forwarded as 0, 1, 2, 3, 4, 6, 7, 5.
  `spent.faults` records such a TSU as "blind" and the two properties except it; with
  that they hold up to 8 packets and 3 TSUs without link events as well. The order of a steered flow rests on the end markers: an invariant would have to tell, for the markers under way, which packets
  over either link were sent before them. That nothing is skipped would need the
  converse of `OnlyLossesIs` and of the other ways to be released.
* BBR: `DeliveredOnce`, `ModeFitsPipe`, `RoundTakesRtt` and
  `WindowComesBack`. The last two are about samples of a rate over many rounds, in
  a path of one rate and delay; no invariant for them is in sight.
* The violated properties of the three findings.

## 5. Plan

Done: all modules above; proofs of every safety and action property of the
sessions, of GMA control and of the receiver, of four properties of the data path,
of roaming's invariant, and of the TCP connection's refinement, its invariants and
its assertions.

Left, in this order:

1. `ModeFitsPipe`: an invariant of mode, filled pipe and state of PROBE_RTT.
2. `DeliveredOnce`: the scoreboard against what is under way.

Not planned: the status table's thread (it changes no state), the merging of
measurements in `data-processor.cc`, adapters and launchers (data conversion),
QoS steering and duplication (not reachable with the accepted algorithm), ns-3's
own models and the modified copies of its schedulers, EPC helpers and rate
control, which are not this repository's logic.
