# Mix-Tor in TLA+

Mix-Tor is a pluggable transport for Tor. Between a client and a bridge it runs
one long-lived, encrypted connection (a *wire*) on which fixed-size frames leave
on a departure schedule that does not depend on the traffic: a slot carries a
real cell if there is one and a dummy otherwise. Circuits are multiplexed over
the wire by a 16-bit stream id. This directory models the parts of the program
that carry its logic, checks them with TLC on small instances, and proves the
core safety properties for all values of the constants with TLAPS.

Source lines are lines of `src/transport.rs` unless another file is named.

## 1. Inventory

| component | state | operations | hard behaviour |
|---|---|---|---|
| shaped flow (`shaped_forward`, `register_shaped_flow`, `run_emitter`, `service_flow`, `strip_and_forward`, `read_sealed_frame`) | channel, correlator queue, `pending`, departure clock, EOF data of the FlowSlot | read a chunk, send, wake, service slots, flush, close; read a frame | a reader task, an emitter thread and a peer run concurrently; partial writes, late wakes, backstop against completion |
| departure clock (`timing_correlator.rs`) | `next_departure` | `slot_ready`, `advance_clock`, `restart_clock` | bounded catch-up after a stall |
| tail policy, epoch clock, session classes (`session_bounder.rs`) | thresholds drawn per session | `next_boundary`, `classify`, `tail_targets` | boundary cases of the integer division, stale byte counts |
| multiplexed wire, client (`MuxWire`, `MuxClientHandle`, `mux_tor_reader/writer`, `receive_mux_inbound`) | id counter, stream map, circuit channels | `add_stream`, read, write, receive | id reuse, half-closed circuits, full channels |
| multiplexed wire, server (`mux_demux_to_bridges`, `bridge_stream_relay/writer/reader`) | stream map, relay channels, hold buffers | route, open, refuse, close with echo, hold, connect, forward | detached tasks, closes crossing on the wire, errors at every step |
| process-wide stream cap (`GLOBAL_BRIDGE_STREAMS`) | an atomic counter | `fetch_add`, compare, `fetch_sub`, guard drop | wires racing between the two operations |
| shared emitter (`EmitterHandle`, `run_emitter`) | a vector of flows, a registration channel | register, service all, `swap_remove` finished ones, stop | flows removed while the loop walks over them; a registration racing the end of the thread |
| wire manager (`MuxClientHandle`) | map of wires under a mutex | `prewarm`, `get_or_connect_wire`, `connect_circuit` | the mutex is held across a connect; a wire that dies after the test; tasks detached by `select!` |
| handshake and frame cipher (`crypto.rs`) | keys, frame counters, read buffer | client and server handshake, seal, open | partial reads, over-read, clock skew, an hour that turns in the middle of a check, timeouts, impostors, replays |
| admission (`handle_server_connection_with_lab`, `serve_accept_loop`) | handshake permits, connection permits | accept, time out, blackhole, shed | permits held by slow peers |
| server identity (`bin/mixtor-server.rs`) | a key file | read, create and write, adopt | two servers, a crash between create and write |
| SOCKS front end and client (`socks.rs`, `bin/mixtor-client.rs`) | position in the negotiation, the cert | negotiate, read arguments, read target | which method is chosen when several are offered |
| clumping pool (`clumping.rs`), burst timing (`timing.rs`) | buffered packets, thresholds and counters of a cycle or regime | `push`, `tick`, `flush`, `observe_burst` | thresholds drawn anew inside a loop |
| composer and shaped session (`composition.rs`, `optimal_padding.rs`, `dp_shaper.rs`, `privacy_accountant.rs`, `session_bounder.rs`, `self_test.rs`, `spectral.rs`, `timing_correlator.rs`) | regime and counters, length pool, bucket table, budget, byte counts, queue, clock and its generator | `compose`, `compose_keepalive`, `inject_real`, `inject_burst`, `tick` | a burst that half fits; counts kept in several places; ring and rounding limits |
| seeds (`seeds.rs`) | the pair of seeds and its age | generate, rotate | failure between the two draws |
| lab logger (`lab.rs`) | channel, writer's buffer, file | log, write, flush, drop | a drop while rows are under way; a failing disk |
| statistics and laboratory tools (`correlation_attack.rs`, `bin/mixtor-correlate.rs`) | none that outlives a call | numerical analysis | none of protocol interest |

Interaction: each circuit's reader puts tagged cells into the channel of the
wire's uplink flow; the emitter shapes the flow; the server strips the cover and
routes cells by id to relays, each with its own bridge connection; relay readers
put replies into the channel of the downlink flow. Every relay takes a place from
the process-wide counter.

What makes each part correct:

- *flow*: cells arrive in order, once, without gaps; a flow that closes normally
  has delivered everything; the rate and the buffers are bounded whatever the
  traffic and the peer do; real data start after the entry boundary and the flow
  ends on an exit boundary; a flow whose source has ended goes away.
- *wire*: cells are never delivered to another circuit, duplicated or reordered
  by the multiplexer; ids are freed; failures of one part release what it held.
- *counter*: never more relays than the cap, no place lost or given back twice.
- *handshake*: who finishes holds the same keys as the peer it meant; strangers get
  no byte but for a request replayed in its hour; an honest pair gets
  through whatever the splitting of the reads and
  tolerable clocks.
- *server*: one identity per file for ever; permits exact; a full gate reopens.
- *client*: one live wire per bridge, circuits on their own bridge, nobody waits
  for ever, a circuit that Tor uses notices that its wire is dead.
- *traffic engine*: packets keep their order, cover cannot be told from traffic by
  size or schedule, counts kept in several places agree, delays are bounded.

## 2. Modules

| module | models |
|---|---|
| `TailPolicy` | epoch clock, session classes, tail targets, backstop (operators) |
| `DepartureClock` | the departure schedule (operators) |
| `FlowEmitter` | one shaped flow, from source socket to the peer's output |
| `CellPipe` | abstract specification of a shaped flow: an in-order pipe |
| `FlowEmitterProofs` | theorems about `FlowEmitter` |
| `MCFlowEmitter` | small instances of it |
| `Mux` | one wire with its circuits, demux loop and relays |
| `MCMux` | small instances of it |
| `MuxProofs` | theorems about the types, bounds and counter of `Mux`, and about where its cells go |
| `StreamCap` | the process-wide counter, operation by operation, for many wires |
| `Handshake`, `MCHandshake` | one connection: both handshakes, the frame cipher, strangers and impostors |
| `HandshakeProofs` | theorems about `Handshake` |
| `Identity` | key files of several server processes, with crashes |
| `Server`, `MCServer` | the server process: `Identity`, admission, and `StreamCap` for the admitted connections |
| `ServerProofs` | theorems about `StreamCap` and `Server` |
| `Emitter` | the shared emitter thread over many flows |
| `Client`, `MCClient` | the client process: SOCKS, accept loops, wire manager, circuits, over `Emitter` |
| `ClientProofs` | theorems about `Emitter` and `Client` |
| `Clumping` | clumping pool and burst timing scheduler |
| `Padding` | bucket padding (operators) |
| `Composition` | the composer with length pool, DP window, accountant, bounder, tester, keepalives; extends `Clumping` and `Padding` |
| `Seeds` | the pair of seeds and its rotation |
| `LabLog` | the lab logger |
| `Session`, `MCSession` | the traffic engine as each caller drives it: `Composition` with `DepartureClock`; `Seeds` and `LabLog` beside it |
| `SequenceFolds` | lemmas about induction and about what a loop over a sequence computes; used by the flow's, the wire's and the composer's proofs |
| `ComposerProofs` | lemmas about what `Padding` and `Composition` compute: sums, selections, interleaving, sorting, buckets, the length ring |
| `SessionProofs` | theorems about `Session`; extends `ComposerProofs` |

`Server` extends `Identity` and `StreamCap`, `Client` extends `Emitter`, `Session` extends
`Composition`, `DepartureClock`, `Seeds` and `LabLog`: their actions are conjoined with
UNCHANGED of the others' variables, and one run checks the parts together.

Definitions whose comment begins with "Fault" are wrong versions of the
definition that follows them. They are used by nothing; substituted for the
right version they make the property they are paired with in `PROJECT.json`
fail, which shows that the property depends on that piece of code.

### FlowEmitter

| state | code |
|---|---|
| `input`, `sent`, `reader` | the reader task's position in the source (655-672); `input[c]` is the payload length of cell `c` |
| `channel` | the bounded mpsc channel |
| `queue`, `nextDeparture`, `realEmitted`, `wireSeq` | the correlator inside the `ShapedSession` |
| `flight`, `kernel`, `unwritten` | frames emitted and not yet read by the peer; how many of their bytes are in the socket and how many in `pending` |
| `readerDone`, `realBytes`, `tail`, `finishBy` | the FlowSlot's EOF data (897-913) |
| `slot` | live, or the reason it was dropped |
| `received`, `peerDone` | the peer's `strip_and_forward` |

`Wake` is one return of the emitter from its sleep and the start of `service_flow`;
each pass through the slot loop is one of `SlotPullsCell`, `SlotSeesEof`,
`SlotWithoutPull`, which are the outcomes of `try_recv`, followed by the tick;
`ServiceEnd` and `ServiceWireError` are the flush and the closing decision. The
reader and the peer act between any two of them, as the threads of the runtime
do. One service calls `Instant::now()` several times (856, 877, in `slot_ready` and
`tick`, 911, 945, 949); the model takes these as one instant, as a service does not
wait for anything. Time
advances only in `Wake`, by any length in `Sleeps`, so that late wakes occur.
The exponential sample is any member of `Iats`, and the draw of the dummy coin is
any Boolean. A frame is `FrameLen` bytes; a write may take any part of what
fits. Dummies are cell 0.

Encryption of a frame is left out: the sequence of frames determines it
(`Handshake` has the cipher). `PromptPeer` restricts the peer to one that
empties its socket during every sleep, for the properties that need such a peer.

### Mux

`cmap`/`nextId` are the client's stream map and allocator, `circ` the circuits with
their two tasks, `smap` the server's map, `relay` the relays in the order they
were spawned (phase, channel, hold buffer, two tasks), `streams` the counter.
One action per step of a task: a read and its send, a write, a routed cell, one
iteration of the hold loop, the result of a connect, the return of the relay.
The close echo is an action of its own because `downlink_tx.send` awaits
after the map entry has gone. `lost` is a history variable: dropped cells with
the reason.

A cell is (stream id, source, number). Only the id is visible to the code; source
and number stand for the payload, so that the properties can say where a payload
may go. The uplink and the downlink are bounded FIFO pipes: that is what
`CellPipe` specifies and `FlowEmitter` implements, the dummies being removed by the
receiver. The gate of a held relay opens at any time. `WireBreaks` stands for an
error of the connection and for the close that follows the end of the demux
loop; it loses what is in both pipes. `ReceiveFails` is the end of the client's receive
task alone, on a frame that does not open (1646): from then on (`deaf`) nobody reads
the downlink, while everything else goes on. `DemuxFails` is the same on the server (1171), where
the loop's return drops every sender.

### StreamCap

In `Mux` the test of the cap and the counting are one step, as there is one
wire. `StreamCap` takes them apart: `Take` is `fetch_add`, `Admit` and `Refuse` are
the two outcomes of the comparison (with the `fetch_sub`), `GuardDrops` is the
drop of a guard by any relay of any wire. In `Server` its wires are the established
connections.

### Handshake

`pipe[s]` is what side `s` can read, as units: one per field, per piece of padding,
two per frame. A read takes any number of units that are there, up to `ReadMax`,
whichever message they belong to; `buf` is what `read_marked_message` has kept and
`Verdict` what it decides between two reads. Keys, marks, MACs and shared secrets
are symbolic terms of what they are made from, so "the same key" is equality of
terms; a point of small order gives the empty secret. Each side reads its own
clock (`Hour`), the server's being `skew` ahead, and time passes during the
handshake. `verify_mac_epochs` reads it for each of its three comparisons, at the
moments `Readings`, and the hour may turn between them (`turned` is the history of
that). A stranger sends bytes of its own and units of `Recorded`, a request of some
earlier client, in any order. A reply never blocks, since it fits in the socket's
buffer, and fails when the peer has closed. `genuine` is FALSE for a server that knows the public key only. After the
handshake `SendFrame` and `OpenFrame` run the two counters; what was read behind
the handshake message is counted in `discarded`.

### Identity and Server

`inst[i]` is where process `i` stands in `load_identity`; creating the file and writing
it are two steps (`create_new`, then the write), with crashes, disk errors and
other processes in between. `certs` is a history of the keys a process served
without warning that they are not on disk. Once no process can start any more
(`Settled`), connections come: `conn[c]` is the phase of a connection, `left[c]` the ticks
until its timer, `hsFree` and `connFree` the semaphores. `ProcessEnds` is a crash, or the
accept error that ends the loop. A serving process touches no variable of
`Identity`, so letting connections wait for `Settled` drops interleavings that
commute.

### Emitter and Client

`reg` and `flows` are the registration channel and the vector, `at` the loop's index,
`calls` a history of the services in this tick. `over` is the set of flows whose next
service finds them finished; why is `FlowEmitter`'s business. In `Client`, `queue` is the
mutex with its holder and those waiting (tokio's mutex is fair), `wires` and `map` the
wires ever connected and the ones registered, `on[c]` the wire of a circuit, `receiving`
the wires whose receive task runs. A circuit whose reader has ended is an "orphan":
`select!` (1579) has dropped the handle of its writer, which goes on with Tor's socket until
its sender leaves the stream map (`WriterClosed`) or the map is dropped
with the wire, which the map of wires, the receive task and the circuits'
`connect_circuit` hold (`WireDropped`). A
connect succeeds only with the bridge's key (`Handshake`). `Fallback` is
`--server-key`. The mode "single" is `handle_client_connection`, a wire and an emitter
for one connection.

### Clumping, Padding, Composition, Session

Packets are (id, length, arrival). A burst leaves the pool into `burst` and its caller
passes it on before time goes on. Regimes and thresholds are drawn from sets of
constants. An element of `sizes` tells whether the frame left before the padder had built its
first table (`early`). `Compose` is one call of `compose`: length pool and padder, the DP window and
its charge, the dummies, the interleaving (`Cuts` is where the dummies may fall), the
tester, the regime counters, the keepalive. `InjectBurst` queues as much as fits
and on QueueFull keeps the partial effects the code keeps. `Tick` fires a slot of
the departure clock; `draws` counts the values taken from the clock's generator.
`sent`, `sizes`, `realOut`, `accepted`, `lost`, `ingested`, `windows` are histories.

`caller` chooses who drives the engine: `simulate_session` of `bin/verify.rs`
("compose"), a shaped session fed by bursts or packet by packet, or none, while
`Seeds` or `LabLog` run. A part that a caller does not use stands still.

## 3. Runs

| run | instance | properties |
|---|---|---|
| `flow_epoch` | Epoch policy, gated, lossy network, any peer, fairness, 3 cells, 8 instants | `TypeOK`, `InOrderDelivery`, `PendingBounded`, `ThroughputCap`, `EntryGateHolds`, `GraceBeforeForcedClose`, `ExitOnBoundary`, `OrderlyCloseIsComplete`, `ImplementsPipe`, `BackstopFires` |
| `flow_class` | ByClass policy, two draws of the thresholds, reading peer, 18 instants | `ClassFloorHolds`, `RetirementBound` |
| `mux_routing` | 2 circuits, no failures, ids do not wrap | `NoCrossRouting`, `OneBridgePerCircuit` |
| `mux_failures` | 1 circuit with 3 cells, all failures, global cap 1 | `TypeOK`, `UplinkAccounted`, `StreamCountExact` |
| `mux_live` | 2 circuits, epoch hold, failing bridges, receive task and wire, fairness, per-wire cap 1, 2 ids | `CloseFreesId`, `WireDownReleasesStreams` |
| `handshake` | right, wrong and weak keys, an impostor, clocks up to 1 2/3 hours apart, an hour that turns, a stranger with 6 units of its own or of a recorded request, every split of the reads, 2 frames each way | `KeyAgreement`, `SilentUnlessReplayed`, `SkewTolerated`, `LockstepUnlessOverread`, `HandshakeCompletes` |
| `server` | 2 processes over shared files, one restart, disk errors; 3 connections, 2 + 2 permits, 1 stream | `CertStable`, `PermitsExact`, `CapHolds`, `GateReopens` |
| `client` | 3 circuits (2 of them over SOCKS), 2 bridges, 2 wires, every mode and kind of request | `ServicedOnce`, `OneWirePerBridge`, `CircuitOnItsBridge`, `EveryCircuitSettles`, `DeadWireReleases` |
| `session` | 3 packets of 2 lengths, with and without cells, all callers; 2 logging threads; rotations | `ThresholdsObeyed`, `DelaysBounded`, `CoverBlends`, `Accounted`, `FifoThroughout`, `LogComplete`, `RotationAtomic` |
| `flow_stalled_peer`, `mux_id_reuse`, `handshake_overread` | the smallest instance that shows it | one statement of a comment each, violated (section 6) |

`PermitsExact` includes `StreamCap`'s `CountExact` and the longest time a permit is held.
`ThresholdsObeyed`, `CoverBlends` and `Accounted` are conjunctions of properties that
stand, with their own comments, in `Clumping`, `Composition` and `Session`
(`PoolDrained`, `TimingRegimeFresh`, `RatioRegimeFresh`, `RegimeChange`; `UniformSizes`,
`DummyLooksReal`, `RingIsRecent`, `ClockIgnoresContent`; `VolumeReached`, `TesterSeesAll`,
`EpsilonCharged`).

Bounds. All capacities are 1 to 3, so that every buffer fills and empties within
a run; a frame is 2 bytes and the socket takes 4 (5 in `flow_class`, all that may be pending), so
that partial writes and frames cut in the middle occur. Two intervals and two sleep lengths, one longer
than interval plus catch-up, give on-time slots, several slots in one wake and a
dropped backlog. Three cells are enough to have one in each of channel, queue
and flight. Time stops at `MaxTime`, which covers the entry boundary, the end of
the source, the exit boundary and the backstop. The real constants (a flow channel
of 1024 cells, 64 KiB of pending, 65 536 ids) differ in size only; the theorems of
section 4 cover them for the safety properties of the flow, the wire, the counter,
the handshake, the server, the client and the traffic engine. For liveness the small
instances are all there is. In `mux_live` a second circuit exceeds the per-wire cap and
the ids run out; bridges send nothing there but their close, which is what fills
the downlink; in `mux_failures` a circuit's third cell meets every state of a relay
opened by its first, including one that has ended and the reached global cap.

`RetirementBound` is checked with a correlator queue that holds the whole input:
while the queue is full the end of the source is not looked for, and how long
that lasts depends on the random dummy slots.

*Handshake.* A message of at most 5 units, a limit of 6 and reads of up to 4 give
every way a read can end inside, at and behind a message; three ticks to an hour,
three starts within one and skews of up to 5 ticks either way give hours that agree,
differ by one and by two, and two ticks an hour that turns on the way or in a check;
a stranger sends as many units as the limit, and a recorded request has 4; its hour is
next to the server's at first and no more when the hour turns.
*Server.* Three connections compete for two permits of each kind, so one is shed
at either gate; black holes last one or two ticks. *Client.* Two circuits for the
same or for different bridges; two wires, so that a dead one can be replaced; in
the raw mode a third circuit, so that one is left on a dead wire while others connect.
*Session.* Pool thresholds of two and three packets, a timing regime of two packets
or of three or four bytes, so that either counter ends it while the other is
under way; a queue of two cells for bursts of
up to three; a ring of four lengths for nine ingested; a budget of one window. The
ranges of dummy counts are scaled down, with one that `MaxDummy` cuts; HeavyCover
has the shape of Balanced and is left out. The queue's depth is a constant of its
own and not four times `max_dummy`.

Named assumptions. In `Session` the caller is prompt: time does not pass the pool's
deadline or a keepalive that is due (it may pass a departure slot), as
`simulate_session` and the callers of `tick` arrange it. Packets are no longer than a
cell, which the transport's chunking ensures. `CompositionValid` asks for
`max_dummy_packets_per_burst` to reach the lowest count of each regime, which the
code's `validate` does not (section 6).

Deadlock is not checked: a flow that has ended, a wire whose circuits are done, a
connection whose frames are sent or a server that was killed have nothing more
to do, and the bounds stop the rest.

Fairness. `flow_epoch` assumes weak fairness of the emitter's steps (a dedicated
thread in a loop around a timed sleep) and of a send that can complete (the
runtime wakes the waiting task); nothing of the source, the peer or the network.
`mux_live`: the receive loop, the demux loop, circuit writers and relay tasks, each
a runtime task that is polled when it can go on; a connect returns, which TCP's timeout
gives, and a bridge takes what is written to it (one that keeps its connection open and
never reads would hold its relay for ever). Nothing is assumed of what circuits and
bridges send or when they close; nor that their readers run; and no failure, of a frame, a
write, a read or the wire, is ever bound to happen: `DemuxFails` and `BridgeWriteFails`
are actions of their own so that no fairness covers them.
`handshake`: a task whose socket has bytes reads them, and a client that dials
sends its message; nothing of clocks, strangers, timeouts or frames. `server`: time
passes and timers fire; nothing of the peers. `client`: the emitter thread, tasks
that wait for the mutex, a connect's end (HANDSHAKE_TIMEOUT, TCP's own timeout), a
reader with something to forward, a writer whose channel has lost its sender; nothing of
Tor, nor that a wire breaks. `session`:
the logger's writer thread and the thread that joins it; not that writes fail.

## 4. Theorems

`FlowEmitterProofs`, for every capacity, frame length, interval set, grace period,
policy, network and input:

| theorem | statement |
|---|---|
| `TypeCorrect`, `DeliveryInOrder`, `OrderlyClose`, `PendingIsBounded`, `ThroughputIsCapped`, `EntryGate`, `EpochExit` | `Spec => []P` for the property of that name in section 3 |
| `GraceIsGiven` | the same for `GraceBeforeForcedClose`, assuming `Policy` is Off or Epoch; for Fixed and ByClass it is false (section 6) |
| `FlowIsAPipe` | `Spec => ImplementsPipe`: the flow implements `CellPipe` under the mapping of `FlowEmitter` |

None of the properties is inductive. `IInv` adds what ties the buffers together:

- `ReaderInv`: where the reader stands relative to the channel, and that it is done
  when the emitter has seen the end;
- `BufferInv`: while the flow lives, emitted cells, queue and channel are
  consecutive runs of the cells sent, so that the head of the channel always
  follows the tail of the queue;
- `FlightInv`: real frames in flight ascend, start after the last cell received and
  have no gap, and nothing emitted is missing until the flow is cut. This makes
  in-order delivery inductive, and with `ByteInv` gives the orderly close;
- `ByteInv`: bytes in kernel and pending are a whole number of frames, those in
  flight; this is why a frame cut by a dropped flow is the last one;
- `ClockInv`: fewer slots than time since the first service, and the next slot
  later than the slots so far, which is what a dropped backlog and the bounded
  catch-up preserve;
- `GateInv`: the entry gate, and the instants fixed when the end was seen.

`InitInv` shows `Init => IInv`; one lemma per part shows that a step of any action
preserves it (`SlotEffect` states once what the three slot actions have in common,
`DropKeepsPrefix` what a dropped flow leaves in flight); `Invariance` combines
them. Lemmas about `NextBoundary` and `AdvanceClock` (later than their argument,
monotone) are the arithmetic these rest on.

`ClassFloor` is `Spec => []ClassFloorHolds`, from `ClassInv`: `realBytes` is the sum of the cells
taken from the channel (`Pulled`), a first part of the input, so that it is the sum of the whole
input when the channel is empty and the reader has ended; what is fixed then is the
tail of that class. `PullCounts` is the step that counts a cell.

`Retirement` is `Spec => []RetirementBound` for the instances `Retires` describes: policy Off or
ByClass, a peer that empties the socket while the emitter sleeps, a socket that takes
all that may be pending, a queue that does not fill (with a full one the end of
the source is not looked for). The run `flow_class` is such an instance; a peer that stops
reading, as in `flow_stalled_peer`, is not, and breaks the bound. The argument:

- `FlushInv`: every service ends with nothing pending, so that each due slot fires at the
  next wake;
- `PullInv`: between the end of the reader and the slot that sees it, every slot takes a
  cell (`SlotFinds`), so that the last one fired by `FiredBy`, which moves by a slot time with
  each cell taken. The catch-up of the clock makes this more than an induction on slots: a
  slot that fires late may leave the next one overdue, which is why the invariant
  speaks of the time and not of the schedule alone;
- `TailInv`: after that a sleeping flow has its backstop ahead of it, and the backstop is
  within the limit (`LimitCovers`).

The refinement is a step simulation: `PipeSend`, `PipeDeliver`, `PipeClose` and the
stuttering steps each follow from `IInv` and two facts more about the buffers.
`EmittedWasSent` says that no cell is on the wire that the source did not give, so
that a delivery is one the pipe allows; `DrainedIsComplete` that a peer that sees
the end of a drained flow has every cell, so that the pipe closes when it is empty.
The assumptions are those named in
the modules: capacities are positive, intervals at least one tick, thresholds
ordered.

`ServerProofs`, for any finite set of wires and any cap: `CounterIsExact`
(`[]CountExact`) and `CapIsRespected` (`[]CapHolds`). The cap alone is not inductive:
a loop that has taken a place may still be admitted. `EntitledFit` says that the
live relays and the loops whose `prev` was below the cap fit under it together;
`CountExact` gives it for a new place, since `prev` counts everybody before it.

For any finite set of processes and connections, any numbers of permits and any timeouts: `CertNeverChanges` (`[]CertStable`), `PermitsAreExact` (`[]PermitsExact`)
and `ServerCapHolds` (`[]CapHolds`, now over the whole life of the server). The
invariant has three parts, one for each variable group of `Server`:

- `IdInv`: `OneWriter`, a file being written is empty and a single process is writing
  it, which `create_new` gives and a crash leaves true; `ServedOnDisk`, every key
  announced as persistent is the content of its file, which needs `OneWriter`
  because a second writer could replace a key that is already announced;
- `AdmInv`: the permits counted by phase, and `TimersBound`, that the time a permit has
  been held and what is left on the timer add up to the limit of the phase. The
  bound on the time held follows because what is left is never negative;
- `IInv` of `StreamCap`, whose step lemma is cited for the connections' streams.

`PhaseMoves` is the counting: one connection that changes phase changes exactly the
counts of the two phases. `EndKeeps` is the process that ends with all it holds.

`ClientProofs`, for any number of connections, servers, requests and wires:
`EveryFlowServicedOnce` (`[]ServicedOnce`), `OneLiveWire` (`[]OneWirePerBridge`) and
`CircuitsOnTheirBridge` (`[]CircuitOnItsBridge`). `ClientInvariant` is the inductive
invariant:

- `FlowsDistinct`, `WalkInv`: no flow is twice in the channel and the vector, and the
  flows before the loop's index are the ones serviced in this tick. The first is
  what makes `swap_remove` harmless: the flow that fills the hole is the last one,
  which has not been serviced, and the index stays. That a flow is registered once
  comes from the manager, which registers a wire's flow when it is connected
  (`FlowsDialled`);
- `QueueInv`: whoever connects is at the head of the mutex's queue, so that a single
  task at a time changes the map;
- `WiresInv`: the map has every live wire, and the task that connects knows that its
  bridge has none. `is_alive` is tested before the connect and the answer
  is used after it; it stays true because the mutex is held (`QueueInv`);
- `SingleInv` for connections without a manager, `CircuitInv` for what a circuit asks
  for, from its SOCKS arguments to its wire.

`MuxProofs`, for any numbers of circuits, ids, caps and capacities and all failures:
`BuffersBounded` (`[]TypeOK`) and `StreamsCounted` (`[]StreamCountExact`), from the types
of everything in the pipes, maps and channels. The counter is the cardinality of
the relays that hold their guard, which a step changes by one relay at most.

The second part of `MuxProofs` assumes `IdsLast == NumCircuits < IdMod`: ids do not come round. A wire
that carries fewer than 65 536 circuits in its life satisfies it; the code does not
enforce it, and beyond it cells can be misrouted (run `mux_id_reuse`), as an id that the
client has freed may be alive at the server. The run `mux_routing` satisfies it.
`RoutingThroughout` is the inductive invariant, `CellsStayApart` (`[]NoCrossRouting`)
and `CellsAccounted` (`[]UplinkAccounted`) follow from it:

- `AllocInv`: ids are given in order, one to a circuit, and stay with it;
- `UplinkInv`, `RelayInv`, `MapInv`, `DownlinkInv`, `RepliesInv`: a cell carries the id of
  the circuit it comes from, on every stage of its way, and a relay has cells of the
  one circuit it was opened for. Routing by id is then routing by circuit;
- `StreamsOrdered`, `UplinkOrdered`, `UplinkYounger`, `StreamsApart`, `LostApart`: for each
  circuit the cells in the relays, those recorded as dropped and those still in the
  uplink do not meet, and what is behind is older. `UplinkYounger` is the
  strengthening: a routed cell is younger than everything its stream has;
- `PlacedInv`: on a live wire no cell is missing.

`OneConnection` (`[]OneBridgePerCircuit`) assumes in addition that bridge connections do
not fail, as the run does: after a failed connect or write the next cell of the circuit opens a
second one (section 6). `Entered` says that a relay is in the map or its circuit is
`Over`, so that no cell of it will come; it needs that nothing follows a sentinel
(`LastCloses`, `ClosedStops`) and that a sender that is held is received from
(`SendersHeld`). The steps of `Mux` are first sorted by what they do to the cells
(`Quiet`, `Sends`, `TakesClose`, `Drops`, `Routes`, `Opens`), and each part of the
invariant is shown for these kinds.

`HandshakeProofs`, for any keys, clocks, limits, padding, reads and faults of the peer:
`KeysAgree` (`[]KeyAgreement`), `OnlyReplaysAnswered` (`[]SilentUnlessReplayed`),
`HonestClocksPass` (`[]SkewTolerated`) and `FramesOpen` (`[]LockstepUnlessOverread`).
`HandshakeInvariant` is `HsInv`, a disjunction of `ClientInv` for a connection that a client
dials and `StrangerInv` for one of a stranger. It says what can be in the pipes:

- `RequestInv`: what the server has read and can read is together the request of the
  client, made at some tick up to now, or nothing; for a stranger any sequence of junk and
  recorded units, which the server answers only if the MAC in it is the recorded
  one (`ReplayVerdict`, `ReplayAcceptedStep`);
- `ReplyInv`: for the client it is the reply and then the frames 0, 1, ... that the
  server has sealed since (`Carries`), and nothing before the server has keys;
- `FrameInv`: at a side that has dropped nothing, the frames from the one its counter
  stands at;
- `KeysInv`: both sides derive `Session`, each from its own end; a server has keys only
  for a client that knows its key, a client only when the server has.

`MessageRead` is the heart of it: reading any first part of a marked message gives
"more" until the MAC is there and then the answer of the MAC, since no unit before
the mark is equal to it and the limit is beyond the message. The
arithmetic of the clocks is `DivGrows`, `HoursMatch` and `HonestHours`: of the hours tried, three
adjacent ones unless the hour turns between the comparisons (`CheckedLater`), one is the
sender's; if the hour turns it is still tried when the sender's clock is not ahead.
A MAC contains a message, so that there is no set of all
units; the lemmas on sequences of units are stated with `Units(q)`, "a sequence over
some set". `ServerKeyAssumption` says that the key is not `None`, which marks strangers,
and that an impostor's guess is not the secret; hashes and keys being terms, the
theorems are about the protocol with perfect primitives.

`SessionProofs`, for every caller and configuration, any packets, regimes, thresholds,
pools and capacities: `ThresholdsHold` (`ThresholdsObeyed`), `DelaysHold`
(`[]DelaysBounded`), `OrderKept` (`[]FifoThroughout`), `BooksBalance` (`[]Accounted`),
`CoverIsBlind` (`[]CoverBlends`) and `SeedsRotateWhole` (`RotationAtomic`);
`ScheduleIgnoresContent` states by itself the part of `CoverBlends` that
concerns the clock's generator. `SessionInvariant` is the inductive invariant:

- `PoolInv`: a flush takes the whole pool and draws new thresholds, so that the deadline
  is the one set by the oldest packet held and is not behind the clock. Without the
  second half the bound on a packet's delay does not follow;
- `TimingInv`, `RatioInv`: counts stay below the thresholds of their regime, which are
  positive. `RegimesClear` (`RegimesStartFresh`) says of the steps that a regime that gives way
  leaves no count to the next, though only one of its counters may have reached its
  threshold;
- `ClockInv`: what is queued has the length of a cell already. `pad_to_cell` would
  draw from the clock's generator for anything else, so this is why the schedule does
  not depend on the content;
- `GapInv`, `SeedsInv`: the next keepalive is within the gap; the seeds are usable and
  differ;
- `FifoInv`: the packets in the pool or in the burst are the latest that were given, in
  order, and all packets before them are `Disposed`, accepted in order or given
  back, each of them once; what was accepted is what was sent and then the queue.
  With a queue that takes a part of a burst this is what remains true half way;
- `AccountInv`: tester, bounder and budget agree with what has left. For a session with
  cells the bounder counts before padding, and nothing is claimed of it;
- `CoverInv`: the padder's table divides the lengths it was built from (`PadderSound`), the length pool holds the latest lengths ingested in
  ring order (`Ring`), and every frame sent is a padded packet or a length that a
  dummy may have: one that some packet of the session had, or 65 535 bytes before the
  first table (`Conforming`).

`ComposerProofs` has what these rest on. The composer adds up lengths, picks the real frames
from a burst, concatenates pieces and fills the ring in loops, which the model
writes with the folds of the community modules. `SequenceFolds` derives from `LeastElement`
induction over the naturals in the form of a set that contains 0 and is closed under
successor (`Induction`), and over sequences likewise; `FoldExists` builds from it the function
of all partial results, and with it the fold's recursion equation becomes a fact that
can be cited (`TotalSteps`, `KindOfMore`, `FlattenPieces`, `IngestIs`). On these stand
`InterleavingKeepsOrder` (wherever the dummies fall, the real frames are the burst in
order), `SortedFacts` (the sorted table exists, is ascending and has the same elements),
`BucketsDivide` and `SoundCovers` (a length in the table is padded to no less, and
longer ones to no less than shorter ones), and
`RingRecent` (the pool read from the ring's position is the latest lengths, also
after it has wrapped). The budget is counted in whole charges, as in the model. The
assumptions are `validate` of each configuration in the code, positive capacities, and
for `CompositionValid` what section 3 says of the dummy counts.

Only model-checked:

- the liveness properties (fairness and ENABLED are outside the prover): `BackstopFires`,
  `CloseFreesId`, `WireDownReleasesStreams`, `HandshakeCompletes`, `GateReopens`,
  `EveryCircuitSettles`, `DeadWireReleases`, `LogComplete`. Every invariant and every
  action property that a passing run checks is a theorem.

## 5. What the checks show

A shaped flow delivers in order and completely whenever it closes as drained,
stays within its buffer and rate bounds however late the emitter wakes, and under
the production policy keeps the entry gate, the exit boundary and the grace
period. The multiplexer neither misroutes nor duplicates nor reorders as long as
no id is used again, its counter is exact under all failures, and it releases
its places when the wire goes, and the ids of closed circuits as long as the client's
receive task lasts.

A client that completes the handshake shares two distinct keys with the holder of
the secret it was configured for. Apart from clients that know its key a server answers
only who replays a recorded request, within an hour of the recorded one, and opens no
frame of its sender. An honest pair
gets through while the clocks differ by at most an hour, in whatever pieces the
messages arrive, unless somebody's time is up or the hour turns in the middle of a check
and the sender's clock is ahead. Between the two, frames
fail to open only after the client has read beyond the
server's message, which it may.

No sequence of starts, crashes and disk errors lets a cert change that was
announced as persistent. Permits are exact on every path through admission, and
peers that stall cannot keep the gate closed. There is at most one live wire per
bridge, and no connect that fails keeps others waiting for ever. A circuit on a dead wire
notices it when Tor sends; Tor itself is told only when the wire has been replaced and
nobody holds its stream map any more.

The traffic engine keeps order through pool, composer and queue, also when a burst
fits in part; cells have one size and the schedule's generator advances by a
fixed amount per slot, because every packet is padded before it is queued; without
cells, a dummy is made for a recent length and gets the size of a bucket, which is a
length that some packet of the session had, recent or not (the padder's own pool is
never trimmed), and until the first table has been built 65 535 bytes; the session volume, the tester's
counts and the privacy budget agree with what was sent.

## 6. Disagreements between code and comments

| run | comment | what happens |
|---|---|---|
| `flow_stalled_peer` | 724 "never kept alive indefinitely", 906 "a stuck peer ... never leaks a flow" | the end of the source is looked for only while `pending` is below its cap; with a peer that stopped reading before, the backstop is never set |
| `mux_id_reuse` | 1455 "must not reuse a live id" | the bridge's close frees the id at the client only; after the counter has wrapped it is given to another circuit while reader and server entry of the first are live |
| `handshake_overread` | `crypto.rs` 228 "the two endpoints stay in lockstep because frames travel in order over TCP" | the server sends frames right behind its reply; a client's read may take the first bytes of one with it, `read_marked_message` (483) truncates them away, and no frame opens after that |

Behaviour of the models that a reader of the code may not expect, and that no run
is kept for:

*Flow.* Under Fixed and ByClass a session longer than its floor has its backstop
(908-912) in the past when its end is seen, so that queued cells are discarded
although the peer reads. Slots reserved for dummies pull a cell too, so the
correlator queue grows beyond the depth of one that 871 mentions. Under
Epoch the tail is not "the next epoch boundary after EOF" as the doc of `tail_targets`
(460) has it, but the next one after the class floor, as the comment inside says.
`read_sealed_frame` takes an end in the middle of a frame for a clean
one.

*Wire.* The guard of a relay goes with the first of its two tasks (1311), so
connections outlive their place, while 1135 says "bounds total upstream ORPort
connections". A stream that closes within the hold loses what it sent, though 1293
says "nothing to forward". A circuit that ends with a read error sends no
sentinel (1621) and keeps its id, while 1458 says "ids free up as circuits end". A
stream refused at the global cap (1202) is not remembered, and its next cell may
open a bridge in mid-stream; so may a cell for a relay that has ended (1241). A held
stream whose buffer and channel are full loses cells (1243) rather than being
slowed down as 1272 expects.

*Client.* A wire found in the map is used whatever key the circuit's bridge line
carries (1546). A circuit's reader that finds the wire dead returns Ok (1627), `select!`
drops its writer's handle (1579), and the writer keeps Tor's socket half: Tor
gets no end until the wire's stream map is dropped, which needs a new circuit to replace the
wire in the map. A circuit that Tor closes on a dead wire leaves its writer behind in the same
way. `is_alive` looks at the uplink only: after the receive task has met a
bad frame (1646) the wire stays in use and nothing comes back; the echoed sentinels are not
read, and no id is freed any more, though 1458 says "ids free up as circuits end". A circuit on a dead wire
whose Tor stays silent never ends.

*Handshake.* `crypto.rs` 413 speaks of "the current hour and its neighbours", but the clock is
read for each comparison: if the hour turns from h to h+1 before the last, the hours h, h-1
and h+2 are tried, and a message of a sender who is already in h+1 is rejected.
`SkewTolerated` states this exception and no other. A request that is replayed within the hour tolerance is answered each time: the
MAC bounds replay (`crypto.rs` 42-51, 96-99) and nothing remembers requests (562-600). So the
server is silent to who does not know its key only if he has recorded nobody who does.

*Server.* One failed accept ends the process. The loser of the race for the identity
file may find it still empty and exits, where the comment says "adopt theirs"; a
crash between create and write, or a failed write, leaves an empty file with
which every later start fails. `crypto.rs` 54-57 says that a bad handshake is closed
at once; it is black-holed. Flow slots of an ended connection outlive its permit.

*Traffic engine.* Without cells, dummies have 65 535 bytes until the padder has seen
`rebuild_interval` lengths (`optimal_padding.rs` 142, 161), the leak by size that
`composition.rs` 32-38 gives as the reason for cells. The padder's "rolling length pool"
(`optimal_padding.rs` 119) is never trimmed. `validate` accepts a `max_dummy_packets_per_burst` below the lowest
count of a regime, and the draw from the empty range panics. `inject_burst` returns
an error after queueing a part of the burst, charging the budget and not
advancing the regime. Nobody looks at the accountant's answer, so nothing is
throttled when the budget is exceeded. `pad_to_cell` draws from the clock's generator;
only because `ShapedSession` pads before it queues is the schedule independent of
the content, as `timing_correlator.rs` 216-218 says it is. With cells the bounder counts
packets before they are padded. After a failed write the lab logger drops rows
silently.

## 7. Not modelled, and plan

Not modelled: `correlation_attack.rs` and `bin/mixtor-correlate.rs`, statistics of
recorded traces in floating point with no state; the statistical tests of
`self_test.rs`; the shapes of random distributions (only their ranges matter to the
properties); `record_approx_query`, `UserPrivacyLedger` and the bidirectional wrappers,
which no code of the repository calls or which are two independent copies of
what is modelled; byte layouts, printed lines, the zeroing of dropped seeds.

Plan for the proofs that are left, in this order:

1. That the cells of `Mux` implement one `CellPipe` per circuit, in each direction, where
   `RoutingThroughout` has most of what is needed.
2. What is safety in the liveness properties: of `LogComplete`, that the rows of each thread
   are in the file in order and complete when the writer has been joined; of
   `WireDownReleasesStreams` and `EveryCircuitSettles`, that what they wait for is never undone.
