# TLA+ models of the Hawkeye-sim switch

These modules model the switch of the Hawkeye simulator. The code is in
`src/simulation/src/point-to-point/model/switch-node.{h,cc}` and
`switch-mmu.{h,cc}`. The modules also model three parts of
`src/simulation/scratch/third.cc`: the switch configuration rule, the
routing setup, and main's event schedule (flows started from the flow file,
the scheduled link failure, the completion callback `qp_finish`).

The switch forwards RDMA traffic under PFC (priority flow control). It keeps
byte accounting in an MMU, and it keeps the "RDMA NPA" telemetry tables that
Hawkeye reads when it diagnoses PFC pause spreading. Signal and polling
packets carry that diagnosis from switch to switch.

## 1. The system

### Parts and how they interact

| Part | Code | State | Operations |
|---|---|---|---|
| MMU | `SwitchMmu` (switch-mmu.cc) | `shared_used_bytes`; per (port, queue): `hdrm_bytes`, `ingress_bytes`, `paused`, `egress_bytes` and the queue lengths; config `buffer_size`, `reserve`, `headroom[]`, `pfc_a_shift[]`, `kmin/kmax/pmax[]`, `total_hdrm`, `total_rsrv` | Check/Update/RemoveFrom Ingress/Egress Admission, CheckShouldPause/Resume, SetPause/Resume, GetPfcThreshold, ShouldSendCN, Config* |
| Forwarding | `SwitchNode::SendToDev`, `SwitchNotifyDequeue` | routing table, tx counters | classify the priority; admit or drop; pause upstream; enqueue. On dequeue: release, ECN, resume |
| Telemetry | `SendToDev` (lines 315-386) | `m_flowTelemetryData`, `m_portTelemetryData`, `m_portToPortBytes(Slot)`, `m_slotIdx` | per admitted data packet: rotate and charge the port-to-port ring; update or restart the flow entry and the port entry |
| Signal/polling | `SendToDev` for l3Prot 0xFB / 0xFA | `m_lastEventID[]` | forward a signal downstream from a port that saw pauses, deduplicated by event id |
| Hashes | `EcmpHash` (murmur3_32), `FiveTupleHash`, `GetOutDev` | `m_ecmpSeed` | pure functions |
| Configuration | `third.cc` main, lines 906-935; `get_nic_rate` | | per port: ECN thresholds by rate; headroom = rate·delay/8/1e9·3; `pfc_a_shift`; then `ConfigNPort`, `ConfigBufferSize` |
| Routing | `third.cc`: `CalculateRoute(s)`, `SetRoutingEntries`, `TakeDownLink`, and the pairRtt loop of main | `nextHop`, `pairDelay`, `pairTxDelay`, `pairBw`, `pairRtt`, the switches' tables | BFS from every host; the tables are filled from it; a link goes down and the routes are recomputed |
| Event schedule | `third.cc`: `ReadFlowInput`, `ScheduleFlowInputs`, `qp_finish`, `node_id_to_ip`, `ip_to_node_id`, main lines 1092-1126 | `flow_input`, `portNumder`, `flow_completed`, the FCT file, the pending ns-3 events | start the flows due now and reschedule for the next line; take the link down at its time; write a flow's FCT line on completion and stop after the last one |

An arrival runs `SwitchReceiveFromDevice`, which calls `SendToDev` as one
simulator event. `SendToDev` calls into the MMU and then writes the
telemetry. It then hands the packet to the egress `QbbNetDevice`. That
device's scheduler later calls `SwitchNotifyDequeue`, which calls back into
the MMU. The device stops serving a queue while a downstream PFC pause holds
it. The switch's own PFC frames go upstream.

Events run one at a time. The concurrency is therefore the interleaving of
events: arrivals on different ports, departures from different queues, PFC
frames, signal and polling packets, and the passage of time.

`PROJECT.json` lists each hazard at the line where it bites, with the
properties that cover it.

## 2. Modules

| Module | Models | Shape |
|---|---|---|
| `SwitchMmu` | switch-mmu.cc | The MMU state is one record. Each method is an operator (record → record, or record → value), so a handler composes the calls in its own order. `U32` is the `uint32_t` wrap. |
| `SwitchTelemetry` | the telemetry part of `SendToDev` | Operators on one flow entry, one port entry and the port-to-port record. Five-tuples are flows (model values), and the flow hash is a constant `FlowBucket`. |
| `SwitchNode` | `SendToDev`, `SwitchNotifyDequeue`, `CheckAndSendPfc/Resume`, the signal and polling branches, the ctor | The composition: it EXTENDS `SwitchMmu` and INSTANCEs `SwitchTelemetry`. |
| `SwitchConfig` | third.cc's switch configuration loop and `get_nic_rate` | Operators. `ConfigSwitch` returns SwitchMmu's configuration constants. |
| `MCSwitchNode` | | Model values. It takes `Headroom`, `PfcShift`, `Kmin`, `Kmax` and `PmaxPct` from `ConfigSwitch` (ports of rate 4, link delay 2, NIC rate 1, so headroom 3 and shift 1), and the flows' telemetry buckets from `FiveTupleHash` of their five-tuples. |
| `Routing` | third.cc routing and `SwitchNode::GetOutDev`'s table lookup | Operators and two steps: `Init` computes the routes, and `TakeDownLink(l)` recomputes them. |
| `Simulation` | third.cc's event schedule | EXTENDS `Routing` and `SwitchConfig`: main's events around the routes. |
| `MCRouting` | | Two hosts and four switches, with two equal-cost paths of unequal delay and bandwidth, and two flow files. |
| `EcmpHash` | `EcmpHash`, `FiveTupleHash`, `GetOutDev`'s key | A `uint32_t` is a pair of 16-bit halves, since TLC integers are signed 32-bit. |
| `MCEcmpHash` | | A reference murmur3_32 over bit vectors. An `ASSUME` checks it against published vectors. The key grows byte by byte. |

### Variables and actions of `SwitchNode`

Variables:
- `mmu`: the MMU record.
- `egq[port, q]`: the egress device's FIFO.
- `egressPaused[port, q]`: the downstream PFC state.
- `now`: the time.
- `pp`, `flowTel`, `portTel`: the telemetry tables.
- `lastEventID`: `m_lastEventID`.
- `sent` and `events`: bounded counters of what has arrived.
- `accepted` and `signalled`: histories that the properties are stated against.

Actions:
- `SendToDev`: ends in `SendToDevControl`, `SendToDevDrop` or
  `SendToDevAdmit`.
  - `SendToDevAdmit` runs Update ingress, Update egress, `CheckAndSendPfc`,
    the ring, the flow entry, the port entry and the enqueue, in the code's
    order.
- `ReceiveEvent`: `SendToDevSignal` (0xFB) or `SendToDevPolling` (0xFA).
  Both share `PauseEvidence` and the `FreshEvent` deduplication.
- `SwitchNotifyDequeue`: Remove ingress, Remove egress, then
  `CheckAndSendResume`.
- `ReceivePause`, `ReceiveResume`: PFC frames from downstream.
- `Tick`: time advances.

`OutputTelemetry(port)` is not an action: it changes no state but the
telemetry file. It gives the flow buckets that the code prints for the
port, and `TelemetryReportsEpochs` checks them in every state.

### Routing

`rank` is the order of the nodes' heap addresses. Chosen in `Init`, it fixes
the iteration order of the `std::map<Ptr<Node>, ...>` neighbour maps, which
decides which equal-length path `CalculateRoute` records first. `Relax` and
`BfsLoop` are the BFS. `PairOf` keeps the old pairDelay of a node that
became unreachable, as the code does. The orders checked are the constant
`Orders`: MCRouting enumerates the 24 orders of the four switches and puts
the hosts last. Host ranks cannot matter: a host is never enqueued, and
relaxing a host from a switch changes only the host's own entries.

### The event schedule (`Simulation`)

ns-3 runs the earliest pending event first and, among events of one time,
the one inserted first. An event is a record of its kind, its time and its
insertion rank: main inserts the first flow event (1), the link failure (2),
the buffer monitor (3) and the stop (4). Every event inserted
while the simulator runs comes after these (5). So a flow line due at the
time of the link failure starts after the failure, unless it is the first
line of the file.

- `SimInit`: the routes (`Init` of Routing), `portNumder` = 10000 for every
  host pair, `flow_input.idx` = 0 and the three events main schedules.
- `ScheduleFlowInputs`: the whole while loop. Every line whose start time is
  now gets `portNumder[src][dst]++` (a `uint16_t`, `PortAfter`) and a queue
  pair. The function then reschedules itself after
  `start_time - Now()` (`Delay`) or closes the file.
- `LinkDownEvent`: Routing's `TakeDownLink` on the configured link.
- `QpFinish(q)`: maps the queue pair's addresses back to node ids
  (`IpToNodeId`) and reads `pairRtt` and `pairBw`. It writes the FCT line,
  removes the receiver's queue pair (`Live`), counts the completion, and
  stops the simulator at `flow_completed >= flow_num`.
- `StopEvent`: `Simulator::Stop(Seconds(simulator_stop_time))`.
- `MonitorBuffer`: `monitor_buffer` adds one sample to every switch port's
  distribution (`samples`). When Now is a multiple of
  `qlen_dump_interval` (`DumpDue`) it writes the cumulative distributions
  (`dumped`). It reschedules itself while `Now < qlen_mon_end`
  (`MonitorContinues`). The sampled queue lengths are not modelled, only
  how many samples each written block counts. MCRouting.cfg uses start 1,
  interval 1, end 2 and dump interval 2. These are aligned like the
  defaults (2e9, 100, 2.1e9, 1e8).
- `Advance`: the time moves on when no event is due. The transport is not
  modelled, so a started queue pair may finish at any later time, or never.

The flow files are assumed sorted by start time (see Not modelled).

## 3. Runs

| Run | cfg | Expect | Checks | Shows |
|---|---|---|---|---|
| buffer_pfc | MCPfcLiveness.cfg | pass | TypeOK, BufferAccounting, SharedPoolSound, DropOnlyWhenPaused, PausedEventuallyResumed | bytes are conserved; the shared counter is exact; nothing is refused on a queue that has not paused; every pause is undone |
| telemetry_tables | MCTelemetry.cfg | pass | PortEntryCount, FlowEntryCount, PortToPortIsSumOfSlots | entries count exactly their latest epoch, and the ring sums |
| signal_telemetry | MCSignal.cfg | pass | TelemetryReportsEpochs | signal and polling packets of any ids in any order; the telemetry printed for a port lists exactly the flow buckets of the current and of the previous epoch |
| routing_after_link_down | MCRouting.cfg | pass | SimTypeOK, RoutesFollowShortestUpPaths, PairFiguresOnOnePath, FlowsStartOnTime, QpKeysUnique, MonitorSamplesDumped, EveryFlowStarts | under `FairSpec`, after the scheduled link failure, tables hold exactly the up neighbours one hop closer, and the pair figures come from one shortest path; every flow line starts in order at exactly its start time; no two running queue pairs to one host share the key DeleteRxQp removes by; every line starting before the stop time is eventually started; once the monitor stops rescheduling, its last dump counts every sample. Nothing flushes it at the end, so this needs `qlen_mon_end` on the dump grid |
| ecmp_hash | MCEcmpHash.cfg | pass | EcmpHashIsMurmur3 | EcmpHash is murmur3_32 on every key of up to 8 bytes |
| routing_stale_rtt | MCRoutingRtt.cfg | violation | StandaloneFctOfRoute | a flow finishing after TakeDownLink gets a standalone_fct mixing the new route's bandwidth with the old route's RTT (pairRtt is not recomputed) |
| hash_uninitialised_bytes | MCHashJunk.cfg | violation | HashesIgnoreUninitialisedBytes | FiveTuple padding and the CNP key's unwritten word are hashed |
| buffer_overcommit | MCOvercommit.cfg | violation | BufferNeverOvercommitted | reserve and headroom are budgeted per port but granted per queue |
| restarted_entries | MCRestartedEntries.cfg | violation | RestartedEntriesFresh | a restarted entry forgets a paused packet or keeps a stale depth |
| port_timestamp_wrap | MCPortWrap.cfg | violation | PortEntryCount | the port timestamp is `uint32_t` (`TimeWrap` = 4 stands for 2^32) |
| port_to_port_window | MCPortToPortWindow.cfg | violation | PortToPortWindowed | skipped ring slots keep stale bytes |
| signal_stale_telemetry | MCSignalStale.cfg | violation | SignalOnlyOnRecentPause | a signal is sent on a port entry two epochs old |

`PROJECT.json` gives each violation's finding, with the code line.

### Bounds

The switch runs use two ports and queues {0, 1, 3}: control, data, and
the signal queue. Bytes are scaled down: buffer 14, reserve 1, headroom 3,
free pool 14 - 6 - 2 = 6. A few packets then cross reserve, shared pool,
headroom and threshold.

| cfg | Bound | Why it is enough |
|---|---|---|
| MCPfcLiveness | three packets of sizes 1 and 2 on two flows of one priority, one per port | reaches every admission branch, a pause and a refusal |
| MCTelemetry | three packets over five time steps, epoch 2 | three epochs, so each double-buffer slot is reused; F1 and F2 collide in bucket 3558 of FiveTupleHash (an `ASSUME` checks the bucket table against the hash once) |
| MCSignal | two data packets and two signal/polling packets with ids {1, 2, 4}, window 1 | ids inside, at and past the window, on both branches |
| MCOvercommit | buffer 12 and reserve 3 (pool 0), packets of size 3 | three queues, two of them on one port |
| MCRouting | one link down at time 2, any of three, under all 24 switch orders; stop at time 4; two flow files | the failure breaks either equal-cost path or cuts a host off; one file starts two flows of one pair at one time and a reverse flow at the failure's time, the other a flow before and one after the failure |
| MCEcmpHash | keys of up to 8 bytes over {1, 200}, seeds 0 and 0x9747b28c | every tail length 0-3, with one and two blocks |

Switch runs bound arrivals by `MaxPackets` and time by `MaxTime`. Routing
bounds the link downs by `MaxLinkDowns`, and Simulation ends at
`StopTime`, as `Simulator::Stop` does. Once these are spent and the queues
drain, the system is idle or stopped. That is a real end state, so the cfgs
say `CHECK_DEADLOCK FALSE`.

### Fairness

- `SwitchNotifyDequeue(port, q)` is strongly fair. The QbbNetDevice
  scheduler serves every non-empty queue that is not paused, round-robin,
  and a queue that a downstream pause toggles is served whenever it is
  enabled.
- `ReceiveResume` is weakly fair. A downstream pause ends when that
  neighbour's queue drains, which is the assumption PFC deadlock-freedom
  rests on.
- Arrivals, events and `Tick` have no fairness.
- Simulation (`FairSpec`): the event actions and `Advance` are weakly
  fair, because `Simulator::Run` dispatches every pending event until Stop.
  `QpFinish` is not fair, because completions depend on the transport,
  which is not modelled.

### Mutants

Each property of a passing run fails under a plausible bug in the code it
covers. `PROJECT.json` lists them:

| Mutant | Breaks |
|---|---|
| queue-length increment missing | TypeOK of buffer_pfc |
| headroom never released | BufferAccounting |
| the whole packet charged to the shared pool | SharedPoolSound |
| pause ignoring headroom | DropOnlyWhenPaused |
| resume without the `shared_used == 0` escape | PausedEventuallyResumed |
| age test off by one epoch | PortEntryCount |
| no five-tuple compare | FlowEntryCount |
| rotation without subtraction | PortToPortIsSumOfSlots |
| FCT as `startTime - Now()` | SimTypeOK |
| reschedule delay `Seconds(start_time)` without `- Now()` | FlowsStartOnTime |
| `portNumder` read but not incremented | QpKeysUnique |
| monitor rescheduled also at `qlen_mon_end` | MonitorSamplesDumped |
| reschedule delay 0 | EveryFlowStarts |
| "epoch now" rows filtered by the age of the whole buffer | TelemetryReportsEpochs |
| BFS through down links | RoutesFollowShortestUpPaths |
| no min of the path bandwidth | PairFiguresOnOnePath |
| tail bytes read forwards | EcmpHashIsMurmur3 |

## 4. Not modelled

- **An abstract buffer for `SwitchNode` to refine**: a FIFO-with-pause
  specification would add nothing checkable. Refusing a packet changes no
  queue or flag, so it is a stuttering step. That drops happen only at a
  paused queue is `DropOnlyWhenPaused`, and FIFO order holds by the
  identity mapping of the queues.
- **A property of the event-id deduplication**: `FreshEvent` models the rule
  with the `uint32_t` sum, but a property would restate it. Its edges are
  an id of 0 (kept as "none forwarded") and `last + 500000` wrapping past
  2^32. Reaching them needs ids from the hosts' RDMA stack, which is outside
  src/.

- **`log2apprx` and the HPCC/PINT INT update**: floating point and `rand()`.
- **The text of `OutputTelemetry`**: which flow rows it prints is the operator
  `OutputTelemetry`; the formatting, the port rows and the port-to-port
  bytes are left out.
- **`m_bytes` and the tx counters**: no decision reads them.
- **`third.cc` file parsing and `get_pfc`**: I/O. Of `monitor_buffer`,
  only the sampled queue lengths and the text are left out. `buffer_size` and `reserve` stay cfg constants.
- **The window and RTT handed to `RdmaClientHelper`**: they feed only the
  transport.
- **Unsorted flow files**: `Seconds(start_time) - Now()` is then negative.
  ns-3's `Schedule` asserts on that in debug builds and otherwise runs the
  event in the past. That is ns-3 core code outside src/, so the model
  assumes sorted files.
- **The `uint16_t` wrap of `portNumder`**: it is in the model (`PortAfter`),
  but reaching it needs 55536 flows of one host pair.
- **`QbbNetDevice` and `RdmaHw`**: not in src/. Their queue and pause
  behaviour is the environment of `SwitchNode`.

## 5. Plan for later sittings

1. ECN: relate `ShouldSendCN`'s outcome set to `egress_bytes` over
   kmin/kmax, as computed by `ConfigSwitch`.
2. A short-link configuration, with headroom below the packet size, checked
   against DropOnlyWhenPaused.
3. Larger switch instances (three ports, four packets) under symmetry on
   flows, where the time allows.
4. `RedistributeQp` and the effect of TakeDownLink on running queue pairs,
   if the RDMA host code is brought into src/.
