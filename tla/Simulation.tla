------------------------------ MODULE Simulation ------------------------------
(***************************************************************************)
(* The event schedule of the simulator's main (scratch/third.cc) around   *)
(* the routes of Routing: the flow file read line by line and started by  *)
(* ScheduleFlowInputs at each line's start time, the one TakeDownLink     *)
(* main schedules, the completion callback qp_finish that writes the FCT  *)
(* file and stops the simulator after the last flow, and the stop time.   *)
(*                                                                         *)
(* ns-3 runs one event at a time, the earliest first and, among events of *)
(* one time, the one scheduled first.  An event is a record of its kind,  *)
(* its time and its insertion rank uid: main inserts the first flow event *)
(* (1), the link failure (2), the buffer monitor (3) and                  *)
(* the stop (4); every event inserted while running ranks after these     *)
(* (5).  The transport is not modelled: a started queue pair may complete *)
(* at any later time, or never.                                            *)
(***************************************************************************)
EXTENDS Routing, SwitchConfig

CONSTANTS
    NodeId,         \* n.Get(i): the index of every node
    FlowFiles,      \* the flow files considered, as sequences of lines
    HeaderBytes,    \* GetStaticWholeHeaderSize() - IntHeader::GetStaticSize()
    LinkDownBase,   \* Seconds(2)
    LinkDownTime,   \* MicroSeconds(link_down_time); 0 schedules no failure
    StopTime,       \* Seconds(simulator_stop_time)
    QlenMonStart,   \* qlen_mon_start
    QlenMonInterval,\* qlen_mon_interval
    QlenMonEnd,     \* qlen_mon_end
    QlenDumpInterval \* qlen_dump_interval

\* One line of the flow file: src dst pg dport maxPacketCount start_time.
Line == [src : Nat, dst : Nat, pg : Nat, dport : Nat, size : Nat, start : Nat]

HostIds == {NodeId[h] : h \in Hosts}

ASSUME SimulationAssumption ==
    /\ NodeId \in [Nodes -> Nat]
    /\ Cardinality(HostIds) = Cardinality(Hosts)
    /\ \A fl \in FlowFiles :
         /\ fl \in Seq(Line)
         \* ReadFlowInput's NS_ASSERT: both ends are hosts
         /\ \A i \in DOMAIN fl : fl[i].src \in HostIds /\ fl[i].dst \in HostIds
         \* the files are sorted by start time (see the README)
         /\ \A i \in 1..(Len(fl) - 1) : fl[i].start <= fl[i + 1].start
    /\ {HeaderBytes, LinkDownBase, LinkDownTime, StopTime, QlenMonStart, QlenMonEnd} \subseteq Nat
    /\ {QlenMonInterval, QlenDumpInterval} \subseteq Nat \ {0}

NodeOf(id) == CHOOSE x \in Nodes : NodeId[x] = id

\* ip_to_node_id: (ip >> 8) & 0xffff of the <<hi, lo>> uint32_t.
IpToNodeId(ip) == (ip[1] % 256) * 256 + ip[2] \div 256

\* portNumder is a uint16_t counter per host pair, set to 10000 by main.
PortBase  == 10000
PortSpace == 65536

VARIABLES
    now,            \* Simulator::Now()
    file,           \* the flow file (flow_num = Len(file))
    fi,             \* flow_input.idx: lines started so far
    events,         \* the pending events of the modelled kinds
    portNumder,     \* portNumder[src][dst]
    qps,            \* the queue pairs RdmaClientHelper installed
    finished,       \* the queue pairs qp_finish has reported
    out,            \* the lines of the FCT file
    completed,      \* flow_completed
    stopped,        \* Simulator::Stop() has ended Run
    downLink,       \* {link_down_A, link_down_B}
    samples,        \* monitor_buffer calls so far: each adds one sample to
                    \* every port's QlenDistribution in queue_result
    dumped          \* the samples counted in the last block written to
                    \* qlen_output (the distributions are cumulative)

simVars == <<now, file, fi, events, portNumder, qps, finished, out,
             completed, stopped, downLink, samples, dumped>>
allVars == <<vars, simVars>>

Event(kind, at, uid) == [kind |-> kind, at |-> at, uid |-> uid]
Later == 5

\* The event Simulator::Run dispatches next.
Earliest(e, E) == \A d \in E : e.at < d.at \/ (e.at = d.at /\ e.uid <= d.uid)
NextEvent == CHOOSE e \in events : Earliest(e, events)
Due(kind) == ~stopped /\ NextEvent.kind = kind /\ NextEvent.at = now

\* QueuePairs still running at their receiver.
Live == {q \in qps : q.idx \notin finished}

\* The while loop of ScheduleFlowInputs starts lines fi+1..LastDue(fi+1):
\* those whose start_time is Now.
RECURSIVE LastDue(_)
LastDue(j) == IF j <= Len(file) /\ file[j].start = now THEN LastDue(j + 1) ELSE j - 1

PairOfLine(i) == <<file[i].src, file[i].dst>>

\* The queue pair of line i, given the value of portNumder when the loop
\* reaches it (port = portNumder[src][dst]++).
QpOf(i, port) ==
    [idx |-> i, sip |-> NodeIdToIp(file[i].src), dip |-> NodeIdToIp(file[i].dst),
     pg |-> file[i].pg, sport |-> port, dport |-> file[i].dport,
     size |-> file[i].size, start |-> now]

\* Mutant: the port counter is read but not incremented.
PortAfterNoIncrement(p, n) == portNumder[p]

\* portNumder[p] after n increments of the uint16_t.
PortAfter(p, n) == (portNumder[p] + n) % PortSpace

\* Mutant: Seconds(start_time) passed as the delay, without - Now().
DelayAbs(start) == start

\* Mutant: the next call scheduled at once, Seconds(0), whatever the line.
DelayZero(start) == 0

\* Seconds(flow_input.start_time) - Simulator::Now().
Delay(start) == start - now

\* Mutant: monitor_buffer reschedules itself also at qlen_mon_end.
MonitorContinuesAtEnd(t) == t <= QlenMonEnd

\* monitor_buffer schedules its next call: GetTimeStep() < qlen_mon_end.
MonitorContinues(t) == t < QlenMonEnd

\* monitor_buffer writes the distributions: GetTimeStep() % qlen_dump_interval == 0.
DumpDue(t) == t % QlenDumpInterval = 0

(***************************************************************************)
(* main after SetRoutingEntries: portNumder of every host pair is 10000,   *)
(* flow_input.idx = 0, the first line is read and its event scheduled,     *)
(* the link failure, the buffer monitor and the stop are scheduled.        *)
(***************************************************************************)
SimInit ==
    /\ Init
    /\ now = 0
    /\ file \in FlowFiles
    /\ fi = 0
    /\ downLink \in DownLinks
    /\ events = {Event("stop", StopTime, 4)}
                \cup (IF Len(file) > 0 THEN {Event("flow", now + Delay(file[1].start), 1)} ELSE {})
                \cup (IF LinkDownTime > 0
                      THEN {Event("link", LinkDownBase + LinkDownTime, 2)} ELSE {})
                \cup {Event("monitor", QlenMonStart, 3)}
    /\ portNumder = [p \in HostIds \X HostIds |-> PortBase]
    /\ qps = {} /\ finished = {} /\ out = {}
    /\ completed = 0
    /\ stopped = FALSE
    /\ samples = 0 /\ dumped = 0

(***************************************************************************)
(* ScheduleFlowInputs: every line due now gets the next port number of its *)
(* host pair and a queue pair (its RdmaClient starts at once); idx++ and   *)
(* ReadFlowInput move to the next line.  If lines remain, the function is  *)
(* scheduled again after start_time - Now; otherwise the file is closed.   *)
(* The window and RTT handed to the client (maxBdp and maxRtt, global_t = *)
(* 1) only feed the transport and are not modelled.                        *)
(***************************************************************************)
ScheduleFlowInputs ==
    /\ Due("flow")
    /\ LET last == LastDue(fi + 1)
           ahead(p, i) == Cardinality({k \in (fi + 1)..(i - 1) : PairOfLine(k) = p})
       IN /\ qps' = qps \cup {QpOf(i, PortAfter(PairOfLine(i), ahead(PairOfLine(i), i))) :
                             i \in (fi + 1)..last}
          /\ portNumder' = [p \in DOMAIN portNumder |-> PortAfter(p, ahead(p, last + 1))]
          /\ fi' = last
          /\ events' = (events \ {NextEvent})
                \cup (IF last < Len(file)
                      THEN {Event("flow", now + Delay(file[last + 1].start), Later)}
                      ELSE {})
    /\ UNCHANGED <<vars, now, file, finished, out, completed, stopped, downLink, samples, dumped>>

\* The scheduled TakeDownLink(n, link_down_A, link_down_B).
LinkDownEvent ==
    /\ Due("link")
    /\ TakeDownLink(downLink)
    /\ events' = events \ {NextEvent}
    /\ UNCHANGED <<now, file, fi, portNumder, qps, finished, out, completed,
                   stopped, downLink, samples, dumped>>

\* Simulator::Stop(Seconds(simulator_stop_time)).
StopEvent ==
    /\ Due("stop")
    /\ stopped' = TRUE
    /\ events' = events \ {NextEvent}
    /\ UNCHANGED <<vars, now, file, fi, portNumder, qps, finished, out, completed,
                   downLink, samples, dumped>>

\* Run moves to the time of the next event; a completion may come between.
Advance ==
    /\ ~stopped
    /\ NextEvent.at > now
    /\ now' = now + 1
    /\ UNCHANGED <<vars, file, fi, events, portNumder, qps, finished, out,
                   completed, stopped, downLink, samples, dumped>>

\* total_bytes: the payload plus one header (without INT) per packet.
TotalBytes(size) == size + ((size - 1) \div PayloadSize + 1) * HeaderBytes

\* The FCT line of queue pair q, finishing now, with the round trip and
\* bandwidth rtt and b.
FctLine(q, fct, rtt, b) ==
    [idx |-> q.idx, sip |-> q.sip, dip |-> q.dip, sport |-> q.sport,
     dport |-> q.dport, size |-> q.size, start |-> q.start, fct |-> fct,
     standalone |-> rtt + (TotalBytes(q.size) * 8 * NsPerSec) \div b]

\* Mutant: the FCT as startTime - Now().
FctSwapped(q) == q.start - now

\* Simulator::Now() - q->startTime.
Fct(q) == now - q.start

(***************************************************************************)
(* qp_finish(q): the node ids of q's addresses select base_rtt = pairRtt   *)
(* and b = pairBw, the line sip dip sport dport size start fct            *)
(* standalone_fct is written, DeleteRxQp removes the receiver's queue     *)
(* pair, and the last completion stops the simulator.                      *)
(***************************************************************************)
QpFinish(q) ==
    /\ ~stopped
    /\ q \in Live
    /\ now > q.start
    /\ LET sid == IpToNodeId(q.sip)
           did == IpToNodeId(q.dip)
       IN out' = out \cup {FctLine(q, Fct(q), pairRtt[NodeOf(sid), NodeOf(did)],
                                   pairBw[NodeOf(sid), NodeOf(did)])}
    /\ finished' = finished \cup {q.idx}
    /\ completed' = completed + 1
    /\ stopped' = (completed + 1 >= Len(file))
    /\ UNCHANGED <<vars, now, file, fi, events, portNumder, qps, downLink, samples,
                   dumped>>

(***************************************************************************)
(* monitor_buffer: one sample of every switch port's egress bytes is added *)
(* to its distribution, all distributions are written when Now is a        *)
(* multiple of qlen_dump_interval, and the next call is scheduled after    *)
(* qlen_mon_interval while Now < qlen_mon_end.  The queue lengths sampled  *)
(* are not modelled, only how many samples each written block counts.     *)
(***************************************************************************)
MonitorBuffer ==
    /\ Due("monitor")
    /\ samples' = samples + 1
    /\ dumped' = IF DumpDue(now) THEN samples + 1 ELSE dumped
    /\ events' = (events \ {NextEvent})
                \cup (IF MonitorContinues(now)
                      THEN {Event("monitor", now + QlenMonInterval, Later)} ELSE {})
    /\ UNCHANGED <<vars, now, file, fi, portNumder, qps, finished, out, completed,
                   stopped, downLink>>

Next ==
    \/ ScheduleFlowInputs
    \/ LinkDownEvent
    \/ StopEvent
    \/ MonitorBuffer
    \/ Advance
    \/ \E q \in qps : QpFinish(q)

Spec == SimInit /\ [][Next]_allVars

(***************************************************************************)
(* Simulator::Run dispatches every pending event, in order, until Stop:    *)
(* the event actions and the move of the clock are weakly fair.  A queue  *)
(* pair's completion depends on the transport, which is not modelled, so  *)
(* QpFinish is not fair.                                                   *)
(***************************************************************************)
FairSpec ==
    /\ Spec
    /\ WF_allVars(ScheduleFlowInputs) /\ WF_allVars(LinkDownEvent)
    /\ WF_allVars(StopEvent) /\ WF_allVars(MonitorBuffer) /\ WF_allVars(Advance)

-----------------------------------------------------------------------------
SimTypeOK ==
    /\ TypeOK
    /\ now \in Nat /\ stopped \in BOOLEAN
    /\ fi \in 0..Len(file) /\ finished \subseteq 1..fi /\ completed = Cardinality(finished)
    /\ portNumder \in [HostIds \X HostIds -> 0..(PortSpace - 1)]
    /\ \A l \in out : l.fct \in Nat /\ l.standalone \in Nat

(***************************************************************************)
(* ScheduleFlowInputs, run only at the start time of the line read last,   *)
(* starts the lines of the flow file in order, each with the fields of     *)
(* its own line at exactly its start_time, and no line's start time passes *)
(* while it is still unstarted: the reschedule delay start_time - Now      *)
(* lands on the next line, and lines sharing a start time start together. *)
(***************************************************************************)
FlowsStartOnTime ==
    /\ {q.idx : q \in qps} = 1..fi
    /\ \A q \in qps : /\ q.start = file[q.idx].start
                     /\ <<q.sip, q.dip, q.size>> =
                          <<NodeIdToIp(file[q.idx].src), NodeIdToIp(file[q.idx].dst),
                            file[q.idx].size>>
    /\ \A i \in (fi + 1)..Len(file) : file[i].start >= now

(***************************************************************************)
(* The receiver keys a queue pair by (sip, pg, sport), and qp_finish's     *)
(* DeleteRxQp removes the one with the finished flow's key: two running    *)
(* queue pairs to one host never share a key, because portNumder of the   *)
(* host pair advances once per flow, also for flows of one pair started    *)
(* by the same ScheduleFlowInputs call.                                    *)
(***************************************************************************)
QpKeysUnique ==
    \A q1, q2 \in Live :
        q1.idx # q2.idx /\ q1.dip = q2.dip =>
            <<q1.sip, q1.pg, q1.sport>> # <<q2.sip, q2.pg, q2.sport>>

(***************************************************************************)
(* qp_finish writes standalone_fct as the completion time of the flow      *)
(* alone on its path: base RTT plus its bytes at the bottleneck bandwidth. *)
(* This states that both terms are those of the route the flow finishes    *)
(* on, also after the scheduled TakeDownLink has moved it (pairBw is       *)
(* recomputed there; pairRtt is not).                                      *)
(***************************************************************************)
StandaloneFctOfRoute ==
    [][\A l \in out' \ out :
         LET s == NodeOf(IpToNodeId(l.sip))
             d == NodeOf(IpToNodeId(l.dip))
         IN l.standalone = pairDelay[s, d] * 2 + pairTxDelay[s, d]
                           + (TotalBytes(l.size) * 8 * NsPerSec) \div pairBw[s, d]
      ]_allVars

(***************************************************************************)
(* Once monitor_buffer has stopped rescheduling itself, the last block it  *)
(* wrote to qlen_output counts every sample taken: the call at            *)
(* qlen_mon_end is the last one and it dumps.  Nothing flushes the         *)
(* distributions when the run ends, so this needs qlen_mon_end to be a     *)
(* multiple of qlen_dump_interval on the monitor's grid (as the defaults   *)
(* are) and the run to last until qlen_mon_end.                           *)
(***************************************************************************)
MonitorSamplesDumped ==
    (~\E e \in events : e.kind = "monitor") => dumped = samples

(***************************************************************************)
(* Every line of the flow file whose start_time is before the stop time   *)
(* is eventually started by ScheduleFlowInputs: the reschedule delay      *)
(* start_time - Now brings the clock to the next line.                     *)
(***************************************************************************)
EveryFlowStarts ==
    \A f \in FlowFiles : \A i \in DOMAIN f :
        (file = f /\ f[i].start < StopTime) ~> fi >= i

====
