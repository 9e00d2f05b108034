------------------------------ MODULE SwitchNode ------------------------------
(***************************************************************************)
(* The forwarding engine of a switch (switch-node.cc) composed with its    *)
(* MMU (SwitchMmu) and its telemetry tables (SwitchTelemetry).             *)
(*                                                                         *)
(* Two handlers run to completion, one event at a time:                    *)
(*   SendToDev            a packet arrives (via SwitchReceiveFromDevice);  *)
(*   SwitchNotifyDequeue  the egress device has picked a packet to send.   *)
(* The environment of the switch is: the flows offering packets, the       *)
(* egress devices' FIFO queues and their scheduler, the PFC frames the     *)
(* downstream neighbours send (which pause an egress queue), and the       *)
(* advance of simulated time.                                              *)
(***************************************************************************)
EXTENDS SwitchMmu, Sequences

CONSTANTS
    Flows,          \* five-tuples offering packets
    FlowIn,         \* the ingress device of a flow
    FlowOut,        \* the egress device GetOutDev returns for it
    FlowProt,       \* l3Prot of the flow: "tcp", "udp" or "ack"
    FlowPg,         \* the pg field its header carries
    AckHighPrio,    \* m_ackHighPrio
    Sizes,          \* packet sizes offered
    NoFlow, Buckets, FlowBucket, EpochTime, PortToPortSlot, TimeWrap,
    EventIds,       \* eventID values signal and polling packets carry
    EventWindow,    \* 500000: the deduplication window of event ids
    MaxPackets,     \* bound: packets offered in a behaviour
    MaxTime,        \* bound: last simulated time step
    MaxEvents       \* bound: signal and polling packets in a behaviour

ASSUME NodeAssumption ==
    /\ \A f \in Flows : /\ FlowIn[f] \in Ports /\ FlowOut[f] \in Ports
                        /\ FlowProt[f] \in {"tcp", "udp", "ack"}
                        /\ FlowPg[f] \in Queues
    /\ AckHighPrio \in BOOLEAN
    /\ Sizes \subseteq Nat \ {0}
    /\ EventIds \subseteq Nat \ {0} /\ EventWindow \in Nat
    /\ MaxPackets \in Nat /\ MaxTime \in Nat /\ MaxEvents \in Nat

Tel == INSTANCE SwitchTelemetry WITH TPorts <- Ports

VARIABLES
    mmu,            \* the SwitchMmu runtime record
    egq,            \* egress device queue per (port, queue): packets in FIFO order
    egressPaused,   \* GetEgressPaused: a downstream PFC pause holds (port, queue);
                    \* never set for the control queue 0
    now,            \* Simulator::Now()
    pp,             \* m_portToPortBytes, m_portToPortBytesSlot, m_slotIdx
    flowTel,        \* m_flowTelemetryData[port][epoch][bucket]
    portTel,        \* m_portTelemetryData[epoch][port]
    sent,           \* packets offered so far (bounded by MaxPackets)
    accepted,       \* history: the admitted data packets, in order
    lastEventID,    \* m_lastEventID[port]
    signalled,      \* history: the signals sent downstream (SendSignal)
    events          \* signal and polling packets received so far

signalVars == <<lastEventID, signalled, events>>
vars == <<mmu, egq, egressPaused, now, pp, flowTel, portTel, sent, accepted,
          signalVars>>
telemetryVars == <<pp, flowTel, portTel, accepted>>

Packet == [flow : Flows, size : Sizes]

\* What the history records of an admitted data packet.
Record == [flow : Flows, size : Sizes, t : 0..MaxTime,
           depth : Nat, paused : BOOLEAN]

-----------------------------------------------------------------------------
(* Priority classification in SendToDev.                                   *)
QIndexOf(f) ==
    IF FlowProt[f] = "ack" /\ AckHighPrio THEN 0
    ELSE IF FlowProt[f] = "tcp" THEN 1
    ELSE FlowPg[f]

\* CheckAndSendPfc / CheckAndSendResume: the decision and the flag; the
\* frame itself goes to the upstream neighbour.
CheckAndSendPfc(m, inDev, q) ==
    IF CheckShouldPause(m, inDev, q) THEN SetPause(m, inDev, q) ELSE m

CheckAndSendResume(m, inDev, q) ==
    IF CheckShouldResume(m, inDev, q) THEN SetResume(m, inDev, q) ELSE m

Init ==
    /\ mmu = InitMmu
    /\ egq = [pq \in PortQueue |-> <<>>]
    /\ egressPaused = [pq \in PortQueue |-> FALSE]
    /\ now = 0
    /\ pp = Tel!InitPortToPort
    /\ flowTel = [x \in Ports \X Tel!Epochs \X Buckets |-> Tel!InitFlowEntry]
    /\ portTel = [x \in Tel!Epochs \X Ports |-> Tel!InitPortEntry]
    /\ sent = 0
    /\ accepted = <<>>
    /\ lastEventID = [p \in Ports |-> 0]
    /\ signalled = {}
    /\ events = 0

-----------------------------------------------------------------------------
(* SendToDev for a packet of flow f: the three ways the handler ends.      *)

\* Control priority bypasses admission and telemetry.
SendToDevControl(f, size) ==
    LET q == QIndexOf(f) IN
    /\ q = 0
    /\ egq' = [egq EXCEPT ![FlowOut[f], 0] = Append(@, [flow |-> f, size |-> size])]
    /\ UNCHANGED <<mmu, telemetryVars>>

\* Admission refused: silent drop.
SendToDevDrop(f, size) ==
    LET q == QIndexOf(f) IN
    /\ q # 0
    /\ ~ (CheckIngressAdmission(mmu, FlowIn[f], q, size)
          /\ CheckEgressAdmission(mmu, FlowOut[f], q, size))
    /\ UNCHANGED <<mmu, egq, telemetryVars>>

\* Admitted: charge both sides, maybe pause upstream, update telemetry,
\* hand the packet to the egress device.
SendToDevAdmit(f, size) ==
    LET q      == QIndexOf(f)
        inDev  == FlowIn[f]
        idx    == FlowOut[f]
        m1     == UpdateEgressAdmission(
                      UpdateIngressAdmission(mmu, inDev, q, size), idx, q, size)
        m2     == CheckAndSendPfc(m1, inDev, q)
        qlen   == m2.egress_queue_length[idx, q]
        paused == egressPaused[idx, q]
        epoch  == Tel!GetEpochIdx(now)
        bucket == FlowBucket[f]
    IN
    /\ q # 0
    /\ CheckIngressAdmission(mmu, inDev, q, size)
    /\ CheckEgressAdmission(mmu, idx, q, size)
    /\ mmu' = m2
    /\ pp' = Tel!AddPortToPort(pp, now, inDev, idx, size)
    /\ flowTel' = [flowTel EXCEPT ![idx, epoch, bucket] =
                      Tel!UpdateFlowEntry(@, f, now, paused, qlen)]
    /\ portTel' = [portTel EXCEPT ![epoch, idx] =
                      Tel!UpdatePortEntry(@, now, paused, qlen)]
    /\ egq' = [egq EXCEPT ![idx, q] = Append(@, [flow |-> f, size |-> size])]
    /\ accepted' = Append(accepted, [flow |-> f, size |-> size, t |-> now,
                                     depth |-> qlen - 1, paused |-> paused])

SendToDev ==
    /\ sent < MaxPackets
    /\ sent' = sent + 1
    /\ \E f \in Flows, size \in Sizes :
          \/ SendToDevControl(f, size)
          \/ SendToDevDrop(f, size)
          \/ SendToDevAdmit(f, size)
    /\ UNCHANGED <<egressPaused, now, signalVars>>

(***************************************************************************)
(* Sustained-pause signalling: the branches of SendToDev for signal (0xFB) *)
(* and polling (0xFA) packets.  Both read the port telemetry of the        *)
(* current epoch's slot and of the other slot of the double buffer, and    *)
(* the downstream pause of priority 3, and share m_lastEventID to          *)
(* deduplicate event ids.                                                  *)
(***************************************************************************)
SignalQueue == 3

PauseEvidence(idx) ==
    LET epoch == Tel!GetEpochIdx(now) IN
    \/ portTel[epoch, idx].pfcPausedPacketNum > 0
    \/ portTel[(epoch + 1) % Tel!EpochNum, idx].pfcPausedPacketNum > 0
    \/ SignalQueue \in Queues /\ egressPaused[idx, SignalQueue]

\* event_id > m_lastEventID[idx] + 500000, in uint32_t, or none forwarded yet.
FreshEvent(idx, e) ==
    e > U32(lastEventID[idx] + EventWindow) \/ lastEventID[idx] = 0

\* The signals sent on the ports of Out for event e.
Signal(Out, e) ==
    /\ lastEventID' = [idx \in Ports |-> IF idx \in Out THEN e ELSE lastEventID[idx]]
    /\ signalled' = signalled \cup
                    {[port |-> idx, id |-> e, t |-> now, seen |-> Len(accepted),
                      blocked |-> SignalQueue \in Queues
                                  /\ egressPaused[idx, SignalQueue]] : idx \in Out}

\* A signal packet from inDev is consumed; it is passed on to every port
\* that carried traffic from inDev and shows pause evidence.
SendToDevSignal(inDev, e) ==
    /\ Signal({idx \in Ports : /\ pp.bytes[inDev, idx] > 0
                               /\ PauseEvidence(idx)
                               /\ FreshEvent(idx, e)}, e)
    /\ UNCHANGED egq

\* A polling packet of flow f signals its egress port if that port shows
\* pause evidence, then is forwarded on the control priority.
SendToDevPolling(f, e) ==
    LET idx == FlowOut[f] IN
    /\ IF PauseEvidence(idx) /\ FreshEvent(idx, e)
       THEN Signal({idx}, e)
       ELSE UNCHANGED <<lastEventID, signalled>>
    /\ \E size \in Sizes :
          egq' = [egq EXCEPT ![idx, 0] = Append(@, [flow |-> f, size |-> size])]

(***************************************************************************)
(* OutputTelemetry(port, inport, isSignal), which both branches call: of   *)
(* the flow table it prints, for the current epoch's slot ("epoch now")    *)
(* and the other slot ("epoch last"), the buckets that hold a five-tuple   *)
(* (srcIp != 0) updated at most one, resp. two, epochs ago.  It changes no *)
(* state; the text, the port rows and the port-to-port bytes it prints are *)
(* left out.                                                               *)
(***************************************************************************)
FlowRows(port, slot, maxAge) ==
    {b \in Buckets : /\ flowTel[port, slot, b].tuple # NoFlow
                     /\ now - flowTel[port, slot, b].lastTimeStep <= maxAge}

\* Mutant: the "epoch now" rows filtered by the age of the whole buffer.
OutputTelemetryNowWholeCycle(port) ==
    LET epoch == Tel!GetEpochIdx(now) IN
    [nowRows  |-> FlowRows(port, epoch, EpochTime * Tel!EpochNum),
     lastRows |-> FlowRows(port, (epoch + Tel!EpochNum - 1) % Tel!EpochNum,
                           EpochTime * Tel!EpochNum)]

OutputTelemetry(port) ==
    LET epoch == Tel!GetEpochIdx(now) IN
    [nowRows  |-> FlowRows(port, epoch, EpochTime * (Tel!EpochNum - 1)),
     lastRows |-> FlowRows(port, (epoch + Tel!EpochNum - 1) % Tel!EpochNum,
                           EpochTime * Tel!EpochNum)]

ReceiveEvent ==
    /\ events < MaxEvents
    /\ events' = events + 1
    /\ \E e \in EventIds :
          \/ \E inDev \in Ports : SendToDevSignal(inDev, e)
          \/ \E f \in Flows : SendToDevPolling(f, e)
    /\ UNCHANGED <<mmu, egressPaused, now, telemetryVars, sent>>

(***************************************************************************)
(* SwitchNotifyDequeue(ifIndex, qIndex, p): the device has taken the head  *)
(* of queue (ifIndex, qIndex).  For a data queue it releases both sides'   *)
(* accounting and maybe resumes the ingress queue.  The ECN decision       *)
(* (ShouldSendCN) only rewrites the departing packet's header.             *)
(***************************************************************************)
SwitchNotifyDequeue(ifIndex, qIndex) ==
    /\ egq[ifIndex, qIndex] # <<>>
    /\ ~ egressPaused[ifIndex, qIndex]
    /\ LET p     == Head(egq[ifIndex, qIndex])
           inDev == FlowIn[p.flow]
           m1    == RemoveFromEgressAdmission(
                        RemoveFromIngressAdmission(mmu, inDev, qIndex, p.size),
                        ifIndex, qIndex, p.size)
       IN mmu' = IF qIndex # 0 THEN CheckAndSendResume(m1, inDev, qIndex) ELSE mmu
    /\ egq' = [egq EXCEPT ![ifIndex, qIndex] = Tail(@)]
    /\ UNCHANGED <<egressPaused, now, telemetryVars, sent, signalVars>>

(* The downstream neighbour's PFC frames pause and resume an egress queue. *)
ReceivePause(port, q) ==
    /\ ~ egressPaused[port, q]
    /\ egressPaused' = [egressPaused EXCEPT ![port, q] = TRUE]
    /\ UNCHANGED <<mmu, egq, now, telemetryVars, sent, signalVars>>

ReceiveResume(port, q) ==
    /\ egressPaused[port, q]
    /\ egressPaused' = [egressPaused EXCEPT ![port, q] = FALSE]
    /\ UNCHANGED <<mmu, egq, now, telemetryVars, sent, signalVars>>

Tick ==
    /\ now < MaxTime
    /\ now' = now + 1
    /\ UNCHANGED <<mmu, egq, egressPaused, telemetryVars, sent, signalVars>>

Next ==
    \/ SendToDev
    \/ ReceiveEvent
    \/ \E port \in Ports, q \in Queues : SwitchNotifyDequeue(port, q)
    \/ \E port \in Ports, q \in DataQueues : ReceivePause(port, q) \/ ReceiveResume(port, q)
    \/ Tick

Spec == Init /\ [][Next]_vars

(***************************************************************************)
(* Fairness.  The egress device serves every queue that stays non-empty    *)
(* and is unpaused infinitely often (its scheduler is round-robin over     *)
(* unpaused queues), so dequeue is strongly fair; a downstream neighbour   *)
(* that paused a queue eventually resumes it, so resume is weakly fair.    *)
(* Arrivals and time need no fairness.                                     *)
(***************************************************************************)
FairSpec ==
    /\ Spec
    /\ \A port \in Ports, q \in Queues : SF_vars(SwitchNotifyDequeue(port, q))
    /\ \A port \in Ports, q \in DataQueues : WF_vars(ReceiveResume(port, q))

-----------------------------------------------------------------------------
(* Properties.                                                             *)

TypeOK ==
    /\ mmu \in [shared_used_bytes : Nat,
                hdrm_bytes : [PortQueue -> Nat], ingress_bytes : [PortQueue -> Nat],
                paused : [PortQueue -> BOOLEAN], egress_bytes : [PortQueue -> Nat],
                ingress_queue_length : [PortQueue -> Nat],
                egress_queue_length : [PortQueue -> Nat]]
    /\ egq \in [PortQueue -> Seq(Packet)]
    /\ egressPaused \in [PortQueue -> BOOLEAN]
    /\ now \in 0..MaxTime /\ sent \in 0..MaxPackets
    /\ accepted \in Seq(Record)
    /\ lastEventID \in [Ports -> {0} \cup EventIds]
    /\ signalled \subseteq [port : Ports, id : EventIds, t : 0..MaxTime,
                            seen : Nat, blocked : BOOLEAN]
    /\ events \in 0..MaxEvents

\* The packets buffered in the switch that entered at port p on queue q.
BufferedFrom(p, q) ==
    {oi \in UNION {{o} \X DOMAIN egq[o, q] : o \in Ports} :
        FlowIn[egq[oi[1], q][oi[2]].flow] = p}

\* Sum of F over a finite set.
Total(S, F(_)) == MapThenSumSet(F, S)

(***************************************************************************)
(* Byte conservation between the MMU and the packets it admitted: for each *)
(* ingress (port, queue) the reserved/shared bytes plus the headroom bytes *)
(* are exactly the bytes of its packets still buffered, and each egress    *)
(* queue's counters are exactly its queue.  Arrivals and departures of     *)
(* different ingress queues interleave in any order, and a departure       *)
(* releases headroom first whichever pool its own packet was charged to.   *)
(***************************************************************************)
BufferAccounting ==
    \A p \in Ports, q \in DataQueues :
        /\ mmu.ingress_bytes[p, q] + mmu.hdrm_bytes[p, q]
               = Total(BufferedFrom(p, q), LAMBDA oi : egq[oi[1], q][oi[2]].size)
        /\ mmu.ingress_queue_length[p, q] = Cardinality(BufferedFrom(p, q))
        /\ mmu.egress_bytes[p, q]
               = Total(DOMAIN egq[p, q], LAMBDA i : egq[p, q][i].size)
        /\ mmu.egress_queue_length[p, q] = Len(egq[p, q])

(***************************************************************************)
(* The global shared-pool counter equals the sum over all ingress queues   *)
(* of the bytes above their reserve, and never exceeds the pool left after *)
(* headroom and reserve, so GetPfcThreshold's unsigned subtraction never   *)
(* wraps.  Update charges only the part of a packet above the reserve      *)
(* line; Remove releases only the part that came from above it.            *)
(***************************************************************************)
SharedPoolSound ==
    /\ mmu.shared_used_bytes
           = Total(Ports \X DataQueues, LAMBDA pq : GetSharedUsed(mmu, pq[1], pq[2]))
    /\ mmu.shared_used_bytes + TotalHdrm + TotalRsrv <= BufferSize

(***************************************************************************)
(* Lossless: whenever the MMU would refuse a packet of some size at an     *)
(* ingress queue, that queue has already sent PFC pause upstream.  Pause   *)
(* is decided only on arrivals of that queue and resume only on its        *)
(* departures, while the threshold moves with every other queue's traffic. *)
(***************************************************************************)
DropOnlyWhenPaused ==
    \A p \in Ports, q \in DataQueues, s \in Sizes :
        ~ CheckIngressAdmission(mmu, p, q, s) => mmu.paused[p, q]

(***************************************************************************)
(* Every paused ingress queue is eventually resumed: resume is evaluated   *)
(* only when one of that queue's own packets leaves, so the last one must  *)
(* find the resume condition true.                                         *)
(***************************************************************************)
PausedEventuallyResumed ==
    \A p \in Ports, q \in DataQueues : mmu.paused[p, q] ~> ~ mmu.paused[p, q]

(***************************************************************************)
(* The buffer is never overcommitted: the bytes held in all ingress        *)
(* queues' reserved, shared and headroom pools never exceed buffer_size,   *)
(* the partition GetPfcThreshold assumes.                                  *)
(***************************************************************************)
BufferNeverOvercommitted ==
    Total(Ports \X DataQueues,
          LAMBDA pq : mmu.ingress_bytes[pq] + mmu.hdrm_bytes[pq]) <= BufferSize

-----------------------------------------------------------------------------
(* Telemetry properties, stated against the history of admitted packets.  *)

EpochNo(t) == t \div EpochTime

\* Indices of the admitted packets that went out of port o in an epoch
\* whose double-buffer index is s.
SentOutIn(o, s) ==
    {i \in DOMAIN accepted : FlowOut[accepted[i].flow] = o
                             /\ Tel!GetEpochIdx(accepted[i].t) = s}

\* Of a set of history indices, those in the latest epoch among them.
LatestEpoch(I) ==
    LET e == Max({EpochNo(accepted[i].t) : i \in I})
    IN {i \in I : EpochNo(accepted[i].t) = e}

(***************************************************************************)
(* Each port entry of the double buffer counts exactly the packets sent    *)
(* out of its port in the latest epoch that used the slot, and sums their  *)
(* enqueue depths: nothing is inherited from the epoch two back, nothing   *)
(* of the current epoch is lost.  The staleness test compares the time     *)
(* with the entry's stored timestamp.                                      *)
(***************************************************************************)
PortEntryCount ==
    \A o \in Ports, s \in Tel!Epochs :
        LET I == SentOutIn(o, s) IN
        IF I = {} THEN portTel[s, o].packetNum = 0
        ELSE /\ portTel[s, o].packetNum = Cardinality(LatestEpoch(I))
             /\ portTel[s, o].enqQdepth =
                    Total(LatestEpoch(I), LAMBDA i : accepted[i].depth)

(***************************************************************************)
(* A port entry's pfcPausedPacketNum counts exactly the packets of that    *)
(* epoch that met a paused egress queue.                                   *)
(***************************************************************************)
PortPausedCount ==
    \A o \in Ports, s \in Tel!Epochs :
        LET I == SentOutIn(o, s) IN
        I # {} => portTel[s, o].pfcPausedPacketNum =
                     Cardinality({i \in LatestEpoch(I) : accepted[i].paused})

\* The packets a flow entry should aggregate: those of the latest epoch
\* using the slot, of the last flow written to the bucket, after the last
\* packet of any other flow there (a collision overwrites the entry).
EntryRun(o, s, b) ==
    LET I  == {i \in SentOutIn(o, s) : FlowBucket[accepted[i].flow] = b}
        C  == LatestEpoch(I)
        f  == accepted[Max(C)].flow
        Ot == {i \in C : accepted[i].flow # f}
    IN {i \in C : accepted[i].flow = f /\ \A k \in Ot : i > k}

(***************************************************************************)
(* Each flow entry holds the last flow written to its bucket and counts    *)
(* exactly that flow's packets since it took the bucket in the latest      *)
(* epoch, paused ones included; an entry from the epoch two back or of     *)
(* a colliding flow is never extended.                                     *)
(***************************************************************************)
FlowEntryCount ==
    \A o \in Ports, s \in Tel!Epochs, b \in Buckets :
        LET I == {i \in SentOutIn(o, s) : FlowBucket[accepted[i].flow] = b}
            R == EntryRun(o, s, b)
        IN IF I = {} THEN flowTel[o, s, b].tuple = NoFlow
           ELSE /\ flowTel[o, s, b].tuple = accepted[Max(I)].flow
                /\ flowTel[o, s, b].packetNum = Cardinality(R)
                /\ flowTel[o, s, b].pfcPausedPacketNum =
                       Cardinality({i \in R : accepted[i].paused})

(***************************************************************************)
(* A flow entry's enqQdepth sums the enqueue depths of exactly the         *)
(* entry's packets that did not meet a paused egress queue.                *)
(***************************************************************************)
FlowEntryDepth ==
    \A o \in Ports, s \in Tel!Epochs, b \in Buckets :
        LET R == EntryRun(o, s, b) IN
        R # {} => flowTel[o, s, b].enqQdepth =
                     Total({i \in R : ~ accepted[i].paused},
                           LAMBDA i : accepted[i].depth)

(***************************************************************************)
(* A telemetry entry that a packet restarts (a new epoch in the slot, or a *)
(* new flow in the bucket) holds only what its packets recorded: the port  *)
(* entry's paused count and the flow entry's enqueue depth both start from *)
(* the restarting packet, whether or not it met a paused egress queue.     *)
(***************************************************************************)
RestartedEntriesFresh == PortPausedCount /\ FlowEntryDepth

(***************************************************************************)
(* The port-to-port matrix is the sum of its ring of slots: rotating into  *)
(* a slot subtracts that slot's old bytes from every total before zeroing  *)
(* it.                                                                     *)
(***************************************************************************)
PortToPortIsSumOfSlots ==
    \A io \in Ports \X Ports :
        pp.bytes[io] = Total(Tel!Slots, LAMBDA k : pp.slot[io[1], io[2], k])

(***************************************************************************)
(* The port-to-port matrix counts the bytes of the last PortToPortSlot     *)
(* slot periods only, as of the latest admitted packet.                    *)
(***************************************************************************)
SlotNo(t) == t \div (EpochTime \div PortToPortSlot)

PortToPortWindowed ==
    accepted # <<>> =>
        \A io \in Ports \X Ports :
            pp.bytes[io] =
                Total({i \in DOMAIN accepted :
                          /\ FlowIn[accepted[i].flow] = io[1]
                          /\ FlowOut[accepted[i].flow] = io[2]
                          /\ SlotNo(accepted[i].t)
                               > SlotNo(accepted[Len(accepted)].t) - PortToPortSlot},
                      LAMBDA i : accepted[i].size)

(***************************************************************************)
(* The telemetry a signal or polling packet makes OutputTelemetry print    *)
(* for a port lists under "epoch now" exactly the flow buckets that        *)
(* packets sent out of the port used in the current epoch, and under       *)
(* "epoch last" exactly those of the previous epoch: the age filters let   *)
(* no entry of the slot's earlier use through and drop none of its last.   *)
(***************************************************************************)
TelemetryReportsEpochs ==
    \A o \in Ports :
        LET R     == OutputTelemetry(o)
            In(e) == {FlowBucket[accepted[i].flow] :
                        i \in {k \in DOMAIN accepted : /\ FlowOut[accepted[k].flow] = o
                                                       /\ EpochNo(accepted[k].t) = e}}
        IN /\ R.nowRows = In(EpochNo(now))
           /\ R.lastRows = In(EpochNo(now) - 1)

(***************************************************************************)
(* A signal goes downstream on a port only on current evidence: the port   *)
(* is pause-blocked on priority 3, or one of its packets met a pause in    *)
(* the current or the previous epoch (before the signal).                  *)
(***************************************************************************)
SignalOnlyOnRecentPause ==
    \A s \in signalled :
        \/ s.blocked
        \/ \E i \in 1..s.seen :
              /\ FlowOut[accepted[i].flow] = s.port
              /\ accepted[i].paused
              /\ EpochNo(accepted[i].t) + 1 >= EpochNo(s.t)

=============================================================================
