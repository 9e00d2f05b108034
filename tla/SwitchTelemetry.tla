--------------------------- MODULE SwitchTelemetry ---------------------------
(***************************************************************************)
(* The telemetry tables a switch updates for every admitted data packet    *)
(* (switch-node.{h,cc}, "RDMA NPA"): the port-to-port byte matrix kept     *)
(* over a ring of time slots, and the per-flow and per-port entries kept   *)
(* in a double buffer indexed by epoch.                                    *)
(*                                                                         *)
(* A five-tuple is abstracted to the flow it names (a model value), and    *)
(* the flow hash to a bucket function; minSeq/maxSeq are left out, as no   *)
(* decision of the switch reads them.                                      *)
(***************************************************************************)
EXTENDS Naturals

CONSTANTS
    TPorts,         \* device indices whose tables are modelled
    Flows,          \* five-tuples of the flows crossing the switch
    NoFlow,         \* the zero five-tuple the constructor stores
    Buckets,        \* flow-table indices (flowEntryNum in the code)
    FlowBucket,     \* FiveTupleHash: flow -> bucket
    EpochTime,      \* epochTime (ns)
    PortToPortSlot, \* portToPortSlot: slots in the port-to-port ring
    TimeWrap        \* 2^32: PortTelemetryData.lastTimeStep is a uint32_t

ASSUME TelemetryAssumption ==
    /\ NoFlow \notin Flows
    /\ \A f \in Flows : FlowBucket[f] \in Buckets
    /\ EpochTime \in Nat /\ PortToPortSlot \in Nat \ {0}
    /\ EpochTime \div PortToPortSlot > 0
    /\ TimeWrap \in Nat \ {0}

\* static const epochNum = 2: the double buffer.
EpochNum == 2
Epochs   == 0 .. EpochNum - 1
Slots    == 0 .. PortToPortSlot - 1

GetEpochIdx(now) == (now \div EpochTime) % EpochNum

\* The slot the port-to-port ring writes at time now.
SlotOf(now) == (now \div (EpochTime \div PortToPortSlot)) % PortToPortSlot

\* Mutant: stale only after the whole double buffer (off by one epoch).
IsNewEntryWholeCycle(now, last) == now - last > EpochTime * EpochNum

\* An entry is stale once more than one epoch has passed since its update.
IsNewEntry(now, last) == now - last > EpochTime * (EpochNum - 1)

-----------------------------------------------------------------------------
(* The port-to-port traffic matrix: record with fields bytes (per port     *)
(* pair), slot (per port pair and slot) and slotIdx.                       *)

InitPortToPort ==
    [ bytes   |-> [io \in TPorts \X TPorts |-> 0],
      slot    |-> [ios \in TPorts \X TPorts \X Slots |-> 0],
      slotIdx |-> 0 ]

\* Mutant: clear the slot entered without subtracting it from the totals.
AddPortToPortNoSubtract(pp, now, in, out, size) ==
    LET cur == SlotOf(now)
        rotated ==
            IF cur # pp.slotIdx
            THEN [ bytes   |-> pp.bytes,
                   slot    |-> [ios \in TPorts \X TPorts \X Slots |->
                                  IF ios[3] = cur THEN 0 ELSE pp.slot[ios]],
                   slotIdx |-> cur ]
            ELSE pp
    IN [rotated EXCEPT !.slot[in, out, cur] = @ + size,
                       !.bytes[<<in, out>>] = @ + size]

\* On entering a new slot, subtract the slot's old bytes from every total,
\* then clear it; afterwards charge this packet to the current slot.
AddPortToPort(pp, now, in, out, size) ==
    LET cur == SlotOf(now)
        rotated ==
            IF cur # pp.slotIdx
            THEN [ bytes   |-> [io \in TPorts \X TPorts |->
                                  pp.bytes[io] - pp.slot[io[1], io[2], cur]],
                   slot    |-> [ios \in TPorts \X TPorts \X Slots |->
                                  IF ios[3] = cur THEN 0 ELSE pp.slot[ios]],
                   slotIdx |-> cur ]
            ELSE pp
    IN [rotated EXCEPT !.slot[in, out, cur] = @ + size,
                       !.bytes[<<in, out>>] = @ + size]

-----------------------------------------------------------------------------
(* Flow and port entries.  The flow table is a function over               *)
(* port x epoch x bucket; the port table over epoch x port.  The flow      *)
(* table's non-tuple fields are never initialised by the constructor: the  *)
(* array is tens of megabytes, obtained from fresh zero-filled pages, so   *)
(* they start at zero.                                                     *)

InitFlowEntry == [tuple |-> NoFlow, packetNum |-> 0, enqQdepth |-> 0,
                  pfcPausedPacketNum |-> 0, lastTimeStep |-> 0]

InitPortEntry == [packetNum |-> 0, enqQdepth |-> 0,
                  pfcPausedPacketNum |-> 0, lastTimeStep |-> 0]

\* Mutant: extend the entry without comparing its five-tuple.
UpdateFlowEntryNoTupleCheck(entry, f, now, egressPaused, qlen) ==
    IF ~ IsNewEntry(now, entry.lastTimeStep)
    THEN [entry EXCEPT
            !.packetNum = @ + 1,
            !.pfcPausedPacketNum = IF egressPaused THEN @ + 1 ELSE @,
            !.enqQdepth = IF egressPaused THEN @ ELSE @ + (qlen - 1),
            !.lastTimeStep = now]
    ELSE [entry EXCEPT
            !.tuple = f,
            !.packetNum = 1,
            !.pfcPausedPacketNum = IF egressPaused THEN 1 ELSE 0,
            !.enqQdepth = IF egressPaused THEN @ ELSE qlen - 1,
            !.lastTimeStep = now]

\* Record one packet of flow f, seen when the egress queue holds qlen
\* packets (itself included) and the egress link is paused or not.
UpdateFlowEntry(entry, f, now, egressPaused, qlen) ==
    IF entry.tuple = f /\ ~ IsNewEntry(now, entry.lastTimeStep)
    THEN [entry EXCEPT
            !.packetNum = @ + 1,
            !.pfcPausedPacketNum = IF egressPaused THEN @ + 1 ELSE @,
            !.enqQdepth = IF egressPaused THEN @ ELSE @ + (qlen - 1),
            !.lastTimeStep = now]
    ELSE [entry EXCEPT
            !.tuple = f,
            !.packetNum = 1,
            !.pfcPausedPacketNum = IF egressPaused THEN 1 ELSE 0,
            !.enqQdepth = IF egressPaused THEN @ ELSE qlen - 1,
            !.lastTimeStep = now]

\* The port entry stores its timestamp in a uint32_t.
UpdatePortEntry(entry, now, egressPaused, qlen) ==
    IF ~ IsNewEntry(now, entry.lastTimeStep)
    THEN [entry EXCEPT
            !.enqQdepth = @ + (qlen - 1),
            !.packetNum = @ + 1,
            !.pfcPausedPacketNum = IF egressPaused THEN @ + 1 ELSE @,
            !.lastTimeStep = now % TimeWrap]
    ELSE [entry EXCEPT
            !.enqQdepth = qlen - 1,
            !.pfcPausedPacketNum = 0,
            !.packetNum = 1,
            !.lastTimeStep = now % TimeWrap]

=============================================================================
