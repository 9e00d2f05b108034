\* Sustained-pause signalling: two data packets, two signal or polling
\* packets with ids 1, 2, 4 (window 1), over three epochs.
CONSTANTS
    F1 = F1  F2 = F2  F3 = F3  F4 = F4  NoFlow = NoFlow
    Ports <- MCPorts
    Queues = {0, 3}
    BufferSize = 14
    Reserve = 1
    ResumeOffset = 4
    Headroom <- MCHeadroom
    PfcShift <- MCPfcShift
    Kmin <- MCKmin
    Kmax <- MCKmax
    PmaxPct <- MCPmaxPct
    Word = 1073741824
    Flows <- MCSigFlows
    FlowIn <- MCFlowIn
    FlowOut <- MCFlowOut
    FlowProt <- MCFlowProt
    FlowPg <- MCFlowPg
    AckHighPrio = TRUE
    Sizes = {1}
    Buckets <- MCBuckets
    FlowBucket <- MCFlowBucket
    EpochTime = 2
    PortToPortSlot = 2
    TimeWrap = 1073741824
    EventIds = {1, 2, 4}
    EventWindow = 1
    MaxEvents = 2
    MaxPackets = 2
    MaxTime = 4
SPECIFICATION FairSpec
INVARIANT TelemetryReportsEpochs
CHECK_DEADLOCK FALSE
