\* Liveness of PFC resume: two data flows on one priority entering at
\* different ports, so each queue's threshold moves with the other's traffic.
\* Free pool = 14 - 6 - 2 = 6, threshold 3 when the pool is empty.
CONSTANTS
    F1 = F1  F2 = F2  F3 = F3  F4 = F4  NoFlow = NoFlow
    Ports <- MCPorts
    Queues = {0, 1}
    BufferSize = 14
    Reserve = 1
    ResumeOffset = 4
    Headroom <- MCHeadroom
    PfcShift <- MCPfcShift
    Kmin <- MCKmin
    Kmax <- MCKmax
    PmaxPct <- MCPmaxPct
    Word = 1073741824
    Flows <- MCLiveFlows
    FlowIn <- MCFlowIn
    FlowOut <- MCFlowOut
    FlowProt <- MCFlowProt
    FlowPg <- MCFlowPg
    AckHighPrio = TRUE
    Sizes = {1, 2}
    Buckets <- MCBuckets
    FlowBucket <- MCFlowBucket
    EpochTime = 2
    PortToPortSlot = 2
    TimeWrap = 1073741824
    EventIds = {1}
    EventWindow = 1
    MaxEvents = 0
    MaxPackets = 3
    MaxTime = 0
SPECIFICATION FairSpec
INVARIANT TypeOK BufferAccounting SharedPoolSound DropOnlyWhenPaused
CHECK_DEADLOCK FALSE
PROPERTY PausedEventuallyResumed
