\* Arrivals with a gap of a whole slot ring between them.
CONSTANTS
    F1 = F1  F2 = F2  F3 = F3  F4 = F4  NoFlow = NoFlow
    Ports <- MCPorts
    Queues <- MCQueues
    BufferSize = 14
    Reserve = 1
    ResumeOffset = 4
    Headroom <- MCHeadroom
    PfcShift <- MCPfcShift
    Kmin <- MCKmin
    Kmax <- MCKmax
    PmaxPct <- MCPmaxPct
    Word = 1073741824
    Flows <- MCTelFlows
    FlowIn <- MCFlowIn
    FlowOut <- MCFlowOut
    FlowProt <- MCFlowProt
    FlowPg <- MCFlowPg
    AckHighPrio = TRUE
    Sizes = {1}
    Buckets <- MCBuckets
    FlowBucket <- MCFlowBucket
    EpochTime = 2
    PortToPortSlot = 2
    TimeWrap = 1073741824
    EventIds = {1}
    EventWindow = 1
    MaxEvents = 0
    MaxPackets = 3
    MaxTime = 4
SPECIFICATION FairSpec
INVARIANT PortToPortWindowed
CHECK_DEADLOCK FALSE
