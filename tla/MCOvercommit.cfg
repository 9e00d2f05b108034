\* Total occupancy against buffer_size: three data queues, two of them on
\* port 1.  Reserve 3 = one packet; free pool = 12 - 6 - 6 = 0.
CONSTANTS
    F1 = F1  F2 = F2  F3 = F3  F4 = F4  NoFlow = NoFlow
    Ports <- MCPorts
    Queues <- MCQueues
    BufferSize = 12
    Reserve = 3
    ResumeOffset = 4
    Headroom <- MCHeadroom
    PfcShift <- MCPfcShift
    Kmin <- MCKmin
    Kmax <- MCKmax
    PmaxPct <- MCPmaxPct
    Word = 1073741824
    Flows <- MCDataFlows
    FlowIn <- MCFlowIn
    FlowOut <- MCFlowOut
    FlowProt <- MCFlowProt
    FlowPg <- MCFlowPg
    AckHighPrio = TRUE
    Sizes = {3}
    Buckets <- MCBuckets
    FlowBucket <- MCFlowBucket
    EpochTime = 2
    PortToPortSlot = 2
    TimeWrap = 1073741824
    EventIds = {1}
    EventWindow = 1
    MaxEvents = 0
    MaxPackets = 5
    MaxTime = 0
SPECIFICATION FairSpec
INVARIANT BufferNeverOvercommitted
CHECK_DEADLOCK FALSE
