\* The event schedule of main around the routes: flows started from the
\* flow file, one link failure, completions at any time, for every order
\* of the switches in the neighbour maps.
CONSTANTS
    H1 = H1
    H2 = H2
    S1 = S1
    S2 = S2
    S3 = S3
    S4 = S4
    Hosts <- MCHosts
    Switches <- MCSwitches
    Links <- MCLinks
    LinkDelay <- MCLinkDelay
    LinkBw <- MCLinkBw
    DownLinks <- MCDownLinks
    Orders <- MCOrders
    NodeId <- MCNodeId
    FlowFiles <- MCFlowFiles
    PayloadSize = 1
    NsPerSec = 1
    BwMax = 8
    MaxLinkDowns = 1
    HeaderBytes = 1
    LinkDownBase = 1
    LinkDownTime = 1
    StopTime = 4
    QlenMonStart = 1
    QlenMonInterval = 1
    QlenMonEnd = 2
    QlenDumpInterval = 2
SPECIFICATION FairSpec
INVARIANT SimTypeOK RoutesFollowShortestUpPaths PairFiguresOnOnePath
INVARIANT FlowsStartOnTime QpKeysUnique MonitorSamplesDumped
PROPERTY EveryFlowStarts
\* Run ends: by the last qp_finish or at the stop time.
CHECK_DEADLOCK FALSE
