----------------------------- MODULE MCSwitchNode -----------------------------
(***************************************************************************)
(* Model values for SwitchNode.  Bytes are scaled down so that a handful   *)
(* of packets reaches reserve, shared pool, headroom and threshold.        *)
(***************************************************************************)
EXTENDS SwitchNode, SwitchConfig, TLC

Hash == INSTANCE EcmpHash

CONSTANTS F1, F2, F3, F4

MCPorts      == {1, 2}
MCQueues     == {0, 1, 3}

\* The MMU configuration as third.cc derives it: a switch (node 1) with two
\* ports of rate 4 and link delay 2 steps, hosts (nodes 2, 3) of rate 1,
\* one step per second, kmin/kmax in units of 1.  Headroom is
\* 4 * 2 / 8 * 3 = 3; pfc_a_shift halves 4 to 2 to 1 and stops at 1.
MCNicRate    == GetNicRate(<<1, 0, 0>>, <<4, 1, 1>>)
MCSwitchCfg  == ConfigSwitch(MCPorts,
                    [rate |-> [j \in MCPorts |-> 4], delay |-> [j \in MCPorts |-> 2],
                     rate2kmin |-> (4 :> 1), rate2kmax |-> (4 :> 3),
                     rate2pmax |-> (4 :> 50), nicRate |-> MCNicRate,
                     nsPerSec |-> 1, kilo |-> 1])
MCHeadroom   == MCSwitchCfg.headroom
MCPfcShift   == MCSwitchCfg.pfcShift
MCKmin       == MCSwitchCfg.kmin
MCKmax       == MCSwitchCfg.kmax
MCPmaxPct    == MCSwitchCfg.pmax

\* F1 and F2 share ingress port 1 on different priorities; F4 enters at
\* port 2 on the priority of F1; F3 is an ACK flow.
MCFlows      == {F1, F2, F3, F4}
MCFlowIn     == (F1 :> 1) @@ (F2 :> 1) @@ (F3 :> 2) @@ (F4 :> 2)
MCFlowOut    == (F1 :> 2) @@ (F2 :> 2) @@ (F3 :> 1) @@ (F4 :> 1)
MCFlowProt   == (F1 :> "tcp") @@ (F2 :> "udp") @@ (F3 :> "ack") @@ (F4 :> "udp")
MCFlowPg     == (F1 :> 1) @@ (F2 :> 3) @@ (F3 :> 1) @@ (F4 :> 1)
MCLiveFlows  == {F1, F4}
MCDataFlows  == {F1, F2, F4}
MCTelFlows   == {F1, F2}
MCSigFlows   == {F2}

\* The five-tuples of the flows, between hosts 2, 3 and 4 (node_id_to_ip).
\* Their m_flowTelemetryData buckets are FiveTupleHash with zeroed padding:
\* F1 and F2 collide in bucket 3558, F3 and F4 do not.  The ASSUME checks
\* the table against the hash once, so no state recomputes it.
Tuple(s, d, sport, prot) ==
    [srcIp |-> NodeIdToIp(s), dstIp |-> NodeIdToIp(d),
     srcPort |-> sport, dstPort |-> 100, protocol |-> prot]
MCFlowTuple  == (F1 :> Tuple(2, 3, 10000, 6)) @@ (F2 :> Tuple(2, 3, 12856, 17))
                @@ (F3 :> Tuple(3, 2, 10000, 252)) @@ (F4 :> Tuple(4, 3, 10000, 17))
MCFlowBucket == (F1 :> 3558) @@ (F2 :> 3558) @@ (F3 :> 1720) @@ (F4 :> 3668)

ASSUME BucketsAreFiveTupleHash ==
    \A f \in MCFlows : MCFlowBucket[f] = Hash!FiveTupleHash(MCFlowTuple[f], <<0, 0, 0>>)
MCBuckets    == {MCFlowBucket[f] : f \in MCFlows}

=============================================================================
