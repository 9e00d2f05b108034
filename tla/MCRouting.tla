----------------------------- MODULE MCRouting -----------------------------
(* A two-tier topology for Routing: hosts H1 and H2 on edge switches S1     *)
(* and S2, joined by two equal-length paths through S3 and S4 that differ   *)
(* in delay and bandwidth.  Flows run between the two hosts; the link     *)
(* failure comes at time 2 and the simulator stops at 4.                   *)
EXTENDS Simulation

CONSTANTS H1, H2, S1, S2, S3, S4

MCHosts    == {H1, H2}
MCSwitches == {S1, S2, S3, S4}
MCLinks    == {{H1, S1}, {S1, S3}, {S1, S4}, {S3, S2}, {S4, S2}, {S2, H2}}
\* The path through S4 is slower and narrower than the one through S3.
MCLinkDelay == [l \in MCLinks |-> IF l = {S1, S4} THEN 2 ELSE 1]
MCLinkBw    == [l \in MCLinks |-> IF l = {S4, S2} THEN 2 ELSE 4]
MCDownLinks == {{S1, S3}, {S3, S2}, {S2, H2}}

\* Host ranks do not matter: a host is never enqueued, and relaxing it
\* from a switch changes only the host's own entries, so only the order of
\* the four switches is enumerated.
MCOrders == {r \in [MCHosts \cup MCSwitches -> 1..6] :
                r[H1] = 5 /\ r[H2] = 6 /\ {r[x] : x \in MCSwitches} = 1..4}
MCNodeId == (H1 :> 0) @@ (H2 :> 1) @@ (S1 :> 2) @@ (S2 :> 3) @@ (S3 :> 4) @@ (S4 :> 5)

FlowLine(s, d, t) == [src |-> s, dst |-> d, pg |-> 3, dport |-> 100, size |-> 2, start |-> t]
\* Two flows of one pair at the same time, and a reverse flow at the time
\* of the link failure; or a flow before the failure and one after it.
MCFlowFiles == { <<FlowLine(0, 1, 1), FlowLine(0, 1, 1), FlowLine(1, 0, 2)>>,
                 <<FlowLine(0, 1, 0), FlowLine(0, 1, 3)>> }
====
