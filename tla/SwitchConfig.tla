----------------------------- MODULE SwitchConfig -----------------------------
(***************************************************************************)
(* The switch configuration rule of third.cc's main: for every port of a   *)
(* switch, ECN thresholds looked up by the port's rate, PFC headroom from  *)
(* its rate and link delay, and pfc_a_shift from its rate over the NIC     *)
(* rate; then ConfigNPort and ConfigBufferSize.  Its result is the        *)
(* configuration constants of SwitchMmu.                                   *)
(***************************************************************************)
EXTENDS Naturals, FiniteSetsExt

\* get_nic_rate: the rate of device 1 of the first node of type 0 (a host).
\* nodeType and devRate are functions of the node index.
GetNicRate(nodeType, devRate) ==
    devRate[Min({i \in DOMAIN nodeType : nodeType[i] = 0})]

\* uint32_t headroom = rate * delay / 8 / 1000000000 * 3, with delay the
\* channel delay in time steps and nsPerSec the steps per second.
PortHeadroom(rate, delay, nsPerSec) == (((rate * delay) \div 8) \div nsPerSec) * 3

\* pfc_a_shift[j] starts at shift = 3 and drops by one for every halving of
\* rate while rate > nic_rate, down to 0.
RECURSIVE PfcAShift(_, _, _)
PfcAShift(shift, rate, nicRate) ==
    IF rate > nicRate /\ shift > 0 THEN PfcAShift(shift - 1, rate \div 2, nicRate)
    ELSE shift

\* node_id_to_ip: 11.0.x.1 with x the node id, as a <<hi, lo>> uint32_t.
NodeIdToIp(id) == <<2816 + id \div 256, 1 + (id % 256) * 256>>

(***************************************************************************)
(* The loop over devices 1..GetNDevices()-1 of one switch.  c holds the    *)
(* port rates and delays, the rate2kmin/kmax/pmax tables, the NIC rate,   *)
(* the time steps per second and the byte unit of kmin/kmax (ConfigEcn    *)
(* multiplies by 1000).  The result holds SwitchMmu's constants.          *)
(***************************************************************************)
ConfigSwitch(ports, c) ==
    [kmin     |-> [j \in ports |-> c.rate2kmin[c.rate[j]] * c.kilo],
     kmax     |-> [j \in ports |-> c.rate2kmax[c.rate[j]] * c.kilo],
     pmax     |-> [j \in ports |-> c.rate2pmax[c.rate[j]]],
     headroom |-> [j \in ports |-> PortHeadroom(c.rate[j], c.delay[j], c.nsPerSec)],
     pfcShift |-> [j \in ports |-> PfcAShift(3, c.rate[j], c.nicRate)]]

====
